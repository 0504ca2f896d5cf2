------------------------- MODULE ChatPipelineProofs -------------------------
(***************************************************************************)
(* Proofs about ChatPipeline for any number of tasks, threads and workers   *)
(* and any budgets.                                                         *)
(***************************************************************************)
EXTENDS ChatPipeline, TLAPS

-----------------------------------------------------------------------------
(* The transactions on one attempt row                                      *)

\* What the row of one attempt satisfies at any time.
RowOK(r) == /\ Completed(r) => r.terminal = "none"
            /\ r.orphan => r.terminal = "failed"
            /\ ~r.exists => ~Decided(r)

\* What a transaction on the row of attempt t may do to it: it never decides
\* a decided attempt again, nor touches one that does not exist.
RowStep(r, s) == /\ s \in Row
                 /\ RowOK(s)
                 /\ s.exists = r.exists
                 /\ ~r.exists => s = r
                 /\ Decided(r) => /\ s.completed = r.completed
                                  /\ s.terminal = r.terminal

\* The row type, spelled out for one row.
LEMMA RowFields ==
    ASSUME NEW r \in Row
    PROVE /\ r.exists \in BOOLEAN
          /\ r.accepted \in BOOLEAN
          /\ r.token \in Nat
          /\ r.completed \in Tasks \cup {NoTask}
          /\ r.terminal \in {"none", "failed", "cancelled"}
          /\ r.orphan \in BOOLEAN
BY DEF Row, TerminalEvents

\* Every transaction of the workers and of the deadline controller is a
\* RowStep.
LEMMA TransactionsStep ==
    ASSUME NEW r \in Row, RowOK(r)
    PROVE /\ RowStep(r, r)
          /\ r.exists => RowStep(r, MarkAccepted(r))
          /\ \A m \in Tasks : RowStep(r, LinkSuccess(r, m))
          /\ \A e \in TerminalEvents : RowStep(r, RecordTerminal(r, e))
          /\ \A m \in Tasks : RowStep(r, PersistAssistant(r, m))
          /\ \A n : r.exists => RowStep(r, Reconcile(r, n))
<1> USE RowFields, NoTaskAssumption DEF RowStep, RowOK, Row, TerminalEvents, Completed, Decided
<1>1. RowStep(r, r)
  OBVIOUS
<1>2. r.exists => RowStep(r, MarkAccepted(r))
  BY DEF MarkAccepted
<1>3. \A m \in Tasks : RowStep(r, LinkSuccess(r, m))
  BY DEF LinkSuccess, LinkResult
<1>4. \A e \in TerminalEvents : RowStep(r, RecordTerminal(r, e))
  BY DEF RecordTerminal
<1>5. \A m \in Tasks : RowStep(r, PersistAssistant(r, m))
  BY DEF PersistAssistant, PersistInserts
<1>6. \A n : r.exists => RowStep(r, Reconcile(r, n))
  BY DEF Reconcile, Fences
<1>7. QED
  BY <1>1, <1>2, <1>3, <1>4, <1>5, <1>6

\* The row create_chat_completion_attempt commits is pending.
LEMMA CreatedRow ==
    ASSUME NEW n \in Nat
    PROVE LET r == CreateAttempt(n) IN
          r \in Row /\ RowOK(r) /\ r.exists /\ ~Decided(r) /\ r.token = n
BY NoTaskAssumption
   DEF CreateAttempt, AbsentRow, Row, RowOK, TerminalEvents, Completed, Decided

-----------------------------------------------------------------------------
(* The operations on one lock                                               *)

\* A key of Redis: a probe stores its bare owner, so only the lock of a task
\* is an envelope.
LockOK(l) == l \in Lock /\ (l.owner = Probe => l.token = 0)

\* Every lock operation leaves such a key.
LEMMA LockOperations ==
    ASSUME NEW l, LockOK(l)
    PROVE /\ LockOK(NoLock)
          /\ LockOK(Age(l))
          /\ LockOK(AcquireLock(Probe, 0, ProbeTTL))
          /\ \A t \in Tasks, n \in Nat : LockOK(AcquireLock(t, n, Lease))
          /\ \A o \in Tasks \cup {Probe}, n \in Nat :
                /\ LockOK(ReleaseLock(l, o, n))
                /\ LockOK(ReleaseTerminalLock(l, o, n))
                /\ LockOK(RenewLock(l, o, n, Lease))
BY NoTaskAssumption, ProbeAssumption, BudgetAssumption, PipelineAssumption
   DEF LockOK, NoLock, Lock, AcquireLock, Age, ReleaseLock, ReleaseTerminalLock,
       RenewLock, Lease, TotalBudget

-----------------------------------------------------------------------------
(* The inductive invariant                                                  *)

\* Requests that have not reached Create, and requests that have passed it.
Unborn == {"idle", "recover", "reconcile", "unlock", "reacquire", "snapshot",
           "deadline", "renew", "create"}
Born == {"enqueue", "mark", "accepted"}

\* A request's row is committed by its own Create and by nothing else, and a
\* recovering request works on the attempt of a task it read in a lock.
RequestOK(t) == /\ apc[t] \in Unborn => ~row[t].exists
                /\ apc[t] \in Born => row[t].exists
                /\ apc[t] \in {"reconcile", "unlock"} => seen[t] \in Tasks

\* A busy worker has a task; past the persisting transaction that task is
\* completed; the event in its hand is one it may record, or the outcome of
\* the attempt it is about to show.
WorkerOK(w) ==
    LET r == row[Task(w)] IN
    /\ wk[w].pc # "idle" => Task(w) \in Tasks
    /\ wk[w].pc = "post" => Completed(r)
    /\ wk[w].pc \in {"record", "project"} => wk[w].ev \in TerminalEvents
    /\ wk[w].pc \in {"publish", "cleanup", "show"} => Decided(r) /\ wk[w].ev = Outcome(r)

RowsOK == \A t \in Tasks : RowOK(row[t])
LocksOK == \A h \in Threads : LockOK(lock[h])
RequestsOK == \A t \in Tasks : RequestOK(t)
WorkersOK == \A w \in Workers : WorkerOK(w)

Inv == /\ TypeOK
       /\ RowsOK
       /\ LocksOK
       /\ RequestsOK
       /\ WorkersOK
       /\ AssistantBound
       /\ PublishedAgrees

-----------------------------------------------------------------------------
(* Frames: what each kind of step leaves alone                              *)

\* The row of every attempt takes a RowStep, or none.
RowsStep == /\ row' \in [Tasks -> Row]
            /\ \A t \in Tasks : RowStep(row[t], row'[t])

\* Worker w alone moves.
Moved(w) == /\ wk' \in [Workers -> WorkerRecord]
            /\ \A v \in Workers \ {w} : wk'[v] = wk[v]

\* The locks keep their form.
LocksKept == lock' \in [Threads -> Lock] /\ LocksOK'

\* A step that leaves all rows alone, or changes one by a RowStep.
LEMMA RowsUpdate ==
    ASSUME Inv
    PROVE /\ UNCHANGED row => RowsStep
          /\ \A t \in Tasks, s \in Row :
                RowStep(row[t], s) /\ (row' = [row EXCEPT ![t] = s] \/ MaybeRow(t, s)) => RowsStep
<1>1. \A t \in Tasks : RowStep(row[t], row[t]) /\ row[t] \in Row
  BY TransactionsStep DEF Inv, TypeOK, RowsOK
<1>2. row \in [Tasks -> Row]
  BY DEF Inv, TypeOK
<1>3. QED
  BY <1>1, <1>2 DEF RowsStep, MaybeRow

\* A step that leaves all locks alone, or changes one to a proper key.
LEMMA LocksUpdate ==
    ASSUME Inv
    PROVE /\ UNCHANGED lock => LocksKept
          /\ \A h \in Threads : \A l :
                LockOK(l) /\ (SetLock(h, l) \/ MaybeLock(h, l)) => LocksKept
<1>1. lock \in [Threads -> Lock] /\ LocksOK
  BY DEF Inv, TypeOK
<1>2. QED
  BY <1>1 DEF LocksKept, LocksOK, LockOK, SetLock, MaybeLock

\* While rows only take RowSteps, what was decided, shown and inserted stands.
LEMMA RowsStepKeeps ==
    ASSUME Inv, RowsStep
    PROVE /\ RowsOK'
          /\ UNCHANGED inserted => AssistantBound'
          /\ UNCHANGED published => PublishedAgrees'
          /\ \A v \in Workers : wk'[v] = wk[v] => WorkerOK(v)'
          /\ \A u \in Tasks : apc'[u] = apc[u] /\ seen'[u] = seen[u] => RequestOK(u)'
<1>1. RowsOK'
  BY DEF RowsStep, RowStep, RowsOK
<1>2. \A t \in Tasks : /\ row[t] \in Row
                       /\ RowStep(row[t], row'[t])
                       /\ Decided(row[t]) => Decided(row'[t]) /\ Outcome(row'[t]) = Outcome(row[t])
  BY DEF RowsStep, RowStep, Inv, TypeOK, Decided, Outcome, Completed
<1>3. ASSUME UNCHANGED inserted PROVE AssistantBound'
  BY <1>2, <1>3, NoTaskAssumption DEF AssistantBound, Inv, RowStep, Decided, Completed
<1>4. ASSUME UNCHANGED published PROVE PublishedAgrees'
  <2>1. \A t \in Tasks : ~Decided(row[t]) => published[t] = {}
    <3>1. \A t \in Tasks : published[t] \subseteq Events /\ published[t] \subseteq {Outcome(row[t])}
      BY DEF Inv, TypeOK, PublishedAgrees
    <3>2. \A t \in Tasks : ~Decided(row[t]) => Outcome(row[t]) \notin Events
      BY DEF Decided, Outcome, Events
    <3>3. QED
      BY <3>1, <3>2
  <2>2. QED
    BY <1>2, <1>4, <2>1 DEF Inv, PublishedAgrees
<1>5. ASSUME NEW v \in Workers, wk'[v] = wk[v] PROVE WorkerOK(v)'
  BY <1>2, <1>5 DEF Inv, WorkersOK, WorkerOK, Task, RowStep, Decided, Completed
<1>6. ASSUME NEW u \in Tasks, apc'[u] = apc[u], seen'[u] = seen[u] PROVE RequestOK(u)'
  BY <1>2, <1>6 DEF Inv, RequestsOK, RequestOK, RowStep
<1>7. QED
  BY <1>1, <1>3, <1>4, <1>5, <1>6

\* What the worker's moves do to its record.
LEMMA WorkerMoves ==
    ASSUME Inv, NEW w \in Workers
    PROVE /\ Return(w) => Moved(w) /\ wk'[w].pc = "idle"
          /\ Finish(w) => Moved(w) /\ wk'[w].task = wk[w].task /\ wk'[w].pc = "observe"
          /\ \A s \in WorkerStates : WorkerGoto(w, s) =>
                Moved(w) /\ wk'[w].task = wk[w].task /\ wk'[w].pc = s /\ wk'[w].ev = wk[w].ev
          /\ \A e \in TerminalEvents, c \in {"body", "handler"} : RecordNext(w, e, c) =>
                /\ Moved(w)
                /\ wk'[w].task = wk[w].task
                /\ wk'[w].pc = "observe" \/ (wk'[w].pc = "record" /\ wk'[w].ev = e)
          /\ \A e \in Events, s \in {"clear", "observe"} : PublishNext(w, e, s) =>
                Moved(w) /\ wk'[w].task = wk[w].task /\ wk'[w].pc = "publish" /\ wk'[w].ev = e
<1> USE DEF Moved
<1>0. wk \in [Workers -> WorkerRecord]
  BY DEF Inv, TypeOK
<1>1. Return(w) => Moved(w) /\ wk'[w].pc = "idle"
  BY <1>0 DEF Return, IdleWorker, WorkerRecord, WorkerStates, Events
<1>2. Finish(w) => Moved(w) /\ wk'[w].task = wk[w].task /\ wk'[w].pc = "observe"
  <2> DEFINE r == [IdleWorker EXCEPT !.task = Task(w), !.pc = "observe"]
  <2>1. r \in WorkerRecord /\ r.task = wk[w].task /\ r.pc = "observe"
    BY <1>0 DEF Task, IdleWorker, WorkerRecord, WorkerStates, Events
  <2>2. Finish(w) => wk' = [wk EXCEPT ![w] = r]
    BY DEF Finish
  <2>3. QED
    BY <1>0, <2>1, <2>2
<1>3. ASSUME NEW s \in WorkerStates, WorkerGoto(w, s)
      PROVE Moved(w) /\ wk'[w].task = wk[w].task /\ wk'[w].pc = s /\ wk'[w].ev = wk[w].ev
  BY <1>0, <1>3 DEF WorkerGoto, WorkerRecord
<1>4. ASSUME NEW e \in TerminalEvents, NEW c \in {"body", "handler"}, RecordNext(w, e, c)
      PROVE /\ Moved(w)
            /\ wk'[w].task = wk[w].task
            /\ wk'[w].pc = "observe" \/ (wk'[w].pc = "record" /\ wk'[w].ev = e)
  <2>1. CASE TerminalOpen(left[Task(w)])
    BY <1>0, <1>4, <2>1 DEF RecordNext, WorkerRecord, WorkerStates, Events, TerminalEvents
  <2>2. CASE ~TerminalOpen(left[Task(w)])
    BY <1>2, <1>4, <2>2 DEF RecordNext
  <2>3. QED
    BY <2>1, <2>2
<1>5. ASSUME NEW e \in Events, NEW s \in {"clear", "observe"}, PublishNext(w, e, s)
      PROVE Moved(w) /\ wk'[w].task = wk[w].task /\ wk'[w].pc = "publish" /\ wk'[w].ev = e
  <2> DEFINE r == [wk[w] EXCEPT !.pc = "publish", !.ev = e, !.then = s, !.terminal = TRUE]
  <2>1. r \in WorkerRecord /\ r.task = wk[w].task /\ r.pc = "publish" /\ r.ev = e
    BY <1>0, ZenonT(30) DEF WorkerRecord, WorkerStates
  <2>2. wk' = [wk EXCEPT ![w] = r]
    BY <1>0, <1>5 DEF PublishNext
  <2>3. QED
    BY <1>0, <2>1, <2>2
<1>6. QED
  BY <1>1, <1>2, <1>3, <1>4, <1>5

\* A step of worker w keeps the invariant if it keeps the rows, the locks, the
\* worker and the transcript.
LEMMA WorkerFrame ==
    ASSUME Inv, NEW w \in Workers, Moved(w), WorkerOK(w)', RowsStep, LocksKept,
           UNCHANGED <<apc, apiVars, recoveryVars>>,
           inserted' \in [Tasks -> Nat], AssistantBound',
           published' \in [Tasks -> SUBSET Events], PublishedAgrees',
           stamped' \in SUBSET Tasks, queue' \in Seq(Tasks), cancelled' \in SUBSET Tasks
    PROVE Inv'
<1>1. TypeOK'
  BY DEF Inv, TypeOK, Moved, RowsStep, LocksKept, apiVars, recoveryVars
<1>2. RequestsOK'
  BY RowsStepKeeps DEF RequestsOK, apiVars
<1>3. WorkersOK'
  BY RowsStepKeeps DEF WorkersOK, Moved
<1>4. RowsOK' /\ LocksOK'
  BY RowsStepKeeps DEF LocksKept
<1>5. QED
  BY <1>1, <1>2, <1>3, <1>4 DEF Inv

\* A step of the request of t keeps the invariant if it keeps the rows, the
\* locks and the request.
LEMMA RequestFrame ==
    ASSUME Inv, NEW t \in Tasks, RowsStep, LocksKept, RequestOK(t)',
           apc' \in [Tasks -> ApiStates], \A u \in Tasks \ {t} : apc'[u] = apc[u],
           seen' \in [Tasks -> Tasks \cup {NoTask}], \A u \in Tasks \ {t} : seen'[u] = seen[u],
           tok' \in [Tasks -> 0..2], left' \in [Tasks -> 0..TotalBudget],
           queue' \in Seq(Tasks),
           UNCHANGED <<inserted, stamped, cancelled, published, wk, recoveryVars>>
    PROVE Inv'
<1>1. TypeOK'
  BY DEF Inv, TypeOK, RowsStep, LocksKept, recoveryVars
<1>2. RequestsOK'
  BY RowsStepKeeps DEF RequestsOK
<1>3. WorkersOK'
  BY RowsStepKeeps DEF WorkersOK
<1>4. RowsOK' /\ LocksOK' /\ AssistantBound' /\ PublishedAgrees'
  BY RowsStepKeeps DEF LocksKept
<1>5. QED
  BY <1>1, <1>2, <1>3, <1>4 DEF Inv

-----------------------------------------------------------------------------
(* The steps of a request                                                   *)

\* What a move of the request of t does to apc.
LEMMA RequestMoves ==
    ASSUME Inv, NEW t \in Tasks, NEW s \in ApiStates, ApiGoto(t, s)
    PROVE /\ apc' \in [Tasks -> ApiStates]
          /\ apc'[t] = s
          /\ \A u \in Tasks \ {t} : apc'[u] = apc[u]
BY DEF Inv, TypeOK, ApiGoto

\* Every step of a request keeps the invariant.
LEMMA RequestStep ==
    ASSUME Inv, NEW t \in Tasks, ApiNext(t)
    PROVE Inv'
<1> DEFINE h == ThreadOf[t]
<1> USE DEF apiVars, dbVars, redisVars
<1>0. /\ h \in Threads
      /\ lock[h] \in Lock
      /\ LockOK(lock[h])
      /\ tok \in [Tasks -> 0..2]
      /\ seen \in [Tasks -> Tasks \cup {NoTask}]
      /\ left \in [Tasks -> 0..TotalBudget]
      /\ queue \in Seq(Tasks)
      /\ RequestOK(t)
      /\ \A u \in Tasks : row[u] \in Row /\ RowOK(row[u]) /\ row[u].token \in Nat
  BY PipelineAssumption, RowFields DEF Inv, TypeOK, LocksOK, RowsOK, RequestsOK
<1>1. NextToken(t) \in 0..2 /\ NextToken(t) \in Nat /\ tok[t] \in Nat
  BY <1>0 DEF NextToken
<1>2. LockOK(AcquireLock(t, NextToken(t), Lease))
  BY <1>0, <1>1, LockOperations
<1>3. CASE Acquire(t)
  <2>1. LocksKept
    BY <1>0, <1>2, <1>3, LocksUpdate DEF Acquire
  <2>2. RowsStep
    BY <1>3, RowsUpdate DEF Acquire
  <2>3. RequestOK(t)'
    BY <1>0, <1>3, RequestMoves DEF Acquire, RequestOK, Unborn, Born, ApiStates, ApiFinal
  <2>9. QED
    BY <1>0, <1>1, <1>3, <2>1, <2>2, <2>3, RequestMoves, RequestFrame DEF Acquire, ApiStates, ApiFinal
<1>4. CASE AcquireRefused(t)
  <2>1. LocksKept
    BY <1>0, <1>2, <1>4, LocksUpdate DEF AcquireRefused
  <2>2. RowsStep
    BY <1>4, RowsUpdate DEF AcquireRefused
  <2>3. RequestOK(t)'
    BY <1>0, <1>4, RequestMoves DEF AcquireRefused, RequestOK, Unborn, Born, ApiStates, ApiFinal
  <2>9. QED
    BY <1>0, <1>1, <1>4, <2>1, <2>2, <2>3, RequestMoves, RequestFrame DEF AcquireRefused, ApiStates, ApiFinal
<1>5. CASE AcquireError(t)
  <2>1. LocksKept
    BY <1>0, <1>2, <1>5, LocksUpdate DEF AcquireError
  <2>2. RowsStep
    BY <1>5, RowsUpdate DEF AcquireError
  <2>3. RequestOK(t)'
    BY <1>0, <1>5, RequestMoves DEF AcquireError, RequestOK, Unborn, Born, ApiStates, ApiFinal
  <2>9. QED
    BY <1>0, <1>1, <1>5, <2>1, <2>2, <2>3, RequestMoves, RequestFrame DEF AcquireError, ApiStates, ApiFinal
<1>6. CASE RecoverProbe(t)
  <2>1. LocksKept
    BY <1>6, LocksUpdate DEF RecoverProbe
  <2>2. RowsStep
    BY <1>6, RowsUpdate DEF RecoverProbe
  <2>3. RequestOK(t)'
    <3>1. IsEnvelope(lock[h]) => lock[h].owner \in Tasks
      BY <1>0 DEF IsEnvelope, Free, LockOK, Lock
    <3>2. QED
      BY <1>0, <1>6, <3>1, RequestMoves DEF RecoverProbe, RequestOK, Unborn, Born, ApiStates, ApiFinal
  <2>4. seen' \in [Tasks -> Tasks \cup {NoTask}] /\ \A u \in Tasks \ {t} : seen'[u] = seen[u]
    BY <1>0, <1>6 DEF RecoverProbe, IsEnvelope, Free, LockOK, Lock
  <2>9. QED
    BY <1>0, <1>1, <1>6, <2>1, <2>2, <2>3, <2>4, RequestMoves, RequestFrame DEF RecoverProbe, ApiStates, ApiFinal
<1>7. CASE RecoverReconcile(t)
  <2>1. LocksKept
    BY <1>7, LocksUpdate DEF RecoverReconcile
  <2>2. RowsStep
    <3>1. seen[t] \in Tasks
      BY <1>0, <1>7 DEF RecoverReconcile, RequestOK
    <3>2. row[seen[t]].exists => RowStep(row[seen[t]], Reconcile(row[seen[t]], left[seen[t]]))
      BY <1>0, <3>1, TransactionsStep
    <3>3. QED
      BY <1>7, <3>1, <3>2, RowsUpdate DEF RecoverReconcile, RowStep
  <2>3. RequestOK(t)'
    BY <1>0, <1>7, <2>2, RequestMoves DEF RecoverReconcile, RequestOK, RowsStep, RowStep, Unborn, Born, ApiStates, ApiFinal
  <2>9. QED
    BY <1>0, <1>1, <1>7, <2>1, <2>2, <2>3, RequestMoves, RequestFrame DEF RecoverReconcile, ApiStates, ApiFinal
<1>8. CASE RecoverUnlock(t)
  <2>1. LocksKept
    <3>1. seen[t] \in Tasks
      BY <1>0, <1>8 DEF RecoverUnlock, RequestOK
    <3>2. LockOK(ReleaseTerminalLock(lock[h], seen[t], row[seen[t]].token))
      BY <1>0, <3>1, LockOperations
    <3>3. QED
      BY <1>0, <1>8, <3>2, LocksUpdate DEF RecoverUnlock
  <2>2. RowsStep
    BY <1>8, RowsUpdate DEF RecoverUnlock
  <2>3. RequestOK(t)'
    BY <1>0, <1>8, RequestMoves DEF RecoverUnlock, RequestOK, Unborn, Born, ApiStates, ApiFinal
  <2>9. QED
    BY <1>0, <1>1, <1>8, <2>1, <2>2, <2>3, RequestMoves, RequestFrame DEF RecoverUnlock, ApiStates, ApiFinal
<1>9. CASE Snapshot(t)
  <2>1. LocksKept
    BY <1>9, LocksUpdate DEF Snapshot
  <2>2. RowsStep
    BY <1>9, RowsUpdate DEF Snapshot
  <2>3. RequestOK(t)'
    BY <1>0, <1>9, RequestMoves DEF Snapshot, RequestOK, Unborn, Born, ApiStates, ApiFinal
  <2>9. QED
    BY <1>0, <1>1, <1>9, <2>1, <2>2, <2>3, RequestMoves, RequestFrame DEF Snapshot, ApiStates, ApiFinal
<1>10. CASE Deadline(t)
  <2>1. LocksKept
    BY <1>10, LocksUpdate DEF Deadline
  <2>2. RowsStep
    BY <1>10, RowsUpdate DEF Deadline
  <2>3. RequestOK(t)'
    BY <1>0, <1>10, RequestMoves DEF Deadline, RequestOK, Unborn, Born, ApiStates, ApiFinal
  <2>4. left' \in [Tasks -> 0..TotalBudget]
    BY <1>0, <1>10, BudgetAssumption DEF Deadline, BuildDeadline, TotalBudget
  <2>9. QED
    BY <1>0, <1>1, <1>10, <2>1, <2>2, <2>3, <2>4, RequestMoves, RequestFrame DEF Deadline, ApiStates, ApiFinal
<1>11. CASE Renew(t)
  <2>1. LocksKept
    <3>1. LockOK(RenewLock(lock[h], t, tok[t], Lease))
      BY <1>0, <1>1, LockOperations
    <3>2. QED
      BY <1>0, <1>11, <3>1, LocksUpdate DEF Renew
  <2>2. RowsStep
    BY <1>11, RowsUpdate DEF Renew
  <2>3. RequestOK(t)'
    BY <1>0, <1>11, RequestMoves DEF Renew, RequestOK, Unborn, Born, ApiStates, ApiFinal
  <2>9. QED
    BY <1>0, <1>1, <1>11, <2>1, <2>2, <2>3, RequestMoves, RequestFrame DEF Renew, ApiStates, ApiFinal
<1>12. CASE Create(t)
  <2> DEFINE c == CreateAttempt(tok[t])
  <2>1. /\ c \in Row /\ RowOK(c) /\ c.exists /\ ~Decided(c)
        /\ ~row[t].exists /\ ~Decided(row[t])
    BY <1>0, <1>1, <1>12, CreatedRow DEF Create, RequestOK, Unborn, RowOK
  <2>2. /\ row' \in [Tasks -> Row]
        /\ \A u \in Tasks \ {t} : row'[u] = row[u]
        /\ row'[t] \in {row[t], c}
        /\ apc'[t] = "enqueue" => row'[t] = c
    <3>1. \/ row' = [row EXCEPT ![t] = c] /\ ApiGoto(t, "enqueue")
          \/ row' \in {row, [row EXCEPT ![t] = c]} /\ ApiGoto(t, "release")
      BY <1>12 DEF Create, MaybeRow
    <3>2. row \in [Tasks -> Row] /\ apc \in [Tasks -> ApiStates]
      BY DEF Inv, TypeOK
    <3>3. QED
      BY <2>1, <3>1, <3>2 DEF ApiGoto
  <2>3. /\ apc' \in [Tasks -> ApiStates] /\ apc'[t] \in {"enqueue", "release"}
        /\ \A u \in Tasks \ {t} : apc'[u] = apc[u]
    BY <1>12, RequestMoves DEF Create, ApiStates
  <2>4. TypeOK'
    BY <1>12, <2>2, <2>3 DEF Create, Inv, TypeOK, recoveryVars
  <2>5. RowsOK' /\ LocksOK'
    BY <1>0, <1>12, <2>1, <2>2 DEF Create, Inv, RowsOK, LocksOK
  <2>6. RequestsOK'
    BY <1>12, <2>1, <2>2, <2>3 DEF Create, Inv, RequestsOK, RequestOK, Unborn, Born
  <2>7. WorkersOK'
    BY <1>12, <2>1, <2>2 DEF Create, Inv, WorkersOK, WorkerOK, Task, Decided
  <2>8. AssistantBound'
    BY <1>12, <2>1, <2>2, NoTaskAssumption
       DEF Create, Inv, AssistantBound, Decided, Completed
  <2>9. PublishedAgrees'
    <3>1. Outcome(row[t]) = Outcome(row'[t])
      BY <2>1, <2>2 DEF Decided, Outcome
    <3>2. QED
      BY <1>12, <2>2, <3>1 DEF Create, Inv, PublishedAgrees
  <2>10. QED
    BY <2>4, <2>5, <2>6, <2>7, <2>8, <2>9 DEF Inv
<1>13. CASE Enqueue(t)
  <2>1. LocksKept
    BY <1>13, LocksUpdate DEF Enqueue
  <2>2. RowsStep
    BY <1>13, RowsUpdate DEF Enqueue
  <2>3. RequestOK(t)'
    BY <1>0, <1>13, RequestMoves DEF Enqueue, RequestOK, Unborn, Born, ApiStates, ApiFinal
  <2>4. queue' \in Seq(Tasks)
    <3>1. \A k \in 0..MaxCopies : Copies(t, k) \in Seq(Tasks)
      BY PipelineAssumption DEF Copies
    <3>2. \E k \in 0..MaxCopies : queue' = queue \o Copies(t, k)
      BY <1>13, PipelineAssumption DEF Enqueue
    <3>3. \A q \in Seq(Tasks) : queue \o q \in Seq(Tasks)
      BY <1>0
    <3>4. QED
      BY <3>1, <3>2, <3>3
  <2>9. QED
    BY <1>0, <1>1, <1>13, <2>1, <2>2, <2>3, <2>4, RequestMoves, RequestFrame DEF Enqueue, ApiStates, ApiFinal
<1>14. CASE Mark(t)
  <2>1. LocksKept
    BY <1>14, LocksUpdate DEF Mark
  <2>2. RowsStep
    <3>1. RowStep(row[t], MarkAccepted(row[t]))
      BY <1>0, <1>14, TransactionsStep DEF Mark, RequestOK, Born
    <3>2. QED
      BY <1>14, <3>1, RowsUpdate DEF Mark, RowStep
  <2>3. RequestOK(t)'
    BY <1>0, <1>14, <2>2, RequestMoves DEF Mark, RequestOK, RowsStep, RowStep, Unborn, Born, ApiStates, ApiFinal
  <2>9. QED
    BY <1>0, <1>1, <1>14, <2>1, <2>2, <2>3, RequestMoves, RequestFrame DEF Mark, ApiStates, ApiFinal
<1>15. CASE Release(t)
  <2>1. LocksKept
    <3>1. LockOK(ReleaseLock(lock[h], t, tok[t]))
      BY <1>0, <1>1, LockOperations
    <3>2. QED
      BY <1>0, <1>15, <3>1, LocksUpdate DEF Release
  <2>2. RowsStep
    BY <1>15, RowsUpdate DEF Release
  <2>3. RequestOK(t)'
    BY <1>0, <1>15, RequestMoves DEF Release, RequestOK, Unborn, Born, ApiStates, ApiFinal
  <2>9. QED
    BY <1>0, <1>1, <1>15, <2>1, <2>2, <2>3, RequestMoves, RequestFrame DEF Release, ApiStates, ApiFinal
<1>16. CASE Delete(t)
  <2>1. LocksKept
    BY <1>0, <1>16, LockOperations, LocksUpdate DEF Delete
  <2>2. RowsStep
    BY <1>16, RowsUpdate DEF Delete
  <2>3. RequestOK(t)'
    BY <1>0, <1>16, RequestMoves DEF Delete, RequestOK, Unborn, Born, ApiStates, ApiFinal
  <2>9. QED
    BY <1>0, <1>1, <1>16, <2>1, <2>2, <2>3, RequestMoves, RequestFrame DEF Delete, ApiStates, ApiFinal
<1>17. CASE ApiCrash(t)
  <2>1. LocksKept
    BY <1>17, LocksUpdate DEF ApiCrash
  <2>2. RowsStep
    BY <1>17, RowsUpdate DEF ApiCrash
  <2>3. RequestOK(t)'
    BY <1>0, <1>17, RequestMoves DEF ApiCrash, RequestOK, Unborn, Born, ApiStates, ApiFinal
  <2>9. QED
    BY <1>0, <1>1, <1>17, <2>1, <2>2, <2>3, RequestMoves, RequestFrame DEF ApiCrash, ApiStates, ApiFinal
<1>18. QED
  BY <1>3, <1>4, <1>5, <1>6, <1>7, <1>8, <1>9, <1>10, <1>11, <1>12, <1>13, <1>14, <1>15, <1>16, <1>17 DEF ApiNext

-----------------------------------------------------------------------------
(* The steps of a worker                                                    *)

\* The outcome of a decided row is an event.
LEMMA OutcomeEvent ==
    ASSUME NEW r \in Row, Decided(r)
    PROVE Outcome(r) \in Events
BY RowFields DEF Decided, Outcome, Events

\* Every step of a worker keeps the invariant.
LEMMA WorkerStep ==
    ASSUME Inv, NEW w \in Workers, WorkerNext(w)
    PROVE Inv'
<1> DEFINE t == Task(w)
           r == row[t]
<1> USE DEF apiVars, dbVars, redisVars
<1>0. /\ wk \in [Workers -> WorkerRecord]
      /\ inserted \in [Tasks -> Nat]
      /\ published \in [Tasks -> SUBSET Events]
      /\ stamped \in SUBSET Tasks
      /\ queue \in Seq(Tasks)
      /\ cancelled \in SUBSET Tasks
      /\ AssistantBound
      /\ PublishedAgrees
      /\ WorkerOK(w)
  BY DEF Inv, TypeOK, WorkersOK
<1>1. ASSUME wk[w].pc # "idle"
      PROVE /\ t \in Tasks /\ r \in Row /\ RowOK(r) /\ r.token \in Nat
            /\ ThreadOf[t] \in Threads /\ LockOK(lock[ThreadOf[t]])
  BY <1>0, <1>1, RowFields, PipelineAssumption
     DEF WorkerOK, Task, Inv, TypeOK, RowsOK, LocksOK
<1>2. UNCHANGED row => RowsStep
  BY RowsUpdate
<1>3. UNCHANGED lock => LocksKept
  BY LocksUpdate
<1>4. CASE Dequeue(w)
  <2>1. /\ Head(queue) \in Tasks
        /\ queue' \in Seq(Tasks)
    BY <1>0, <1>4 DEF Dequeue
  <2> DEFINE d == [IdleWorker EXCEPT !.task = Head(queue), !.pc = "read"]
  <2>2. d \in WorkerRecord /\ d.task \in Tasks /\ d.pc = "read"
    BY <2>1 DEF IdleWorker, WorkerRecord, WorkerStates, Events
  <2>3. wk' = [wk EXCEPT ![w] = d]
    BY <1>4 DEF Dequeue
  <2>4. Moved(w) /\ WorkerOK(w)'
    BY <1>0, <2>2, <2>3 DEF Moved, WorkerOK, Task
  <2>9. QED
    BY <1>0, <1>2, <1>3, <1>4, <2>1, <2>4, RowsStepKeeps, WorkerFrame DEF Dequeue
<1>5. CASE ReadAttempt(w)
  <2>1. \/ Return(w)
        \/ WorkerGoto(w, "start")
        \/ wk' = [wk EXCEPT ![w].pc = "observe", ![w].ctx = "late"]
    BY <1>5 DEF ReadAttempt
  <2>2. Moved(w) /\ WorkerOK(w)'
    <3>1. CASE wk' = [wk EXCEPT ![w].pc = "observe", ![w].ctx = "late"]
      <4> DEFINE d == [wk[w] EXCEPT !.pc = "observe", !.ctx = "late"]
      <4>1. d \in WorkerRecord /\ d.task = t /\ d.pc = "observe"
        BY <1>0 DEF Task, WorkerRecord, WorkerStates, Events
      <4>2. wk' = [wk EXCEPT ![w] = d]
        BY <1>0, <3>1
      <4>3. Moved(w) /\ wk'[w].task = t /\ wk'[w].pc = "observe"
        BY <1>0, <4>1, <4>2 DEF Moved
      <4>4. QED
        BY <1>1, <1>5, <4>3 DEF ReadAttempt, WorkerOK, Task
    <3>2. CASE Return(w) \/ WorkerGoto(w, "start")
      BY <1>1, <1>5, <3>2, WorkerMoves DEF ReadAttempt, WorkerOK, Task, WorkerStates
    <3>3. QED
      BY <2>1, <3>1, <3>2
  <2>9. QED
    BY <1>0, <1>2, <1>3, <1>5, <2>2, RowsStepKeeps, WorkerFrame DEF ReadAttempt
<1>6. CASE LinkDuplicate(w)
  <2>1. t \in Tasks /\ r \in Row /\ RowOK(r)
    BY <1>1, <1>6 DEF LinkDuplicate
  <2>2. PICK m \in Tasks :
          \/ /\ row' = [row EXCEPT ![t] = LinkSuccess(r, m)]
             /\ IF LinkResult(r, m) THEN PublishNext(w, "completed", "observe") ELSE Finish(w)
          \/ MaybeRow(t, LinkSuccess(r, m)) /\ Finish(w)
    BY <1>0, <1>6 DEF LinkDuplicate
  <2>3. RowStep(r, LinkSuccess(r, m)) /\ LinkSuccess(r, m) \in Row
    BY <2>1, TransactionsStep DEF RowStep
  <2>4. RowsStep
    BY <2>1, <2>2, <2>3, RowsUpdate
  <2>5. LinkResult(r, m) => Completed(LinkSuccess(r, m))
    BY <2>1, NoTaskAssumption DEF LinkSuccess, Completed, Row
  <2>6. Moved(w) /\ WorkerOK(w)'
    <3>1. CASE Finish(w)
      BY <2>1, <3>1, WorkerMoves DEF WorkerOK, Task
    <3>2. CASE /\ row' = [row EXCEPT ![t] = LinkSuccess(r, m)]
               /\ LinkResult(r, m)
               /\ PublishNext(w, "completed", "observe")
      <4>1. /\ Moved(w) /\ wk'[w].task = t
            /\ wk'[w].pc = "publish" /\ wk'[w].ev = "completed"
        BY <3>2, WorkerMoves DEF Task, Events
      <4>2. row'[t] = LinkSuccess(r, m)
        BY <2>1, <3>2 DEF Inv, TypeOK
      <4>3. QED
        BY <2>1, <2>5, <3>2, <4>1, <4>2 DEF WorkerOK, Task, Decided, Outcome
    <3>3. QED
      BY <2>2, <3>1, <3>2
  <2>9. QED
    BY <1>0, <1>2, <1>3, <1>6, <2>4, <2>6, RowsStepKeeps, WorkerFrame DEF LinkDuplicate
<1>7. CASE NoDuplicate(w)
  <2>1. /\ t \in Tasks
        /\ \/ wk' = [wk EXCEPT ![w].pc = "check", ![w].terminal = InReserve(w)]
           \/ WorkerGoto(w, "provider")
           \/ FailNext(w)
    BY <1>1, <1>7 DEF NoDuplicate
  <2>2. InReserve(w) \in BOOLEAN
    BY <1>0 DEF InReserve, WorkOpen, WorkerRecord
  <2>3. Moved(w) /\ WorkerOK(w)'
    <3>1. CASE wk' = [wk EXCEPT ![w].pc = "check", ![w].terminal = InReserve(w)]
      <4> DEFINE d == [wk[w] EXCEPT !.pc = "check", !.terminal = InReserve(w)]
      <4>1. d \in WorkerRecord /\ d.task = t /\ d.pc = "check"
        BY <1>0, <2>2 DEF Task, WorkerRecord, WorkerStates, Events
      <4>2. wk' = [wk EXCEPT ![w] = d]
        BY <1>0, <3>1
      <4>3. Moved(w) /\ wk'[w].task = t /\ wk'[w].pc = "check"
        BY <1>0, <4>1, <4>2 DEF Moved
      <4>4. QED
        BY <2>1, <4>3 DEF WorkerOK, Task
    <3>2. CASE WorkerGoto(w, "provider") \/ FailNext(w)
      BY <2>1, <3>2, WorkerMoves DEF FailNext, WorkerOK, Task, WorkerStates, TerminalEvents
    <3>3. QED
      BY <2>1, <3>1, <3>2
  <2>9. QED
    BY <1>0, <1>2, <1>3, <1>7, <2>3, RowsStepKeeps, WorkerFrame DEF NoDuplicate
<1>8. CASE CheckCancelled(w)
  <2>1. Moved(w) /\ WorkerOK(w)'
    BY <1>1, <1>8, WorkerMoves
       DEF CheckCancelled, FailNext, WorkerOK, Task, WorkerStates, TerminalEvents
  <2>9. QED
    BY <1>0, <1>2, <1>3, <1>8, <2>1, RowsStepKeeps, WorkerFrame DEF CheckCancelled
<1>9. CASE Generate(w)
  <2>1. /\ t \in Tasks
        /\ \/ wk' = [wk EXCEPT ![w].pc = "persist", ![w].terminal = TRUE]
           \/ RecordNext(w, "cancelled", "handler")
           \/ FailNext(w)
    BY <1>1, <1>9 DEF Generate
  <2>2. Moved(w) /\ WorkerOK(w)'
    <3>1. CASE wk' = [wk EXCEPT ![w].pc = "persist", ![w].terminal = TRUE]
      <4> DEFINE d == [wk[w] EXCEPT !.pc = "persist", !.terminal = TRUE]
      <4>1. d \in WorkerRecord /\ d.task = t /\ d.pc = "persist"
        BY <1>0 DEF Task, WorkerRecord, WorkerStates, Events
      <4>2. wk' = [wk EXCEPT ![w] = d]
        BY <1>0, <3>1
      <4>3. Moved(w) /\ wk'[w].task = t /\ wk'[w].pc = "persist"
        BY <1>0, <4>1, <4>2 DEF Moved
      <4>4. QED
        BY <2>1, <4>3 DEF WorkerOK, Task
    <3>2. CASE RecordNext(w, "cancelled", "handler") \/ FailNext(w)
      BY <2>1, <3>2, WorkerMoves DEF FailNext, WorkerOK, Task, TerminalEvents
    <3>3. QED
      BY <2>1, <3>1, <3>2
  <2>9. QED
    BY <1>0, <1>2, <1>3, <1>9, <2>2, RowsStepKeeps, WorkerFrame DEF Generate
<1>10. CASE Persist(w)
  <2>1. t \in Tasks /\ r \in Row /\ RowOK(r)
    BY <1>1, <1>10 DEF Persist
  <2>2. RowStep(r, PersistAssistant(r, t)) /\ PersistAssistant(r, t) \in Row
    BY <2>1, TransactionsStep DEF RowStep
  <2>3. RowsStep
    BY <1>2, <1>10, <2>1, <2>2, RowsUpdate DEF Persist, PersistEffect
  <2>4. inserted' \in [Tasks -> Nat] /\ AssistantBound'
    <3>1. CASE UNCHANGED inserted
      BY <1>0, <2>3, <3>1, RowsStepKeeps
    <3>2. CASE PersistEffect(t) /\ ~PersistInserts(r)
      BY <1>0, <2>3, <3>2, RowsStepKeeps DEF PersistEffect
    <3>3. CASE PersistEffect(t) /\ PersistInserts(r)
      <4>1. inserted[t] = 0
        BY <1>0, <2>1, <3>3, NoTaskAssumption
           DEF AssistantBound, PersistInserts, Decided, Completed
      <4>2. /\ row'[t].completed = t
            /\ \A u \in Tasks \ {t} : row'[u] = row[u]
        BY <2>1, <3>3 DEF PersistEffect, PersistAssistant, Inv, TypeOK, Row
      <4>3. /\ inserted' \in [Tasks -> Nat]
            /\ inserted'[t] = 1
            /\ \A u \in Tasks \ {t} : inserted'[u] = inserted[u]
        BY <1>0, <2>1, <3>3, <4>1 DEF PersistEffect
      <4>4. QED
        BY <1>0, <4>2, <4>3 DEF AssistantBound
    <3>4. QED
      BY <1>10, <3>1, <3>2, <3>3 DEF Persist
  <2>5. Moved(w) /\ WorkerOK(w)'
    <3>1. CASE FailNext(w)
      BY <2>1, <3>1, WorkerMoves DEF FailNext, WorkerOK, Task, TerminalEvents
    <3>2. CASE PersistEffect(t) /\ PersistResult(r) /\ WorkerGoto(w, "post")
      <4>1. Completed(row'[t])
        BY <2>1, <3>2, NoTaskAssumption
           DEF PersistEffect, PersistResult, PersistAssistant, Completed, Inv, TypeOK, Row
      <4>2. Moved(w) /\ wk'[w].task = t /\ wk'[w].pc = "post"
        BY <3>2, WorkerMoves DEF Task, WorkerStates
      <4>3. QED
        BY <2>1, <4>1, <4>2 DEF WorkerOK, Task
    <3>3. QED
      BY <1>10, <3>1, <3>2 DEF Persist
  <2>9. QED
    BY <1>0, <1>2, <1>3, <1>10, <2>3, <2>4, <2>5, RowsStepKeeps, WorkerFrame DEF Persist
<1>11. CASE AfterPersist(w)
  <2>1. t \in Tasks /\ r \in Row /\ Completed(r)
    BY <1>0, <1>1, <1>11 DEF AfterPersist, WorkerOK
  <2>2. stamped' \in SUBSET Tasks
    BY <1>0, <1>11, <2>1, RowFields DEF AfterPersist, Completed
  <2>3. Moved(w) /\ WorkerOK(w)'
    <3>1. CASE FailNext(w)
      BY <2>1, <3>1, WorkerMoves DEF FailNext, WorkerOK, Task, TerminalEvents
    <3>2. CASE PublishNext(w, "completed", "observe")
      <4>1. /\ Moved(w) /\ wk'[w].task = t
            /\ wk'[w].pc = "publish" /\ wk'[w].ev = "completed"
        BY <3>2, WorkerMoves DEF Task, Events
      <4>2. QED
        BY <1>11, <2>1, <4>1 DEF AfterPersist, WorkerOK, Task, Decided, Outcome
    <3>3. QED
      BY <1>11, <3>1, <3>2 DEF AfterPersist
  <2>9. QED
    BY <1>0, <1>2, <1>3, <1>11, <2>2, <2>3, RowsStepKeeps, WorkerFrame DEF AfterPersist
<1>12. CASE RecordOutcome(w)
  <2> DEFINE e == wk[w].ev
  <2>1. t \in Tasks /\ r \in Row /\ RowOK(r) /\ e \in TerminalEvents
    BY <1>0, <1>1, <1>12 DEF RecordOutcome, WorkerOK
  <2>2. RowStep(r, RecordTerminal(r, e)) /\ RecordTerminal(r, e) \in Row
    BY <2>1, TransactionsStep DEF RowStep
  <2>3. RowsStep
    BY <1>12, <2>1, <2>2, RowsUpdate DEF RecordOutcome
  <2>4. Moved(w) /\ WorkerOK(w)'
    <3>1. CASE WorkerGoto(w, "project")
      BY <2>1, <3>1, WorkerMoves DEF WorkerOK, Task, WorkerStates
    <3>2. CASE /\ row' = [row EXCEPT ![t] = RecordTerminal(r, e)]
               /\ TerminalResult(r, e)
               /\ PublishNext(w, e, IF e = "cancelled" THEN "clear" ELSE "observe")
      <4>1. Moved(w) /\ wk'[w].task = t /\ wk'[w].pc = "publish" /\ wk'[w].ev = e
        BY <2>1, <3>2, WorkerMoves DEF Task, Events, TerminalEvents
      <4>2. row'[t] = RecordTerminal(r, e)
        BY <2>1, <3>2 DEF Inv, TypeOK
      <4>3. Decided(RecordTerminal(r, e)) /\ Outcome(RecordTerminal(r, e)) = e
        BY <2>1, <3>2
           DEF TerminalResult, RecordTerminal, Decided, Outcome, Completed, TerminalEvents, Row
      <4>4. QED
        BY <2>1, <4>1, <4>2, <4>3 DEF WorkerOK, Task
    <3>3. QED
      BY <1>12, <3>1, <3>2 DEF RecordOutcome
  <2>9. QED
    BY <1>0, <1>2, <1>3, <1>12, <2>3, <2>4, RowsStepKeeps, WorkerFrame DEF RecordOutcome
<1>13. CASE Project(w)
  <2>1. t \in Tasks /\ r \in Row
    BY <1>1, <1>13 DEF Project
  <2>2. Moved(w) /\ WorkerOK(w)'
    <3>1. CASE Finish(w)
      BY <2>1, <3>1, WorkerMoves DEF WorkerOK, Task
    <3>2. CASE /\ Decided(r)
               /\ \E s \in {"clear", "observe"} : PublishNext(w, Outcome(r), s)
      <4>1. Moved(w) /\ wk'[w].task = t /\ wk'[w].pc = "publish" /\ wk'[w].ev = Outcome(r)
        BY <2>1, <3>2, OutcomeEvent, WorkerMoves DEF Task
      <4>2. QED
        BY <1>13, <2>1, <3>2, <4>1 DEF Project, WorkerOK, Task
    <3>3. QED
      BY <1>13, <3>1, <3>2 DEF Project
  <2>9. QED
    BY <1>0, <1>2, <1>3, <1>13, <2>2, RowsStepKeeps, WorkerFrame DEF Project
<1>14. CASE PublishTerminal(w)
  <2>1. t \in Tasks /\ wk[w].ev = Outcome(r) /\ Outcome(r) \in Events
    BY <1>0, <1>1, <1>14, OutcomeEvent DEF PublishTerminal, WorkerOK
  <2>2. published' \in [Tasks -> SUBSET Events] /\ PublishedAgrees'
    <3>1. CASE UNCHANGED published
      BY <1>0, <1>2, <1>14, <3>1, RowsStepKeeps DEF PublishTerminal
    <3>2. CASE Emit(t, wk[w].ev)
      BY <1>0, <1>14, <2>1, <3>2 DEF PublishTerminal, Emit, PublishedAgrees
    <3>3. QED
      BY <1>14, <3>1, <3>2 DEF PublishTerminal
  <2>3. Moved(w) /\ WorkerOK(w)'
    BY <1>14, <2>1, WorkerMoves DEF PublishTerminal, WorkerOK, Task, WorkerStates
  <2>9. QED
    BY <1>0, <1>2, <1>3, <1>14, <2>2, <2>3, RowsStepKeeps, WorkerFrame DEF PublishTerminal
<1>15. CASE ClearCancelled(w)
  <2>1. t \in Tasks
    BY <1>1, <1>15 DEF ClearCancelled
  <2>2. cancelled' \in SUBSET Tasks
    BY <1>0, <1>15 DEF ClearCancelled
  <2>3. Moved(w) /\ WorkerOK(w)'
    BY <1>15, <2>1, WorkerMoves DEF ClearCancelled, FailNext, WorkerOK, Task, TerminalEvents
  <2>9. QED
    BY <1>0, <1>2, <1>3, <1>15, <2>2, <2>3, RowsStepKeeps, WorkerFrame DEF ClearCancelled
<1>16. CASE ObserveTerminal(w)
  <2>1. t \in Tasks /\ r \in Row
    BY <1>1, <1>16 DEF ObserveTerminal
  <2>2. Moved(w) /\ WorkerOK(w)'
    <3>1. CASE Return(w)
      BY <3>1, WorkerMoves DEF WorkerOK
    <3>2. CASE Decided(r) /\ wk' = [wk EXCEPT ![w].pc = "cleanup", ![w].ev = Outcome(r)]
      <4>1. Moved(w) /\ wk'[w].task = t /\ wk'[w].pc = "cleanup" /\ wk'[w].ev = Outcome(r)
        BY <1>0, <2>1, <3>2, OutcomeEvent, ZenonT(30) DEF Moved, Task, WorkerRecord, WorkerStates
      <4>2. QED
        BY <1>16, <2>1, <3>2, <4>1 DEF ObserveTerminal, WorkerOK, Task
    <3>3. QED
      BY <1>16, <3>1, <3>2 DEF ObserveTerminal
  <2>9. QED
    BY <1>0, <1>2, <1>3, <1>16, <2>2, RowsStepKeeps, WorkerFrame DEF ObserveTerminal
<1>17. CASE CleanupLock(w)
  <2>1. /\ t \in Tasks
        /\ LockOK(ReleaseTerminalLock(lock[ThreadOf[t]], t, r.token))
        /\ Decided(r) /\ wk[w].ev = Outcome(r)
    BY <1>0, <1>1, <1>17, LockOperations DEF CleanupLock, WorkerOK
  <2>2. LocksKept
    BY <1>1, <1>17, <2>1, LocksUpdate DEF CleanupLock
  <2>3. Moved(w) /\ WorkerOK(w)'
    BY <1>17, <2>1, WorkerMoves DEF CleanupLock, WorkerOK, Task, WorkerStates
  <2>9. QED
    BY <1>0, <1>2, <1>3, <1>17, <2>2, <2>3, RowsStepKeeps, WorkerFrame DEF CleanupLock
<1>18. CASE ShowObserved(w)
  <2>1. t \in Tasks /\ wk[w].ev = Outcome(r) /\ Outcome(r) \in Events
    BY <1>0, <1>1, <1>18, OutcomeEvent DEF ShowObserved, WorkerOK
  <2>2. published' \in [Tasks -> SUBSET Events] /\ PublishedAgrees'
    <3>1. CASE UNCHANGED published
      BY <1>0, <1>2, <1>18, <3>1, RowsStepKeeps DEF ShowObserved
    <3>2. CASE Emit(t, wk[w].ev)
      BY <1>0, <1>18, <2>1, <3>2 DEF ShowObserved, Emit, PublishedAgrees
    <3>3. QED
      BY <1>18, <3>1, <3>2 DEF ShowObserved
  <2>3. Moved(w) /\ WorkerOK(w)'
    BY <1>18, WorkerMoves DEF ShowObserved, WorkerOK
  <2>9. QED
    BY <1>0, <1>2, <1>3, <1>18, <2>2, <2>3, RowsStepKeeps, WorkerFrame DEF ShowObserved
<1>19. CASE WorkerCrash(w)
  <2>1. Moved(w) /\ WorkerOK(w)'
    BY <1>19, WorkerMoves DEF WorkerCrash, WorkerOK
  <2>9. QED
    BY <1>0, <1>2, <1>3, <1>19, <2>1, RowsStepKeeps, WorkerFrame DEF WorkerCrash
<1>20. QED
  BY <1>4, <1>5, <1>6, <1>7, <1>8, <1>9, <1>10, <1>11, <1>12, <1>13, <1>14, <1>15, <1>16, <1>17, <1>18, <1>19 DEF WorkerNext

-----------------------------------------------------------------------------
(* The other steps                                                          *)

\* Neither the canceller, nor the receipts, nor the probes, nor time breaks
\* the invariant.
LEMMA OtherFrame ==
    ASSUME Inv, RowsStep, LocksKept, UNCHANGED <<apc, tok, seen, inserted, stamped, queue, published, wk>>,
           left' \in [Tasks -> 0..TotalBudget], cancelled' \in SUBSET Tasks,
           sweep' \in SUBSET Tasks, probe' \in [Threads -> {"idle", "held", "delete"}]
    PROVE Inv'
<1>1. TypeOK'
  BY DEF Inv, TypeOK, RowsStep, LocksKept
<1>2. RequestsOK' /\ WorkersOK'
  BY RowsStepKeeps DEF RequestsOK, WorkersOK
<1>3. RowsOK' /\ LocksOK' /\ AssistantBound' /\ PublishedAgrees'
  BY RowsStepKeeps DEF LocksKept
<1>4. QED
  BY <1>1, <1>2, <1>3 DEF Inv

\* Every step keeps the invariant.
LEMMA NextStep == Inv /\ [Next]_vars => Inv'
<1> SUFFICES ASSUME Inv, [Next]_vars PROVE Inv'
  OBVIOUS
<1> USE DEF apiVars, dbVars, redisVars, recoveryVars
<1>0. /\ left \in [Tasks -> 0..TotalBudget]
      /\ cancelled \in SUBSET Tasks
      /\ sweep \in SUBSET Tasks
      /\ probe \in [Threads -> {"idle", "held", "delete"}]
      /\ lock \in [Threads -> Lock]
      /\ \A h \in Threads : LockOK(lock[h])
      /\ \A t \in Tasks : /\ row[t] \in Row /\ RowOK(row[t]) /\ row[t].token \in Nat
                          /\ ThreadOf[t] \in Threads
  BY PipelineAssumption, RowFields DEF Inv, TypeOK, LocksOK, RowsOK
<1>1. UNCHANGED row => RowsStep
  BY RowsUpdate
<1>2. UNCHANGED lock => LocksKept
  BY LocksUpdate
<1>3. ASSUME NEW t \in Tasks, ApiNext(t) PROVE Inv'
  BY <1>3, RequestStep
<1>4. ASSUME NEW w \in Workers, WorkerNext(w) PROVE Inv'
  BY <1>4, WorkerStep
<1>5. ASSUME NEW t \in Tasks, CancelTask(t) PROVE Inv'
  BY <1>0, <1>1, <1>2, <1>5, OtherFrame DEF CancelTask
<1>6. ASSUME NEW t \in Tasks, ReceiptReconcile(t) PROVE Inv'
  <2>1. RowStep(row[t], Reconcile(row[t], left[t])) /\ Reconcile(row[t], left[t]) \in Row
    BY <1>0, <1>6, TransactionsStep DEF ReceiptReconcile, ReceiptEligible, RowStep
  <2>2. RowsStep
    BY <1>6, <2>1, RowsUpdate DEF ReceiptReconcile
  <2>3. sweep' \in SUBSET Tasks
    BY <1>0, <1>6 DEF ReceiptReconcile
  <2>4. QED
    BY <1>0, <1>2, <1>6, <2>2, <2>3, OtherFrame DEF ReceiptReconcile
<1>7. ASSUME NEW t \in Tasks, ReceiptCleanup(t) PROVE Inv'
  <2>1. LockOK(ReleaseTerminalLock(lock[ThreadOf[t]], t, row[t].token))
    BY <1>0, LockOperations
  <2>2. LocksKept
    BY <1>0, <1>7, <2>1, LocksUpdate DEF ReceiptCleanup
  <2>3. QED
    BY <1>0, <1>1, <1>7, <2>2, OtherFrame DEF ReceiptCleanup
<1>8. ASSUME NEW h \in Threads, ProbeAcquire(h) PROVE Inv'
  <2>1. LockOK(AcquireLock(Probe, 0, ProbeTTL))
    BY <1>0, LockOperations
  <2>2. LocksKept
    BY <1>8, <2>1, LocksUpdate DEF ProbeAcquire
  <2>3. probe' \in [Threads -> {"idle", "held", "delete"}]
    BY <1>0, <1>8 DEF ProbeAcquire
  <2>4. QED
    BY <1>0, <1>1, <1>8, <2>2, <2>3, OtherFrame DEF ProbeAcquire
<1>9. ASSUME NEW h \in Threads, ProbeRelease(h) PROVE Inv'
  <2>1. LockOK(ReleaseLock(lock[h], Probe, 0))
    BY <1>0, LockOperations
  <2>2. LocksKept
    BY <1>9, <2>1, LocksUpdate DEF ProbeRelease
  <2>3. probe' \in [Threads -> {"idle", "held", "delete"}]
    BY <1>0, <1>9 DEF ProbeRelease, ProbeGoto
  <2>4. QED
    BY <1>0, <1>1, <1>9, <2>2, <2>3, OtherFrame DEF ProbeRelease
<1>10. ASSUME NEW h \in Threads, ProbeDelete(h) PROVE Inv'
  <2>1. LocksKept
    BY <1>0, <1>10, LockOperations, LocksUpdate DEF ProbeDelete
  <2>2. probe' \in [Threads -> {"idle", "held", "delete"}]
    BY <1>0, <1>10 DEF ProbeDelete, ProbeGoto
  <2>3. QED
    BY <1>0, <1>1, <1>10, <2>1, <2>2, OtherFrame DEF ProbeDelete
<1>11. CASE Tick
  <2>1. left' \in [Tasks -> 0..TotalBudget]
    BY <1>0, <1>11, BudgetAssumption DEF Tick, Elapse, TotalBudget
  <2>2. \A h \in Threads : LockOK(Age(lock[h]))
    BY <1>0, LockOperations
  <2>3. LocksKept
    BY <1>11, <2>2 DEF Tick, LocksKept, LocksOK, LockOK
  <2>4. QED
    BY <1>0, <1>1, <1>11, <2>1, <2>3, OtherFrame DEF Tick
<1>12. CASE UNCHANGED vars
  BY <1>0, <1>1, <1>2, <1>12, OtherFrame DEF vars
<1>13. QED
  BY <1>3, <1>4, <1>5, <1>6, <1>7, <1>8, <1>9, <1>10, <1>11, <1>12 DEF Next, Quiescent

\* Initially there is no row, no message, no event and no busy worker.
LEMMA InitInv == Init => Inv
<1> SUFFICES ASSUME Init PROVE Inv
  OBVIOUS
<1>1. /\ AbsentRow \in Row
      /\ RowOK(AbsentRow)
      /\ ~AbsentRow.exists
  BY NoTaskAssumption DEF AbsentRow, Row, RowOK, TerminalEvents, Completed, Decided
<1>2. LockOK(NoLock)
  BY ProbeAssumption DEF LockOK, NoLock, Lock
<1>3. IdleWorker \in WorkerRecord /\ IdleWorker.pc = "idle"
  BY DEF IdleWorker, WorkerRecord, WorkerStates, Events
<1>4. TypeOK
  BY <1>1, <1>2, <1>3, BudgetAssumption
     DEF Init, TypeOK, LockOK, ApiStates, ApiFinal, TotalBudget
<1>5. RowsOK /\ LocksOK
  BY <1>1, <1>2 DEF Init, RowsOK, LocksOK
<1>6. RequestsOK
  BY <1>1 DEF Init, RequestsOK, RequestOK, Born
<1>7. WorkersOK
  BY <1>3 DEF Init, WorkersOK, WorkerOK
<1>8. AssistantBound /\ PublishedAgrees
  BY DEF Init, AssistantBound, PublishedAgrees
<1>9. QED
  BY <1>4, <1>5, <1>6, <1>7, <1>8 DEF Inv

-----------------------------------------------------------------------------
(* Theorems                                                                 *)

\* The inductive invariant holds in every reachable state.
THEOREM Invariance == Spec => []Inv
BY InitInv, NextStep, PTL DEF Spec

\* Every variable keeps its type, whatever is lost, repeated or crashes.
THEOREM TypeCorrect == Spec => []TypeOK
<1>1. Inv => TypeOK
  BY DEF Inv
<1>2. QED
  BY <1>1, Invariance, PTL

\* An attempt never has both an assistant message and a terminal event, and
\* only a failure carries the controller's orphan mark.
THEOREM OutcomesExclusive == Spec => []OutcomeExclusive
<1>1. Inv => OutcomeExclusive
  BY DEF Inv, RowsOK, RowOK, OutcomeExclusive
<1>2. QED
  BY <1>1, Invariance, PTL

\* At most one assistant message is inserted for an attempt, however often its
\* task is delivered, and it is the message the attempt is completed with.
THEOREM OneMessagePerAttempt == Spec => []AssistantBound
<1>1. Inv => AssistantBound
  BY DEF Inv
<1>2. QED
  BY <1>1, Invariance, PTL

\* The terminal events of a task's stream agree with its attempt row.
THEOREM StreamAgreesWithRow == Spec => []PublishedAgrees
<1>1. Inv => PublishedAgrees
  BY DEF Inv
<1>2. QED
  BY <1>1, Invariance, PTL
-----------------------------------------------------------------------------
(***************************************************************************)
(* The pipeline implements AttemptOutcome: the initial states map to its    *)
(* initial state, and every step opens, decides or shows one attempt, or    *)
(* is a stutter.                                                            *)
(***************************************************************************)

\* The abstract outcome of one row, as the refinement mapping computes it.
Mapped(r) == IF ~r.exists THEN "absent"
             ELSE IF Decided(r) THEN Outcome(r)
             ELSE "pending"

\* The ways a step may touch the rows and the streams: it commits one
\* transaction on one row, commits a new row, or shows the outcome of a
\* decided row.
Transacts == \E t \in Tasks : \E s \in Row : /\ RowStep(row[t], s)
                                             /\ row' \in {row, [row EXCEPT ![t] = s]}
                                             /\ UNCHANGED published
Opens == \E t \in Tasks : \E s \in Row : /\ ~row[t].exists
                                         /\ s.exists /\ ~Decided(s)
                                         /\ row' \in {row, [row EXCEPT ![t] = s]}
                                         /\ UNCHANGED published
Shows == \E t \in Tasks : /\ Decided(row[t])
                          /\ Emit(t, Outcome(row[t]))
                          /\ UNCHANGED row

\* Every step is one of these or leaves rows and streams alone.
LEMMA StepShape ==
    ASSUME Inv, [Next]_vars
    PROVE Transacts \/ Opens \/ Shows \/ UNCHANGED <<row, published>>
<1> USE DEF apiVars, dbVars, redisVars, recoveryVars
<1>0. /\ \A t \in Tasks : row[t] \in Row /\ RowOK(row[t]) /\ RequestOK(t) /\ tok[t] \in Nat
      /\ \A w \in Workers : WorkerOK(w)
      /\ stamped \in SUBSET Tasks
  <2>1. tok \in [Tasks -> 0..2]
    BY DEF Inv, TypeOK
  <2>2. \A t \in Tasks : tok[t] \in Nat
    BY <2>1
  <2>3. QED
    BY <2>2 DEF Inv, TypeOK, RowsOK, RequestsOK, WorkersOK
<1>1. ASSUME NEW t \in Tasks, RecoverReconcile(t) PROVE Transacts \/ UNCHANGED <<row, published>>
  <2>1. seen[t] \in Tasks
    BY <1>0, <1>1 DEF RecoverReconcile, RequestOK
  <2> DEFINE o == seen[t]
  <2>2. CASE row[o].exists
    <3>1. RowStep(row[o], Reconcile(row[o], left[o]))
      BY <1>0, <2>1, <2>2, TransactionsStep
    <3>2. QED
      BY <1>1, <2>1, <2>2, <3>1 DEF RecoverReconcile, MaybeRow, Transacts, RowStep
  <2>3. CASE ~row[o].exists
    BY <1>1, <2>3 DEF RecoverReconcile
  <2>4. QED
    BY <2>2, <2>3
<1>2. ASSUME NEW t \in Tasks, Create(t) PROVE Opens
  <2>1. ~row[t].exists
    BY <1>0, <1>2 DEF Create, RequestOK, Unborn
  <2>2. QED
    BY <1>0, <1>2, <2>1, CreatedRow DEF Create, MaybeRow, Opens
<1>3. ASSUME NEW t \in Tasks, Mark(t) PROVE Transacts
  <2>1. RowStep(row[t], MarkAccepted(row[t]))
    BY <1>0, <1>3, TransactionsStep DEF Mark, RequestOK, Born
  <2>2. QED
    BY <1>3, <2>1 DEF Mark, MaybeRow, Transacts, RowStep
<1>4. ASSUME NEW t \in Tasks, ReceiptReconcile(t) PROVE Transacts
  <2>1. RowStep(row[t], Reconcile(row[t], left[t]))
    BY <1>0, <1>4, TransactionsStep DEF ReceiptReconcile, ReceiptEligible
  <2>2. QED
    BY <1>4, <2>1 DEF ReceiptReconcile, Transacts, RowStep
<1>5. ASSUME NEW w \in Workers, LinkDuplicate(w) PROVE Transacts
  <2>1. Task(w) \in Tasks
    BY <1>0, <1>5 DEF LinkDuplicate, WorkerOK
  <2>2. PICK m \in Tasks : row' \in {row, [row EXCEPT ![Task(w)] = LinkSuccess(row[Task(w)], m)]}
    BY <1>0, <1>5 DEF LinkDuplicate, MaybeRow
  <2>3. RowStep(row[Task(w)], LinkSuccess(row[Task(w)], m))
    BY <1>0, <2>1, TransactionsStep
  <2>4. QED
    BY <1>5, <2>1, <2>2, <2>3 DEF LinkDuplicate, Transacts, RowStep
<1>6. ASSUME NEW w \in Workers, Persist(w) PROVE Transacts
  <2>1. Task(w) \in Tasks
    BY <1>0, <1>6 DEF Persist, WorkerOK
  <2>2. RowStep(row[Task(w)], PersistAssistant(row[Task(w)], Task(w)))
    BY <1>0, <2>1, TransactionsStep
  <2>3. QED
    BY <1>6, <2>1, <2>2 DEF Persist, PersistEffect, Transacts, RowStep
<1>7. ASSUME NEW w \in Workers, RecordOutcome(w) PROVE Transacts
  <2>1. Task(w) \in Tasks /\ wk[w].ev \in TerminalEvents
    BY <1>0, <1>7 DEF RecordOutcome, WorkerOK
  <2>2. RowStep(row[Task(w)], RecordTerminal(row[Task(w)], wk[w].ev))
    BY <1>0, <2>1, TransactionsStep
  <2>3. QED
    BY <1>7, <2>1, <2>2 DEF RecordOutcome, MaybeRow, Transacts, RowStep
<1>8. ASSUME NEW w \in Workers, PublishTerminal(w) \/ ShowObserved(w)
      PROVE Shows \/ UNCHANGED <<row, published>>
  <2>1. /\ Task(w) \in Tasks
        /\ Decided(row[Task(w)])
        /\ wk[w].ev = Outcome(row[Task(w)])
    BY <1>0, <1>8 DEF PublishTerminal, ShowObserved, WorkerOK
  <2>2. QED
    BY <1>8, <2>1 DEF PublishTerminal, ShowObserved, Shows
<1>9. ASSUME NEW t \in Tasks, ApiNext(t)
      PROVE RecoverReconcile(t) \/ Create(t) \/ Mark(t) \/ UNCHANGED <<row, published>>
  BY <1>9 DEF ApiNext, Acquire, AcquireRefused, AcquireError, RecoverProbe, RecoverUnlock,
              Snapshot, Deadline, Renew, Enqueue, Release, Delete, ApiCrash
<1>10. ASSUME NEW w \in Workers, WorkerNext(w)
       PROVE \/ LinkDuplicate(w) \/ Persist(w) \/ RecordOutcome(w)
             \/ PublishTerminal(w) \/ ShowObserved(w)
             \/ UNCHANGED <<row, published>>
  BY <1>10 DEF WorkerNext, Dequeue, ReadAttempt, NoDuplicate, CheckCancelled, Generate,
               AfterPersist, Project, ClearCancelled, ObserveTerminal, CleanupLock, WorkerCrash
<1>11. CASE \/ \E t \in Tasks : CancelTask(t) \/ ReceiptCleanup(t)
            \/ \E h \in Threads : ProbeAcquire(h) \/ ProbeRelease(h) \/ ProbeDelete(h)
            \/ Tick
            \/ UNCHANGED vars
  BY <1>11 DEF CancelTask, ReceiptCleanup, ProbeAcquire, ProbeRelease, ProbeDelete, Tick, vars
<1>12. QED
  BY <1>1, <1>2, <1>3, <1>4, <1>5, <1>6, <1>7, <1>8, <1>9, <1>10, <1>11 DEF Next, Quiescent

\* Each of these ways is a step of AttemptOutcome or a stutter.
LEMMA StepSimulation ==
    ASSUME Inv, [Next]_vars
    PROVE [Abstract!Next]_(Abstract!vars)
<1> DEFINE outcome == [t \in Tasks |-> Mapped(row[t])]
<1>0. /\ row \in [Tasks -> Row]
      /\ published \in [Tasks -> SUBSET Events]
      /\ \A t \in Tasks : row[t] \in Row /\ RowOK(row[t])
  BY DEF Inv, TypeOK, RowsOK
<1>1. ASSUME NEW t \in Tasks, NEW s \in Row, row' = [row EXCEPT ![t] = s]
      PROVE outcome' = [outcome EXCEPT ![t] = Mapped(s)]
  BY <1>0, <1>1
<1>2. CASE UNCHANGED <<row, published>>
  BY <1>2 DEF Abstract!vars
<1>3. CASE Transacts
  <2>1. PICK t \in Tasks, s \in Row : /\ RowStep(row[t], s)
                                      /\ row' \in {row, [row EXCEPT ![t] = s]}
                                      /\ UNCHANGED published
    BY <1>3 DEF Transacts
  <2>2. CASE row' = row
    BY <1>2, <2>1, <2>2
  <2>3. CASE row' = [row EXCEPT ![t] = s] /\ Mapped(s) = Mapped(row[t])
    <3>1. outcome' = outcome
      BY <1>1, <2>3
    <3>2. QED
      BY <2>1, <3>1 DEF Abstract!vars, Mapped
  <2>4. CASE row' = [row EXCEPT ![t] = s] /\ Mapped(s) # Mapped(row[t])
    <3>1. Mapped(row[t]) = "pending" /\ Mapped(s) \in {"completed", "failed", "cancelled"}
      BY <1>0, <2>1, <2>4, RowFields DEF RowStep, Mapped, Decided, Outcome, Completed
    <3>2. outcome' = [outcome EXCEPT ![t] = Mapped(s)] /\ outcome[t] = "pending"
      BY <1>1, <2>4, <3>1
    <3>3. QED
      BY <2>1, <3>1, <3>2 DEF Abstract!Next, Abstract!Decide, Abstract!Final, Mapped
  <2>5. QED
    BY <2>1, <2>2, <2>3, <2>4
<1>4. CASE Opens
  <2>1. PICK t \in Tasks, s \in Row : /\ ~row[t].exists
                                      /\ s.exists /\ ~Decided(s)
                                      /\ row' \in {row, [row EXCEPT ![t] = s]}
                                      /\ UNCHANGED published
    BY <1>4 DEF Opens
  <2>2. CASE row' = row
    BY <1>2, <2>1, <2>2
  <2>3. CASE row' = [row EXCEPT ![t] = s]
    <3>1. outcome' = [outcome EXCEPT ![t] = "pending"] /\ outcome[t] = "absent"
      BY <1>1, <2>1, <2>3 DEF Mapped
    <3>2. QED
      BY <2>1, <3>1 DEF Abstract!Next, Abstract!Open, Mapped
  <2>4. QED
    BY <2>1, <2>2, <2>3
<1>5. CASE Shows
  <2>1. PICK t \in Tasks : Decided(row[t]) /\ Emit(t, Outcome(row[t])) /\ UNCHANGED row
    BY <1>5 DEF Shows
  <2>2. outcome[t] = Outcome(row[t]) /\ outcome[t] \in {"completed", "failed", "cancelled"}
    BY <1>0, <2>1, OutcomeEvent DEF Mapped, RowOK, Events
  <2>3. published' = [published EXCEPT ![t] = @ \cup {outcome[t]}] /\ outcome' = outcome
    BY <1>0, <2>1, <2>2 DEF Emit
  <2>4. QED
    BY <2>2, <2>3 DEF Abstract!Next, Abstract!Show, Abstract!Final, Mapped
<1>6. QED
  BY <1>2, <1>3, <1>4, <1>5, StepShape

\* The pipeline implements its abstract specification: an attempt is opened
\* once, decided once, and a client is only ever shown that decision.
THEOREM Refinement == Spec => ImplementsOutcome
<1>1. Init => Abstract!Init
  BY DEF Init, Abstract!Init, AbsentRow
<1>2. Inv /\ [Next]_vars => [Abstract!Next]_(Abstract!vars)
  BY StepSimulation
<1>3. QED
  BY <1>1, <1>2, Invariance, PTL DEF Spec, ImplementsOutcome, Abstract!Spec
=============================================================================
