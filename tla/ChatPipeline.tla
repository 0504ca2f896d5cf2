---------------------------- MODULE ChatPipeline ----------------------------
(***************************************************************************)
(* The accepted chat-completion pipeline of Codexify: the API process that  *)
(* accepts a completion (enqueue_chat_completion), the Redis turn lock,      *)
(* queue, cancel set and event streams, the PostgreSQL attempt row and       *)
(* assistant messages, the chat workers (_run_chat_task), the receipt page   *)
(* that fences orphans, the user-message lock probe, and the clock.          *)
(*                                                                         *)
(* One action is one remote operation with the local code up to the next    *)
(* one.  A remote write can be applied and acknowledged, refused, or applied *)
(* with its acknowledgement lost: run_with_redis_timeout raises after the    *)
(* command has run, _with_reconnect repeats it, and a PostgreSQL timeout      *)
(* "cannot prove whether a remote commit executed".                          *)
(***************************************************************************)
EXTENDS ChatAttempt, TurnLock, Sequences

CONSTANTS
    Threads,            \* chat threads
    ThreadOf,           \* the thread a task completes
    TurnOf,             \* the turn_id a task answers
    Workers,            \* executor slots of the chat workers
    CrashingWorkers,    \* the slots whose process may die
    MaxCopies,          \* bound: LPUSH commands one enqueue may apply (2)
    Cancellable,        \* tasks somebody may cancel
    ProbedThreads,      \* threads that also receive user messages
    ProbeTTL,           \* _DEFAULT_TTL_SECONDS, the probe's ttl
    ReleaseFallback     \* may the release script raise, taking GET then DEL?

ASSUME PipelineAssumption == /\ ThreadOf \in [Tasks -> Threads]
                             /\ ProbedThreads \subseteq Threads
                             /\ ProbeTTL \in Nat \ {0}
                             /\ ReleaseFallback \in BOOLEAN
                             /\ MaxCopies \in Nat \ {0}
                             /\ Cancellable \subseteq Tasks
                             /\ CrashingWorkers \subseteq Workers

VARIABLES
    apc,                \* apc[t]: where the accepting request of t is
    tok,                \* tok[t]: lease token of the lock it acquired
    seen,               \* seen[t]: owner of the lock its recovery observed
    left,               \* left[t]: time to terminal_deadline_at
    lock,               \* lock[h]: the turn_lock key of thread h
    row,                \* row[t]: the durable attempt
    inserted,           \* inserted[t]: assistant messages inserted for t
    stamped,            \* tasks whose message carries its turn_id
    queue,              \* codexify:queue:chat, head is popped first
    cancelled,          \* the Redis cancel set
    published,          \* published[t]: terminal events of t's stream
    wk,                 \* wk[w]: the task slot w runs and where it is
    sweep,              \* tasks whose lock a receipt page has yet to clean
    probe               \* probe[h]: the user-message probe on thread h

vars == <<apc, tok, seen, left, lock, row, inserted, stamped, queue, cancelled,
          published, wk, sweep, probe>>

apiVars == <<tok, seen, left>>
dbVars == <<row, inserted, stamped>>
redisVars == <<queue, cancelled, published>>
recoveryVars == <<sweep, probe>>

ApiFinal == {"accepted", "rejected", "crashed"}
ApiStates == {"idle", "recover", "reconcile", "unlock", "reacquire", "snapshot",
              "deadline", "renew", "create", "enqueue", "mark", "release",
              "delete"} \cup ApiFinal

WorkerStates == {"idle", "read", "start", "check", "recheck", "provider", "persist",
                 "post", "record", "project", "publish", "clear", "observe",
                 "cleanup", "show"}
Events == {"completed", "failed", "cancelled"}

\* pc and event in hand; then: what follows the publication; ctx: the try
\* body, an except block, or a task found terminal before it ran; terminal:
\* whether its operations use the terminal reserve.
WorkerRecord == [task : Tasks \cup {NoTask}, pc : WorkerStates,
                 ev : Events \cup {"none"}, then : {"clear", "observe"},
                 ctx : {"body", "handler", "late"}, terminal : BOOLEAN]

IdleWorker == [task |-> NoTask, pc |-> "idle", ev |-> "none", then |-> "observe",
               ctx |-> "body", terminal |-> FALSE]

Init == /\ apc = [t \in Tasks |-> "idle"]
        /\ tok = [t \in Tasks |-> 0]
        /\ seen = [t \in Tasks |-> NoTask]
        /\ left = [t \in Tasks |-> 0]
        /\ lock = [h \in Threads |-> NoLock]
        /\ row = [t \in Tasks |-> AbsentRow]
        /\ inserted = [t \in Tasks |-> 0]
        /\ stamped = {}
        /\ queue = <<>>
        /\ cancelled = {}
        /\ published = [t \in Tasks |-> {}]
        /\ wk = [w \in Workers |-> IdleWorker]
        /\ sweep = {}
        /\ probe = [h \in Threads |-> "idle"]

-----------------------------------------------------------------------------
(* Acceptance: enqueue_chat_completion                                      *)

ApiGoto(t, s) == apc' = [apc EXCEPT ![t] = s]

SetLock(h, l) == lock' = [lock EXCEPT ![h] = l]

\* An update whose acknowledgement was lost was applied or was not.
MaybeRow(t, r) == row' \in {row, [row EXCEPT ![t] = r]}
MaybeLock(h, l) == lock' \in {lock, [lock EXCEPT ![h] = l]}

\* Each call of acquire_turn_lock mints a lease token.
NextToken(t) == IF apc[t] = "idle" THEN 1 ELSE 2

Acquire(t) ==
    LET h == ThreadOf[t] IN
    /\ apc[t] \in {"idle", "reacquire"}
    /\ Free(lock[h])
    /\ SetLock(h, AcquireLock(t, NextToken(t), Lease))
    /\ tok' = [tok EXCEPT ![t] = NextToken(t)]
    /\ ApiGoto(t, "snapshot")
    /\ UNCHANGED <<seen, left, dbVars, redisVars, wk, recoveryVars>>

\* The key is taken.  A request may be refused by its own lock: SET NX was
\* applied, its reply lost, and the repeated SET NX finds the key.
AcquireRefused(t) ==
    LET h == ThreadOf[t] IN
    /\ apc[t] \in {"idle", "reacquire"}
    /\ \/ ~Free(lock[h]) /\ UNCHANGED lock
       \/ Free(lock[h]) /\ SetLock(h, AcquireLock(t, NextToken(t), Lease))
    /\ ApiGoto(t, IF apc[t] = "idle" THEN "recover" ELSE "rejected")
    /\ UNCHANGED <<apiVars, dbVars, redisVars, wk, recoveryVars>>

\* turn_lock_unavailable: nothing is released, even if the key was set.
AcquireError(t) ==
    LET h == ThreadOf[t] IN
    /\ apc[t] \in {"idle", "reacquire"}
    /\ \/ UNCHANGED lock
       \/ Free(lock[h]) /\ SetLock(h, AcquireLock(t, NextToken(t), Lease))
    /\ ApiGoto(t, "rejected")
    /\ UNCHANGED <<apiVars, dbVars, redisVars, wk, recoveryVars>>

\* _recover_orphaned_turn_lock: read the key, then fence its owner's attempt,
\* then remove the lock that attempt preserved.
RecoverProbe(t) ==
    LET l == lock[ThreadOf[t]] IN
    /\ apc[t] = "recover"
    /\ \/ /\ IsEnvelope(l)
          /\ seen' = [seen EXCEPT ![t] = l.owner]
          /\ ApiGoto(t, "reconcile")
       \/ /\ ApiGoto(t, "rejected")
          /\ UNCHANGED seen
    /\ UNCHANGED <<tok, left, lock, dbVars, redisVars, wk, recoveryVars>>

RecoverReconcile(t) ==
    LET o == seen[t]
        r == Reconcile(row[o], left[o]) IN
    /\ apc[t] = "reconcile"
    /\ \/ /\ row[o].exists
          /\ row' = [row EXCEPT ![o] = r]
          /\ ApiGoto(t, IF Decided(r) THEN "unlock" ELSE "rejected")
       \/ /\ IF row[o].exists THEN MaybeRow(o, r) ELSE UNCHANGED row
          /\ ApiGoto(t, "rejected")
    /\ UNCHANGED <<apiVars, lock, inserted, stamped, redisVars, wk, recoveryVars>>

RecoverUnlock(t) ==
    LET h == ThreadOf[t]
        o == seen[t]
        freed == ReleaseTerminalLock(lock[h], o, row[o].token) IN
    /\ apc[t] = "unlock"
    /\ \/ /\ SetLock(h, freed)
          /\ ApiGoto(t, IF TerminalReleaseResult(lock[h], o, row[o].token)
                          THEN "reacquire" ELSE "rejected")
       \/ /\ MaybeLock(h, freed)
          /\ ApiGoto(t, "rejected")
    /\ UNCHANGED <<apiVars, dbVars, redisVars, wk, recoveryVars>>

\* The persona selection snapshot; any read failure blocks acceptance.
Snapshot(t) ==
    /\ apc[t] = "snapshot"
    /\ \E s \in {"deadline", "release"} : ApiGoto(t, s)
    /\ UNCHANGED <<apiVars, lock, dbVars, redisVars, wk, recoveryVars>>

Deadline(t) ==
    /\ apc[t] = "deadline"
    /\ left' = [left EXCEPT ![t] = BuildDeadline]
    /\ ApiGoto(t, "renew")
    /\ UNCHANGED <<tok, seen, lock, dbVars, redisVars, wk, recoveryVars>>

Renew(t) ==
    LET h == ThreadOf[t]
        renewed == RenewLock(lock[h], t, tok[t], Lease) IN
    /\ apc[t] = "renew"
    /\ \/ /\ HeldBy(lock[h], t, tok[t])
          /\ SetLock(h, renewed)
          /\ ApiGoto(t, "create")
       \/ /\ MaybeLock(h, renewed)
          /\ ApiGoto(t, "release")
    /\ UNCHANGED <<apiVars, dbVars, redisVars, wk, recoveryVars>>

Create(t) ==
    LET r == CreateAttempt(tok[t]) IN
    /\ apc[t] = "create"
    /\ \/ /\ row' = [row EXCEPT ![t] = r]
          /\ ApiGoto(t, "enqueue")
       \/ /\ MaybeRow(t, r)
          /\ ApiGoto(t, "release")
    /\ UNCHANGED <<apiVars, lock, inserted, stamped, redisVars, wk, recoveryVars>>

\* LPUSH, which the reconnect loop may repeat: up to two copies enter the
\* queue, whether or not the call is reported as a success.
Copies(t, n) == [i \in 1..n |-> t]

Enqueue(t) ==
    /\ apc[t] = "enqueue"
    /\ \/ \E n \in 1..MaxCopies : queue' = queue \o Copies(t, n) /\ ApiGoto(t, "mark")
       \/ \E n \in 0..MaxCopies : queue' = queue \o Copies(t, n) /\ ApiGoto(t, "release")
    /\ UNCHANGED <<apiVars, lock, dbVars, cancelled, published, wk, recoveryVars>>

\* accepted_at is best effort, and so is task.created after it.
Mark(t) ==
    /\ apc[t] = "mark"
    /\ MaybeRow(t, MarkAccepted(row[t]))
    /\ ApiGoto(t, "accepted")
    /\ UNCHANGED <<apiVars, lock, inserted, stamped, redisVars, wk, recoveryVars>>

\* _best_effort_release_turn_lock: the script, or nothing, or the GET of the
\* fallback, whose DEL is a later command.
Release(t) ==
    LET h == ThreadOf[t] IN
    /\ apc[t] = "release"
    /\ \/ MaybeLock(h, ReleaseLock(lock[h], t, tok[t])) /\ ApiGoto(t, "rejected")
       \/ /\ ReleaseFallback
          /\ MatchesExpected(lock[h], t, tok[t])
          /\ ApiGoto(t, "delete")
          /\ UNCHANGED lock
    /\ UNCHANGED <<apiVars, dbVars, redisVars, wk, recoveryVars>>

Delete(t) ==
    /\ apc[t] = "delete"
    /\ MaybeLock(ThreadOf[t], NoLock)
    /\ ApiGoto(t, "rejected")
    /\ UNCHANGED <<apiVars, dbVars, redisVars, wk, recoveryVars>>

\* The API process dies in the middle of a request.
ApiCrash(t) ==
    /\ apc[t] \notin ApiFinal \cup {"idle"}
    /\ ApiGoto(t, "crashed")
    /\ UNCHANGED <<apiVars, lock, dbVars, redisVars, wk, recoveryVars>>

ApiNext(t) == \/ Acquire(t) \/ AcquireRefused(t) \/ AcquireError(t)
              \/ RecoverProbe(t) \/ RecoverReconcile(t) \/ RecoverUnlock(t)
              \/ Snapshot(t) \/ Deadline(t) \/ Renew(t) \/ Create(t)
              \/ Enqueue(t) \/ Mark(t) \/ Release(t) \/ Delete(t) \/ ApiCrash(t)

-----------------------------------------------------------------------------
(* Execution: run_forever and _run_chat_task                                *)

Task(w) == wk[w].task

WorkerGoto(w, s) == wk' = [wk EXCEPT ![w].pc = s]
Return(w) == wk' = [wk EXCEPT ![w] = IdleWorker]

\* Enter the finally block, whose observation has a budget of its own.
Finish(w) == wk' = [wk EXCEPT ![w] = [IdleWorker EXCEPT !.task = Task(w),
                                                        !.pc = "observe"]]

\* Record terminal event e in context c.  Past the terminal deadline the
\* write, the reread and the event are all refused, and the task ends silent.
RecordNext(w, e, c) ==
    IF TerminalOpen(left[Task(w)])
      THEN wk' = [wk EXCEPT ![w].pc = "record", ![w].ev = e, ![w].ctx = c,
                            ![w].terminal = TRUE]
      ELSE Finish(w)
FailNext(w) == RecordNext(w, "failed", "handler")

PublishNext(w, e, s) == wk' = [wk EXCEPT ![w].pc = "publish", ![w].ev = e,
                                         ![w].then = s, ![w].terminal = TRUE]

\* BRPOP removes the task; a worker that dies afterwards loses it.
Dequeue(w) ==
    /\ wk[w].pc = "idle"
    /\ queue # <<>>
    /\ queue' = Tail(queue)
    /\ wk' = [wk EXCEPT ![w] = [IdleWorker EXCEPT !.task = Head(queue), !.pc = "read"]]
    /\ UNCHANGED <<apc, apiVars, lock, dbVars, cancelled, published, recoveryVars>>

\* An attempt that cannot be read ends the run with no outcome and with its
\* lock in place; a terminal one is only cleaned up and projected.
ReadAttempt(w) ==
    LET r == row[Task(w)] IN
    /\ wk[w].pc = "read"
    /\ \/ Return(w)
       \/ /\ r.exists
          /\ IF Decided(r)
               THEN wk' = [wk EXCEPT ![w].pc = "observe", ![w].ctx = "late"]
               ELSE WorkerGoto(w, "start")
    /\ UNCHANGED <<apc, apiVars, lock, dbVars, redisVars, recoveryVars>>

\* accepted_postgres_query_scope and accepted_redis_scope: a task that starts
\* after its work deadline starts on the terminal reserve.
InReserve(w) == IF wk[w].pc = "start" THEN ~WorkOpen(left[Task(w)]) ELSE wk[w].terminal
Budget(w) == BudgetOpen(InReserve(w), left[Task(w)])

SameTurn(t, m) == ThreadOf[m] = ThreadOf[t] /\ TurnOf[m] = TurnOf[t]

\* An assistant message of the same turn exists: bind the attempt to it, and
\* say completed only if the binding is acknowledged.
LinkDuplicate(w) ==
    LET t == Task(w) IN
    /\ wk[w].pc \in {"start", "recheck"}
    /\ Budget(w)
    /\ \E m \in stamped :
         /\ SameTurn(t, m)
         /\ \/ /\ row' = [row EXCEPT ![t] = LinkSuccess(row[t], m)]
               /\ IF LinkResult(row[t], m) THEN PublishNext(w, "completed", "observe")
                                           ELSE Finish(w)
            \/ MaybeRow(t, LinkSuccess(row[t], m)) /\ Finish(w)
    /\ UNCHANGED <<apc, apiVars, lock, inserted, stamped, redisVars, recoveryVars>>

\* No message of the turn is found, or the lookup failed, which is the same.
NoDuplicate(w) ==
    /\ \/ /\ wk[w].pc = "start"
          /\ wk' = [wk EXCEPT ![w].pc = "check", ![w].terminal = InReserve(w)]
       \/ /\ wk[w].pc = "recheck"
          /\ IF WorkOpen(left[Task(w)]) THEN WorkerGoto(w, "provider") ELSE FailNext(w)
    /\ UNCHANGED <<apc, apiVars, lock, dbVars, redisVars, recoveryVars>>

CheckCancelled(w) ==
    /\ wk[w].pc = "check"
    /\ \/ Budget(w) /\ Task(w) \in cancelled /\ RecordNext(w, "cancelled", "body")
       \/ Budget(w) /\ Task(w) \notin cancelled /\ WorkerGoto(w, "recheck")
       \/ FailNext(w)
    /\ UNCHANGED <<apc, apiVars, lock, dbVars, redisVars, recoveryVars>>

\* The provider call, its rescue and its tool loop, up to the last cancel
\* check, which still runs on the work budget.
Generate(w) ==
    /\ wk[w].pc = "provider"
    /\ \/ /\ Budget(w)
          /\ Task(w) \notin cancelled
          /\ wk' = [wk EXCEPT ![w].pc = "persist", ![w].terminal = TRUE]
       \/ Budget(w) /\ Task(w) \in cancelled /\ RecordNext(w, "cancelled", "handler")
       \/ FailNext(w)
    /\ UNCHANGED <<apc, apiVars, lock, dbVars, redisVars, recoveryVars>>

\* One transaction inserts the message and binds it.  It was admitted before
\* the terminal deadline and may commit after it.
PersistEffect(t) ==
    /\ row' = [row EXCEPT ![t] = PersistAssistant(row[t], t)]
    /\ inserted' = [inserted EXCEPT ![t] = IF PersistInserts(row[t]) THEN @ + 1 ELSE @]

Persist(w) ==
    LET t == Task(w) IN
    /\ wk[w].pc = "persist"
    /\ \/ /\ PersistEffect(t)
          /\ IF PersistResult(row[t]) THEN WorkerGoto(w, "post") ELSE FailNext(w)
       \/ PersistEffect(t) /\ FailNext(w)
       \/ UNCHANGED <<row, inserted>> /\ FailNext(w)
    /\ UNCHANGED <<apc, apiVars, lock, stamped, redisVars, recoveryVars>>

\* The turn id is written on the message afterwards, best effort; any other
\* step after the binding may still raise.
AfterPersist(w) ==
    /\ wk[w].pc = "post"
    /\ stamped' \in {stamped, stamped \cup {row[Task(w)].completed}}
    /\ PublishNext(w, "completed", "observe") \/ FailNext(w)
    /\ UNCHANGED <<apc, apiVars, lock, row, inserted, redisVars, recoveryVars>>

\* _record_chat_completion_attempt_terminal: False and an error look alike.
RecordOutcome(w) ==
    LET t == Task(w)
        e == wk[w].ev IN
    /\ wk[w].pc = "record"
    /\ \/ /\ row' = [row EXCEPT ![t] = RecordTerminal(row[t], e)]
          /\ IF TerminalResult(row[t], e)
               THEN PublishNext(w, e, IF e = "cancelled" THEN "clear" ELSE "observe")
               ELSE WorkerGoto(w, "project")
       \/ MaybeRow(t, RecordTerminal(row[t], e)) /\ WorkerGoto(w, "project")
    /\ UNCHANGED <<apc, apiVars, lock, inserted, stamped, redisVars, recoveryVars>>

\* _publish_durable_terminal_if_present: the event that could not be recorded
\* is replaced by the outcome the row has, and by silence if it has none.
Project(w) ==
    LET r == row[Task(w)] IN
    /\ wk[w].pc = "project"
    /\ \/ /\ Budget(w)
          /\ Decided(r)
          /\ PublishNext(w, Outcome(r),
                         IF wk[w].ev = "cancelled" /\ wk[w].ctx = "handler"
                           THEN "clear" ELSE "observe")
       \/ Finish(w)
    /\ UNCHANGED <<apc, apiVars, lock, dbVars, redisVars, recoveryVars>>

\* XADD never raises in the worker; it is applied or lost.
Emit(t, e) == published' = [published EXCEPT ![t] = @ \cup {e}]

PublishTerminal(w) ==
    /\ wk[w].pc = "publish"
    /\ \/ Budget(w) /\ Emit(Task(w), wk[w].ev)
       \/ UNCHANGED published
    /\ IF wk[w].then = "clear" THEN WorkerGoto(w, "clear") ELSE Finish(w)
    /\ UNCHANGED <<apc, apiVars, lock, dbVars, queue, cancelled, recoveryVars>>

\* clear_cancelled; in the try body its failure is one more task failure.
ClearCancelled(w) ==
    /\ wk[w].pc = "clear"
    /\ \/ cancelled' = cancelled \ {Task(w)} /\ Finish(w)
       \/ /\ cancelled' \in {cancelled, cancelled \ {Task(w)}}
          /\ IF wk[w].ctx = "body" THEN FailNext(w) ELSE Finish(w)
    /\ UNCHANGED <<apc, apiVars, lock, dbVars, queue, published, recoveryVars>>

\* _observe_and_cleanup_terminal_attempt: only a terminal row gives up its
\* lock token.
ObserveTerminal(w) ==
    LET r == row[Task(w)] IN
    /\ wk[w].pc = "observe"
    /\ \/ Decided(r) /\ wk' = [wk EXCEPT ![w].pc = "cleanup", ![w].ev = Outcome(r)]
       \/ Return(w)
    /\ UNCHANGED <<apc, apiVars, lock, dbVars, redisVars, recoveryVars>>

\* An orphan outcome is projected here, and any outcome found before the run.
CleanupLock(w) ==
    LET t == Task(w)
        h == ThreadOf[t] IN
    /\ wk[w].pc = "cleanup"
    /\ MaybeLock(h, ReleaseTerminalLock(lock[h], t, row[t].token))
    /\ IF wk[w].ctx = "late" \/ row[t].orphan THEN WorkerGoto(w, "show") ELSE Return(w)
    /\ UNCHANGED <<apc, apiVars, dbVars, redisVars, recoveryVars>>

ShowObserved(w) ==
    /\ wk[w].pc = "show"
    /\ Emit(Task(w), wk[w].ev) \/ UNCHANGED published
    /\ Return(w)
    /\ UNCHANGED <<apc, apiVars, lock, dbVars, queue, cancelled, recoveryVars>>

WorkerCrash(w) ==
    /\ w \in CrashingWorkers
    /\ wk[w].pc # "idle"
    /\ Return(w)
    /\ UNCHANGED <<apc, apiVars, lock, dbVars, redisVars, recoveryVars>>

WorkerNext(w) == \/ Dequeue(w) \/ ReadAttempt(w) \/ LinkDuplicate(w) \/ NoDuplicate(w)
                 \/ CheckCancelled(w) \/ Generate(w) \/ Persist(w) \/ AfterPersist(w)
                 \/ RecordOutcome(w) \/ Project(w) \/ PublishTerminal(w)
                 \/ ClearCancelled(w) \/ ObserveTerminal(w) \/ CleanupLock(w)
                 \/ ShowObserved(w) \/ WorkerCrash(w)

-----------------------------------------------------------------------------
(* Cancellation, receipts, the user-message probe and the clock             *)

\* The cancel route resolves the durable attempt before it marks the task.
CancelTask(t) ==
    /\ t \in Cancellable
    /\ row[t].exists
    /\ cancelled' = cancelled \cup {t}
    /\ UNCHANGED <<apc, apiVars, lock, dbVars, queue, published, wk, recoveryVars>>

\* reconcile_chat_attempt_receipts: fence in PostgreSQL, then clean the lock
\* in a separate Redis batch that may be lost.
ReceiptReconcile(t) ==
    /\ ReceiptEligible(row[t], left[t])
    /\ row' = [row EXCEPT ![t] = Reconcile(row[t], left[t])]
    /\ sweep' \in {sweep, sweep \cup {t}}
    /\ UNCHANGED <<apc, apiVars, lock, inserted, stamped, redisVars, wk, probe>>

ReceiptCleanup(t) ==
    LET h == ThreadOf[t] IN
    /\ t \in sweep
    /\ sweep' = sweep \ {t}
    /\ MaybeLock(h, ReleaseTerminalLock(lock[h], t, row[t].token))
    /\ UNCHANGED <<apc, apiVars, dbVars, redisVars, wk, probe>>

ProbeGoto(h, s) == probe' = [probe EXCEPT ![h] = s]

\* _persist_message_to_thread.  When SET is applied but slow the probe counts
\* as unavailable, the message goes on, and the key stays until its ttl.
ProbeAcquire(h) ==
    /\ h \in ProbedThreads
    /\ probe[h] = "idle"
    /\ Free(lock[h])
    /\ SetLock(h, AcquireLock(Probe, 0, ProbeTTL))
    /\ probe' \in {probe, [probe EXCEPT ![h] = "held"]}
    /\ UNCHANGED <<apc, apiVars, dbVars, redisVars, wk, sweep>>

ProbeRelease(h) ==
    /\ probe[h] = "held"
    /\ \/ MaybeLock(h, ReleaseLock(lock[h], Probe, 0)) /\ ProbeGoto(h, "idle")
       \/ /\ ReleaseFallback
          /\ MatchesExpected(lock[h], Probe, 0)
          /\ ProbeGoto(h, "delete")
          /\ UNCHANGED lock
    /\ UNCHANGED <<apc, apiVars, dbVars, redisVars, wk, sweep>>

ProbeDelete(h) ==
    /\ probe[h] = "delete"
    /\ MaybeLock(h, NoLock)
    /\ ProbeGoto(h, "idle")
    /\ UNCHANGED <<apc, apiVars, dbVars, redisVars, wk, sweep>>

TimerRunning == \/ \E t \in Tasks : left[t] > 0
                \/ \E h \in Threads : ~Free(lock[h])

\* Every timer runs at the same rate.
Tick ==
    /\ TimerRunning
    /\ left' = [t \in Tasks |-> Elapse(left[t])]
    /\ lock' = [h \in Threads |-> Age(lock[h])]
    /\ UNCHANGED <<apc, tok, seen, dbVars, redisVars, wk, recoveryVars>>

\* Every request has been answered and every timer has run out.
Quiescent ==
    /\ \A t \in Tasks : apc[t] \in ApiFinal
    /\ \A w \in Workers : wk[w].pc = "idle"
    /\ queue = <<>>
    /\ sweep = {}
    /\ ~TimerRunning
    /\ UNCHANGED vars

Next == \/ \E t \in Tasks : \/ ApiNext(t) \/ CancelTask(t)
                            \/ ReceiptReconcile(t) \/ ReceiptCleanup(t)
        \/ \E w \in Workers : WorkerNext(w)
        \/ \E h \in Threads : ProbeAcquire(h) \/ ProbeRelease(h) \/ ProbeDelete(h)
        \/ Tick
        \/ Quiescent

Spec == Init /\ [][Next]_vars

\* Time passes, and somebody keeps opening the thread's task receipts
\* (GuardianChat reads them after every hydration) on a database that is not
\* down for ever.
FairSpec == /\ Spec
            /\ WF_vars(Tick)
            /\ \A t \in Tasks : WF_vars(ReceiptReconcile(t))

-----------------------------------------------------------------------------
(* Properties                                                               *)

\* Every variable keeps its type.
TypeOK == /\ apc \in [Tasks -> ApiStates]
          /\ tok \in [Tasks -> 0..2]
          /\ seen \in [Tasks -> Tasks \cup {NoTask}]
          /\ left \in [Tasks -> 0..TotalBudget]
          /\ lock \in [Threads -> Lock]
          /\ row \in [Tasks -> Row]
          /\ inserted \in [Tasks -> Nat]
          /\ stamped \in SUBSET Tasks
          /\ queue \in Seq(Tasks)
          /\ cancelled \in SUBSET Tasks
          /\ published \in [Tasks -> SUBSET Events]
          /\ wk \in [Workers -> WorkerRecord]
          /\ sweep \in SUBSET Tasks
          /\ probe \in [Threads -> {"idle", "held", "delete"}]

\* However many workers run one task, and whichever of them, the canceller
\* and the deadline controller gets to the row first, the attempt has one
\* outcome: an assistant message or a terminal event, never both, and the
\* controller's orphan mark only on a failure.
OutcomeExclusive ==
    \A t \in Tasks : /\ Completed(row[t]) => row[t].terminal = "none"
                     /\ row[t].orphan => row[t].terminal = "failed"

\* An assistant message in the transcript is the message of a completed
\* attempt, and there is at most one per attempt: a redelivered task, a commit
\* whose acknowledgement was lost, or a commit that lands after the orphan
\* fence leaves no second message and no message of a failed attempt.
AssistantBound ==
    \A t \in Tasks : inserted[t] # 0 => inserted[t] = 1 /\ row[t].completed = t

\* Every terminal event a client can read in the task's stream is the outcome
\* the attempt row has, whoever published it and in whatever order.
PublishedAgrees == \A t \in Tasks : published[t] \subseteq {Outcome(row[t])}

\* ADR-087: from its renewal on, the turn lock of an unresolved attempt stays
\* its own and outlives the attempt's terminal deadline by the safety margin.
InEnvelope(t) == /\ apc[t] \in {"create", "enqueue", "mark", "accepted"}
                 /\ ~Decided(row[t])
                 /\ TerminalOpen(left[t])
LeaseCoversEnvelope ==
    \A t \in Tasks : InEnvelope(t) =>
        LET l == lock[ThreadOf[t]] IN
        HeldBy(l, t, tok[t]) /\ l.ttl >= left[t] + SafetyMargin

\* Two attempts that the API accepted, both unresolved and inside their
\* envelopes, are never on the same thread.
OneAcceptedTurn ==
    \A t, u \in Tasks : InEnvelope(t) /\ InEnvelope(u) /\ ThreadOf[t] = ThreadOf[u] => t = u

\* A step takes the lock of a task away only if the lease ran out, the task's
\* attempt is decided, or its own request gives the turn up.
LockLoss(h) ==
    LET l == lock[h] IN
    l.owner \in Tasks /\ lock'[h].owner # l.owner
        => \/ l.ttl = 1
           \/ Decided(row[l.owner])
           \/ apc[l.owner] \in {"release", "delete"}
LockLossJustified == [][\A h \in Threads : LockLoss(h)]_vars

\* The pipeline implements AttemptOutcome: an attempt is opened once, decided
\* once and never changed, and only its decision is shown.
Abstract == INSTANCE AttemptOutcome WITH
    outcome <- [t \in Tasks |-> IF ~row[t].exists THEN "absent"
                                ELSE IF Decided(row[t]) THEN Outcome(row[t])
                                ELSE "pending"],
    shown <- published
ImplementsOutcome == Abstract!Spec

\* An attempt whose acceptance was recorded gets an outcome even if every
\* worker that dequeued it died: the receipts fence it after its deadline.
AcceptedResolved == \A t \in Tasks : row[t].accepted ~> Decided(row[t])

\* What docs/architecture/data-and-storage.md calls a hard invariant: two
\* workers never generate for two turns of one thread at the same time.
OneTurnInFlight ==
    \A w, v \in Workers :
        /\ wk[w].pc = "provider" /\ wk[v].pc = "provider"
        /\ ThreadOf[Task(w)] = ThreadOf[Task(v)]
        => Task(w) = Task(v)

\* What the docstring of release_turn_lock says ("Release lock only when
\* current owner matches"): the release of t's request removes only t's lock.
ReleaseOnlyOwnLock ==
    [][\A t \in Tasks : LET h == ThreadOf[t] IN
           apc[t] \in {"release", "delete"} /\ apc'[t] = "rejected" /\ lock'[h] # lock[h]
           => lock[h].owner = t]_vars
=============================================================================
