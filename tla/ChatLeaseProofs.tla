-------------------------- MODULE ChatLeaseProofs ---------------------------
(***************************************************************************)
(* What the turn lock guarantees, for any number of tasks, threads and      *)
(* workers and any budgets, as long as every release is the atomic script.  *)
(***************************************************************************)
EXTENDS ChatPipelineProofs

\* Nobody is between the GET and the DEL of the release fallback, and whoever
\* is about to clean up the lock of an attempt has seen it decided.
CleanersOK == /\ \A t \in Tasks : /\ apc[t] # "delete"
                                  /\ apc[t] = "unlock" => Decided(row[seen[t]])
              /\ \A t \in sweep : Decided(row[t])
              /\ \A h \in Threads : probe[h] # "delete"

\* Every key in Redis has an expiry.
KeysExpire == \A h \in Threads : ~Free(lock[h]) => lock[h].ttl > 0

LeaseInv == CleanersOK /\ KeysExpire /\ LeaseCoversEnvelope

\* What a step other than the clock's may do to the lock of thread h: take it
\* when it is free, renew it for its owner, or remove it when its owner is
\* the probe, a decided attempt or a request that gives up.
Takes(h) == Free(lock[h]) /\ (Free(lock'[h]) \/ lock'[h].ttl > 0)
Renews(h) == /\ lock[h].owner \in Tasks
             /\ apc[lock[h].owner] = "renew"
             /\ lock'[h] = [lock[h] EXCEPT !.ttl = Lease]
Frees(h) == /\ lock'[h] = NoLock
            /\ \/ lock[h].owner = Probe
               \/ /\ lock[h].owner \in Tasks
                  /\ Decided(row[lock[h].owner]) \/ apc[lock[h].owner] = "release"
LockChange(h) == lock'[h] = lock[h] \/ Takes(h) \/ Renews(h) \/ Frees(h)

\* A lock operation on one thread changes no other lock.
LEMMA OneLockChange ==
    ASSUME Inv, NEW g \in Threads, NEW l, SetLock(g, l) \/ MaybeLock(g, l)
    PROVE /\ \A h \in Threads \ {g} : LockChange(h)
          /\ lock'[g] \in {lock[g], l}
BY DEF Inv, TypeOK, SetLock, MaybeLock, LockChange

\* The terminal release of a decided attempt frees its own lock or none.
LEMMA TerminalRelease ==
    ASSUME Inv, NEW h \in Threads, NEW o \in Tasks, NEW n, Decided(row[o]),
           lock'[h] \in {lock[h], ReleaseTerminalLock(lock[h], o, n)}
    PROVE LockChange(h)
BY DEF ReleaseTerminalLock, HeldBy, LockChange, Frees

\* The lock a request or a probe takes has an expiry.
LEMMA Acquisition ==
    ASSUME NEW h \in Threads, Free(lock[h]), NEW o, NEW n, NEW ttl \in {Lease, ProbeTTL},
           lock'[h] \in {lock[h], AcquireLock(o, n, ttl)}
    PROVE LockChange(h)
BY BudgetAssumption, PipelineAssumption
   DEF LockChange, Takes, AcquireLock, Lease, TotalBudget

\* Every step of a request changes locks in these ways.
LEMMA RequestLocks ==
    ASSUME Inv, LeaseInv, ReleaseFallback = FALSE, NEW t \in Tasks, ApiNext(t)
    PROVE \A h \in Threads : LockChange(h)
<1> DEFINE g == ThreadOf[t]
<1>0. g \in Threads
  BY PipelineAssumption
<1>1. CASE UNCHANGED lock
  BY <1>1 DEF LockChange
<1>2. CASE Acquire(t) \/ AcquireRefused(t) \/ AcquireError(t)
  <2>1. CASE ~Free(lock[g])
    BY <1>1, <1>2, <2>1 DEF Acquire, AcquireRefused, AcquireError
  <2>2. CASE Free(lock[g]) /\ SetLock(g, AcquireLock(t, NextToken(t), Lease))
    BY <1>0, <2>2, OneLockChange, Acquisition
  <2>3. QED
    BY <1>1, <1>2, <2>1, <2>2 DEF Acquire, AcquireRefused, AcquireError
<1>3. CASE RecoverUnlock(t)
  <2> DEFINE l == ReleaseTerminalLock(lock[g], seen[t], row[seen[t]].token)
  <2>1. seen[t] \in Tasks /\ Decided(row[seen[t]])
    BY <1>3 DEF RecoverUnlock, Inv, RequestsOK, RequestOK, LeaseInv, CleanersOK
  <2>2. SetLock(g, l) \/ MaybeLock(g, l)
    BY <1>3 DEF RecoverUnlock
  <2>3. QED
    BY <1>0, <2>1, <2>2, OneLockChange, TerminalRelease
<1>4. CASE Renew(t)
  <2> DEFINE l == RenewLock(lock[g], t, tok[t], Lease)
  <2>1. SetLock(g, l) \/ MaybeLock(g, l)
    BY <1>4 DEF Renew
  <2>2. LockChange(g)
    BY <1>0, <1>4, <2>1, OneLockChange DEF Renew, RenewLock, HeldBy, LockChange, Renews
  <2>3. QED
    BY <1>0, <2>1, <2>2, OneLockChange
<1>5. CASE Release(t)
  <2> DEFINE l == ReleaseLock(lock[g], t, tok[t])
  <2>1. MaybeLock(g, l)
    BY <1>5 DEF Release
  <2>2. LockChange(g)
    BY <1>0, <1>5, <2>1, OneLockChange
       DEF Release, ReleaseLock, MatchesExpected, LockChange, Frees
  <2>3. QED
    BY <1>0, <2>1, <2>2, OneLockChange
<1>6. CASE Delete(t)
  BY <1>6 DEF Delete, LeaseInv, CleanersOK
<1>7. QED
  BY <1>1, <1>2, <1>3, <1>4, <1>5, <1>6
     DEF ApiNext, RecoverProbe, RecoverReconcile, Snapshot, Deadline, Create, Enqueue, Mark,
         ApiCrash

\* So does every step but the clock's.
LEMMA StepLocks ==
    ASSUME Inv, LeaseInv, ReleaseFallback = FALSE, [Next]_vars
    PROVE Tick \/ \A h \in Threads : LockChange(h)
<1>0. \A t \in Tasks : ThreadOf[t] \in Threads
  BY PipelineAssumption
<1>1. CASE UNCHANGED lock
  BY <1>1 DEF LockChange
<1>2. ASSUME NEW w \in Workers, CleanupLock(w) PROVE \A h \in Threads : LockChange(h)
  <2> DEFINE g == ThreadOf[Task(w)]
             l == ReleaseTerminalLock(lock[g], Task(w), row[Task(w)].token)
  <2>1. Task(w) \in Tasks /\ Decided(row[Task(w)])
    BY <1>2 DEF CleanupLock, Inv, WorkersOK, WorkerOK
  <2>2. MaybeLock(g, l)
    BY <1>2 DEF CleanupLock
  <2>3. QED
    BY <1>0, <2>1, <2>2, OneLockChange, TerminalRelease
<1>3. ASSUME NEW t \in Tasks, ReceiptCleanup(t) PROVE \A h \in Threads : LockChange(h)
  <2> DEFINE g == ThreadOf[t]
             l == ReleaseTerminalLock(lock[g], t, row[t].token)
  <2>1. Decided(row[t]) /\ MaybeLock(g, l)
    BY <1>3 DEF ReceiptCleanup, LeaseInv, CleanersOK
  <2>2. QED
    BY <1>0, <2>1, OneLockChange, TerminalRelease
<1>4. ASSUME NEW g \in Threads, ProbeAcquire(g) PROVE \A h \in Threads : LockChange(h)
  <2>1. Free(lock[g]) /\ SetLock(g, AcquireLock(Probe, 0, ProbeTTL))
    BY <1>4 DEF ProbeAcquire
  <2>2. QED
    BY <2>1, OneLockChange, Acquisition
<1>5. ASSUME NEW g \in Threads, ProbeRelease(g) PROVE \A h \in Threads : LockChange(h)
  <2>1. MaybeLock(g, ReleaseLock(lock[g], Probe, 0))
    BY <1>5 DEF ProbeRelease
  <2>2. LockChange(g)
    BY <2>1, OneLockChange DEF ReleaseLock, MatchesExpected, LockChange, Frees
  <2>3. QED
    BY <2>1, <2>2, OneLockChange
<1>6. ASSUME NEW g \in Threads, ProbeDelete(g) PROVE FALSE
  BY <1>6 DEF ProbeDelete, LeaseInv, CleanersOK
<1>7. ASSUME NEW w \in Workers, WorkerNext(w) PROVE CleanupLock(w) \/ UNCHANGED lock
  BY <1>7 DEF WorkerNext, Dequeue, ReadAttempt, LinkDuplicate, NoDuplicate, CheckCancelled,
              Generate, Persist, AfterPersist, RecordOutcome, Project, PublishTerminal,
              ClearCancelled, ObserveTerminal, ShowObserved, WorkerCrash
<1>8. ASSUME NEW t \in Tasks, CancelTask(t) \/ ReceiptReconcile(t) PROVE UNCHANGED lock
  BY <1>8 DEF CancelTask, ReceiptReconcile
<1>9. CASE UNCHANGED vars
  BY <1>1, <1>9 DEF vars
<1>10. QED
  BY <1>1, <1>2, <1>3, <1>4, <1>5, <1>6, <1>7, <1>8, <1>9, RequestLocks DEF Next, Quiescent

-----------------------------------------------------------------------------
(* The lease is an invariant                                                *)

\* What is decided stays decided.
LEMMA DecidedStable ==
    ASSUME Inv, [Next]_vars, NEW t \in Tasks, Decided(row[t])
    PROVE Decided(row'[t])
<1>1. row \in [Tasks -> Row] /\ RowOK(row[t])
  BY DEF Inv, TypeOK, RowsOK
<1>2. CASE Transacts
  BY <1>1, <1>2 DEF Transacts, RowStep, Decided, Completed
<1>3. CASE Opens
  BY <1>1, <1>3 DEF Opens, RowOK
<1>4. CASE Shows \/ UNCHANGED <<row, published>>
  BY <1>4 DEF Shows
<1>5. QED
  BY <1>2, <1>3, <1>4, StepShape

\* The states of an accepted request, from its renewal on.
Leased == {"create", "enqueue", "mark", "accepted"}

\* A request gets there by a renewal it saw succeed, stays there with its
\* token, and its deadline is frozen.
LEMMA LeasedStep ==
    ASSUME Inv, [Next]_vars, NEW t \in Tasks, apc'[t] \in Leased
    PROVE \/ /\ apc[t] \in Leased
             /\ tok'[t] = tok[t]
             /\ Tick \/ left'[t] = left[t]
          \/ /\ HeldBy(lock[ThreadOf[t]], t, tok[t])
             /\ lock' = [lock EXCEPT ![ThreadOf[t]] = [@ EXCEPT !.ttl = Lease]]
             /\ UNCHANGED <<tok, left>>
<1> USE DEF apiVars
<1>0. apc \in [Tasks -> ApiStates] /\ tok \in [Tasks -> 0..2] /\ left \in [Tasks -> 0..TotalBudget]
  BY DEF Inv, TypeOK
<1>1. ASSUME NEW u \in Tasks, ApiNext(u), u # t
      PROVE apc'[t] = apc[t] /\ tok'[t] = tok[t] /\ left'[t] = left[t]
  BY <1>0, <1>1 DEF ApiNext, Acquire, AcquireRefused, AcquireError, RecoverProbe,
        RecoverReconcile, RecoverUnlock, Snapshot, Deadline, Renew, Create, Enqueue, Mark,
        Release, Delete, ApiCrash, ApiGoto
<1>2. CASE Renew(t)
  BY <1>0, <1>2 DEF Renew, ApiGoto, SetLock, RenewLock, Leased
<1>3. CASE Create(t) \/ Enqueue(t) \/ Mark(t)
  BY <1>0, <1>3 DEF Create, Enqueue, Mark, Leased
<1>4. CASE ApiNext(t) /\ ~Renew(t) /\ ~Create(t) /\ ~Enqueue(t) /\ ~Mark(t)
  BY <1>0, <1>4 DEF ApiNext, Acquire, AcquireRefused, AcquireError, RecoverProbe,
        RecoverReconcile, RecoverUnlock, Snapshot, Deadline, Release, Delete, ApiCrash,
        ApiGoto, Leased
<1>5. ASSUME NEW w \in Workers, WorkerNext(w) PROVE UNCHANGED <<apc, tok, left>>
  BY <1>5 DEF WorkerNext, Dequeue, ReadAttempt, LinkDuplicate, NoDuplicate, CheckCancelled,
        Generate, Persist, AfterPersist, RecordOutcome, Project, PublishTerminal,
        ClearCancelled, ObserveTerminal, CleanupLock, ShowObserved, WorkerCrash
<1>6. ASSUME \/ \E u \in Tasks : CancelTask(u) \/ ReceiptReconcile(u) \/ ReceiptCleanup(u)
             \/ \E h \in Threads : ProbeAcquire(h) \/ ProbeRelease(h) \/ ProbeDelete(h)
             \/ UNCHANGED vars
      PROVE UNCHANGED <<apc, tok, left>>
  BY <1>6 DEF CancelTask, ReceiptReconcile, ReceiptCleanup, ProbeAcquire, ProbeRelease,
        ProbeDelete, vars
<1>7. CASE Tick
  BY <1>7 DEF Tick
<1>8. QED
  BY <1>1, <1>2, <1>3, <1>4, <1>5, <1>6, <1>7 DEF Next, Quiescent

\* The lease of every envelope survives a step: its lock is neither free, nor
\* the probe's, nor that of a decided attempt or of a request that gives up,
\* and the clock takes as much from the deadline as from the key.
LEMMA LeaseStep ==
    ASSUME Inv, LeaseInv, ReleaseFallback = FALSE, [Next]_vars
    PROVE LeaseCoversEnvelope'
<1> SUFFICES ASSUME NEW t \in Tasks, InEnvelope(t)'
             PROVE LET l == lock'[ThreadOf[t]] IN
                   HeldBy(l, t, tok'[t]) /\ l.ttl >= left'[t] + SafetyMargin
  BY DEF LeaseCoversEnvelope
<1> DEFINE h == ThreadOf[t]
<1>0. /\ h \in Threads
      /\ lock \in [Threads -> Lock]
      /\ lock[h] \in Lock
      /\ lock[h].ttl \in Nat
      /\ left[t] \in 0..TotalBudget
  BY PipelineAssumption DEF Inv, TypeOK, Lock
<1>1. apc'[t] \in Leased /\ ~Decided(row[t]) /\ left'[t] > 0
  BY DecidedStable DEF InEnvelope, Leased, TerminalOpen
<1>2. CASE /\ HeldBy(lock[h], t, tok[t])
           /\ lock' = [lock EXCEPT ![h] = [@ EXCEPT !.ttl = Lease]]
           /\ UNCHANGED <<tok, left>>
  <2>1. lock'[h].ttl = Lease /\ HeldBy(lock'[h], t, tok'[t])
    BY <1>0, <1>2 DEF HeldBy, IsEnvelope, Free, Lock
  <2>2. Lease >= left'[t] + SafetyMargin
    BY <1>0, <1>2, BudgetAssumption DEF Lease, TotalBudget
  <2>3. QED
    BY <2>1, <2>2
<1>3. CASE apc[t] \in Leased /\ tok'[t] = tok[t] /\ (Tick \/ left'[t] = left[t])
  <2>1. left[t] > 0
    BY <1>0, <1>1, <1>3 DEF Tick, Elapse
  <2>2. HeldBy(lock[h], t, tok[t]) /\ lock[h].ttl >= left[t] + SafetyMargin
    BY <1>1, <1>3, <2>1 DEF LeaseInv, LeaseCoversEnvelope, InEnvelope, Leased, TerminalOpen
  <2>3. lock[h].owner = t /\ ~Free(lock[h]) /\ t # Probe
    BY <2>2, ProbeAssumption DEF HeldBy, IsEnvelope
  <2>4. CASE Tick
    <3>1. lock'[h] = Age(lock[h]) /\ left'[t] = left[t] - 1
      BY <1>0, <2>1, <2>4 DEF Tick, Elapse
    <3>2. lock'[h] = [lock[h] EXCEPT !.ttl = @ - 1]
      BY <1>0, <2>1, <2>2, <3>1, BudgetAssumption DEF Age
    <3>3. HeldBy(lock'[h], t, tok'[t]) /\ lock'[h].ttl = lock[h].ttl - 1
      BY <1>0, <1>3, <2>2, <3>2 DEF HeldBy, IsEnvelope, Free, Lock
    <3>4. QED
      BY <1>0, <2>2, <3>1, <3>3, BudgetAssumption
  <2>5. CASE ~Tick
    <3>1. LockChange(h)
      BY <1>0, <2>5, StepLocks
    <3>2. lock'[h] = lock[h]
      BY <1>1, <1>3, <2>3, <3>1 DEF LockChange, Takes, Renews, Frees, Leased
    <3>3. QED
      BY <1>3, <2>2, <2>5, <3>2
  <2>6. QED
    BY <2>4, <2>5
<1>4. QED
  BY <1>1, <1>2, <1>3, LeasedStep

\* Every key keeps an expiry.
LEMMA ExpiryStep ==
    ASSUME Inv, LeaseInv, ReleaseFallback = FALSE, [Next]_vars
    PROVE KeysExpire'
<1> SUFFICES ASSUME NEW h \in Threads, ~Free(lock'[h]) PROVE lock'[h].ttl > 0
  BY DEF KeysExpire
<1>0. lock[h] \in Lock /\ lock[h].ttl \in Nat
  BY DEF Inv, TypeOK, Lock
<1>1. CASE Tick
  <2>1. lock'[h] = Age(lock[h])
    BY <1>1 DEF Tick
  <2>2. QED
    BY <1>0, <2>1 DEF Age, NoLock, Free, Lock
<1>2. CASE LockChange(h)
  <2>1. CASE lock'[h] = lock[h]
    BY <2>1 DEF LeaseInv, KeysExpire
  <2>2. CASE Takes(h)
    BY <2>2 DEF Takes
  <2>3. CASE Renews(h)
    BY <1>0, <2>3, BudgetAssumption DEF Renews, Lock, Lease, TotalBudget
  <2>4. CASE Frees(h)
    BY <2>4 DEF Frees, NoLock, Free
  <2>5. QED
    BY <1>2, <2>1, <2>2, <2>3, <2>4 DEF LockChange
<1>3. QED
  BY <1>1, <1>2, StepLocks

\* Cleaners only ever hold decided attempts.
LEMMA CleanersStep ==
    ASSUME Inv, LeaseInv, ReleaseFallback = FALSE, [Next]_vars
    PROVE CleanersOK'
<1> USE DEF apiVars, recoveryVars
<1>0. /\ apc \in [Tasks -> ApiStates]
      /\ seen \in [Tasks -> Tasks \cup {NoTask}]
      /\ row \in [Tasks -> Row]
      /\ sweep \in SUBSET Tasks
      /\ probe \in [Threads -> {"idle", "held", "delete"}]
      /\ \A t \in Tasks : RequestOK(t)
      /\ CleanersOK
  BY DEF Inv, TypeOK, RequestsOK, LeaseInv
<1>1. \A t \in Tasks : Decided(row[t]) => Decided(row'[t])
  BY DecidedStable
<1>2. ASSUME NEW t \in Tasks, UNCHANGED <<apc, seen>>
      PROVE apc'[t] # "delete" /\ (apc'[t] = "unlock" => Decided(row'[seen'[t]]))
  BY <1>0, <1>1, <1>2 DEF CleanersOK, RequestOK
<1>3. UNCHANGED sweep => \A t \in sweep' : Decided(row'[t])
  BY <1>0, <1>1 DEF CleanersOK
<1>4. UNCHANGED probe => \A h \in Threads : probe'[h] # "delete"
  BY <1>0 DEF CleanersOK
<1>5. ASSUME NEW t \in Tasks, ApiNext(t) PROVE CleanersOK'
  <2>1. UNCHANGED recoveryVars
    BY <1>5 DEF ApiNext, Acquire, AcquireRefused, AcquireError, RecoverProbe,
          RecoverReconcile, RecoverUnlock, Snapshot, Deadline, Renew, Create, Enqueue, Mark,
          Release, Delete, ApiCrash
  <2>2. /\ \A u \in Tasks \ {t} : apc'[u] = apc[u] /\ seen'[u] = seen[u]
        /\ apc'[t] # "delete"
    BY <1>0, <1>5 DEF ApiNext, Acquire, AcquireRefused, AcquireError, RecoverProbe,
          RecoverReconcile, RecoverUnlock, Snapshot, Deadline, Renew, Create, Enqueue, Mark,
          Release, Delete, ApiCrash, ApiGoto
  <2>3. apc'[t] = "unlock" => RecoverReconcile(t)
    BY <1>0, <1>5 DEF ApiNext, Acquire, AcquireRefused, AcquireError, RecoverProbe,
          RecoverUnlock, Snapshot, Deadline, Renew, Create, Enqueue, Mark,
          Release, Delete, ApiCrash, ApiGoto
  <2>4. ASSUME RecoverReconcile(t), apc'[t] = "unlock" PROVE Decided(row'[seen'[t]])
    BY <1>0, <2>4 DEF RecoverReconcile, RequestOK, ApiGoto
  <2>5. \A u \in Tasks \ {t} : /\ apc'[u] # "delete"
                               /\ apc'[u] = "unlock" => Decided(row'[seen'[u]])
    BY <1>0, <1>1, <2>2 DEF CleanersOK, RequestOK
  <2>6. QED
    BY <1>3, <1>4, <2>1, <2>2, <2>3, <2>4, <2>5 DEF CleanersOK
<1>6. ASSUME NEW w \in Workers, WorkerNext(w) PROVE UNCHANGED <<apc, seen, sweep, probe>>
  BY <1>6 DEF WorkerNext, Dequeue, ReadAttempt, LinkDuplicate, NoDuplicate, CheckCancelled,
        Generate, Persist, AfterPersist, RecordOutcome, Project, PublishTerminal,
        ClearCancelled, ObserveTerminal, CleanupLock, ShowObserved, WorkerCrash
<1>7. ASSUME NEW t \in Tasks, ReceiptReconcile(t) PROVE CleanersOK'
  <2>1. Decided(row'[t])
    <3>1. row[t].exists /\ (row[t].orphan \/ Fences(row[t], left[t]))
      BY <1>7 DEF ReceiptReconcile, ReceiptEligible
    <3>2. row[t] \in Row /\ RowOK(row[t]) /\ row'[t] = Reconcile(row[t], left[t])
      BY <1>0, <1>7 DEF ReceiptReconcile, Inv, RowsOK
    <3>3. QED
      BY <3>1, <3>2 DEF Reconcile, Decided, RowOK, Row
  <2>2. QED
    BY <1>0, <1>1, <1>2, <1>4, <1>7, <2>1 DEF ReceiptReconcile, CleanersOK
<1>8. ASSUME NEW t \in Tasks, ReceiptCleanup(t) PROVE CleanersOK'
  BY <1>0, <1>1, <1>2, <1>4, <1>8 DEF ReceiptCleanup, CleanersOK
<1>9. ASSUME NEW g \in Threads, ProbeAcquire(g) \/ ProbeRelease(g) \/ ProbeDelete(g)
      PROVE CleanersOK'
  <2>1. \A h \in Threads : probe'[h] # "delete"
    BY <1>0, <1>9 DEF ProbeAcquire, ProbeRelease, ProbeDelete, ProbeGoto, CleanersOK
  <2>2. UNCHANGED <<apc, seen, sweep>>
    BY <1>9 DEF ProbeAcquire, ProbeRelease, ProbeDelete
  <2>3. QED
    BY <1>2, <1>3, <2>1, <2>2 DEF CleanersOK
<1>10. ASSUME (\E t \in Tasks : CancelTask(t)) \/ Tick \/ UNCHANGED vars
       PROVE UNCHANGED <<apc, seen, sweep, probe>>
  BY <1>10 DEF CancelTask, Tick, vars
<1>11. UNCHANGED <<apc, seen, sweep, probe>> => CleanersOK'
  BY <1>2, <1>3, <1>4 DEF CleanersOK
<1>12. QED
  BY <1>5, <1>6, <1>7, <1>8, <1>9, <1>10, <1>11 DEF Next, Quiescent

\* Initially no key is set and nobody cleans up.
LEMMA InitLease == Init => LeaseInv
BY DEF Init, LeaseInv, CleanersOK, KeysExpire, LeaseCoversEnvelope, InEnvelope, NoLock, Free

-----------------------------------------------------------------------------
(* Theorems                                                                 *)

\* The lease invariant holds in every reachable state.
THEOREM LeaseInvariance == ReleaseFallback = FALSE => (Spec => []LeaseInv)
<1> SUFFICES ASSUME ReleaseFallback = FALSE PROVE Spec => []LeaseInv
  OBVIOUS
<1>1. Inv /\ LeaseInv /\ [Next]_vars => LeaseInv'
  BY LeaseStep, ExpiryStep, CleanersStep DEF LeaseInv
<1>2. QED
  BY <1>1, InitLease, Invariance, PTL DEF Spec

\* From its renewal to its deadline an unresolved attempt keeps its turn lock,
\* which outlives the deadline by the safety margin.
THEOREM LeaseCovers == ReleaseFallback = FALSE => (Spec => []LeaseCoversEnvelope)
<1> SUFFICES ASSUME ReleaseFallback = FALSE PROVE Spec => []LeaseCoversEnvelope
  OBVIOUS
<1>1. LeaseInv => LeaseCoversEnvelope
  BY DEF LeaseInv
<1>2. QED
  BY <1>1, LeaseInvariance, PTL

\* Two accepted, unresolved turns inside their envelopes never share a thread.
THEOREM AcceptedTurnsExclude == ReleaseFallback = FALSE => (Spec => []OneAcceptedTurn)
<1> SUFFICES ASSUME ReleaseFallback = FALSE PROVE Spec => []OneAcceptedTurn
  OBVIOUS
<1>1. LeaseInv => OneAcceptedTurn
  BY DEF LeaseInv, LeaseCoversEnvelope, OneAcceptedTurn, HeldBy
<1>2. QED
  BY <1>1, LeaseInvariance, PTL

\* Nobody takes a task's lock before its lease ends, its attempt is decided or
\* its own request gives up.
THEOREM LocksLostForCause == ReleaseFallback = FALSE => (Spec => LockLossJustified)
<1> SUFFICES ASSUME ReleaseFallback = FALSE PROVE Spec => LockLossJustified
  OBVIOUS
<1>1. Inv /\ LeaseInv /\ [Next]_vars => [\A h \in Threads : LockLoss(h)]_vars
  <2> SUFFICES ASSUME Inv, LeaseInv, [Next]_vars, NEW h \in Threads,
                      lock[h].owner \in Tasks, lock'[h].owner # lock[h].owner
               PROVE \/ lock[h].ttl = 1
                     \/ Decided(row[lock[h].owner])
                     \/ apc[lock[h].owner] \in {"release", "delete"}
    BY DEF LockLoss
  <2>0. lock[h] \in Lock /\ lock[h].ttl \in Nat /\ ~Free(lock[h]) /\ lock[h].owner # Probe
    BY NoTaskAssumption, ProbeAssumption DEF Inv, TypeOK, Lock, Free
  <2>1. CASE Tick
    <3>1. lock'[h] = Age(lock[h]) /\ lock[h].ttl > 0
      BY <2>0, <2>1 DEF Tick, LeaseInv, KeysExpire
    <3>2. QED
      BY <2>0, <3>1 DEF Age, Lock
  <2>2. CASE LockChange(h)
    BY <2>0, <2>2 DEF LockChange, Takes, Renews, Frees, Lock
  <2>3. QED
    BY <2>1, <2>2, StepLocks
<1>2. QED
  BY <1>1, Invariance, LeaseInvariance, PTL DEF Spec, LockLossJustified

\* A request that gives up removes no lock but its own: the atomic script keeps
\* what the run release_fallback shows the two-command fallback to break.
THEOREM ReleaseSafety == ReleaseFallback = FALSE => (Spec => ReleaseOnlyOwnLock)
<1> SUFFICES ASSUME ReleaseFallback = FALSE PROVE Spec => ReleaseOnlyOwnLock
  OBVIOUS
<1> USE DEF apiVars
<1>1. Inv /\ LeaseInv /\ [Next]_vars =>
        [\A t \in Tasks : LET h == ThreadOf[t] IN
             apc[t] \in {"release", "delete"} /\ apc'[t] = "rejected" /\ lock'[h] # lock[h]
             => lock[h].owner = t]_vars
  <2> SUFFICES ASSUME Inv, LeaseInv, [Next]_vars, NEW t \in Tasks,
                      apc[t] \in {"release", "delete"}, apc'[t] = "rejected",
                      lock'[ThreadOf[t]] # lock[ThreadOf[t]]
               PROVE lock[ThreadOf[t]].owner = t
    OBVIOUS
  <2>0. /\ apc \in [Tasks -> ApiStates] /\ apc[t] = "release"
        /\ lock \in [Threads -> Lock] /\ ThreadOf[t] \in Threads
    BY PipelineAssumption DEF Inv, TypeOK, LeaseInv, CleanersOK
  <2>1. ASSUME NEW u \in Tasks, ApiNext(u), u # t PROVE apc'[t] = apc[t]
    BY <2>0, <2>1 DEF ApiNext, Acquire, AcquireRefused, AcquireError, RecoverProbe,
          RecoverReconcile, RecoverUnlock, Snapshot, Deadline, Renew, Create, Enqueue, Mark,
          Release, Delete, ApiCrash, ApiGoto
  <2>2. ASSUME NEW w \in Workers, WorkerNext(w) PROVE UNCHANGED apc
    BY <2>2 DEF WorkerNext, Dequeue, ReadAttempt, LinkDuplicate, NoDuplicate, CheckCancelled,
          Generate, Persist, AfterPersist, RecordOutcome, Project, PublishTerminal,
          ClearCancelled, ObserveTerminal, CleanupLock, ShowObserved, WorkerCrash
  <2>3. ASSUME \/ \E u \in Tasks : CancelTask(u) \/ ReceiptReconcile(u) \/ ReceiptCleanup(u)
               \/ \E h \in Threads : ProbeAcquire(h) \/ ProbeRelease(h) \/ ProbeDelete(h)
               \/ Tick \/ UNCHANGED vars
        PROVE UNCHANGED apc
    BY <2>3 DEF CancelTask, ReceiptReconcile, ReceiptCleanup, ProbeAcquire, ProbeRelease,
          ProbeDelete, Tick, vars
  <2>4. CASE ApiNext(t)
    <3>1. Release(t)
      BY <2>0, <2>4 DEF ApiNext, Acquire, AcquireRefused, AcquireError, RecoverProbe,
            RecoverReconcile, RecoverUnlock, Snapshot, Deadline, Renew, Create, Enqueue, Mark,
            Delete, ApiCrash, ApiGoto
    <3>2. MaybeLock(ThreadOf[t], ReleaseLock(lock[ThreadOf[t]], t, tok[t]))
      BY <3>1 DEF Release
    <3>3. QED
      BY <2>0, <3>2 DEF MaybeLock, SetLock, ReleaseLock, MatchesExpected
  <2>5. QED
    BY <2>0, <2>1, <2>2, <2>3, <2>4 DEF Next, Quiescent
<1>2. QED
  BY <1>1, Invariance, LeaseInvariance, PTL DEF Spec, ReleaseOnlyOwnLock
=============================================================================
