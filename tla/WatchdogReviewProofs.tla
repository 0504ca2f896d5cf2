------------------------ MODULE WatchdogReviewProofs ------------------------
(***************************************************************************)
(* What the review of a pull request guarantees for any number of pushes,    *)
(* workers and repeated envelopes, and whatever fails.                       *)
(***************************************************************************)
EXTENDS WatchdogReview, TLAPS

\* What a worker keeps in memory.
WorkerRecord == [pc : {"idle", "claim", "execute", "model", "finalize", "map", "error"},
                 head : Heads, out : ResultTerminal]

\* One dispatch pushes its envelopes once.
QueueOK == \A h \in Heads : /\ disp[h] = "none" => api[h] = "idle" /\ queue[h] = 0
                            /\ api[h] = "enqueue" => queue[h] = 0

\* The row locks: what a preparing transaction has selected stays nonterminal
\* until it commits, and no two transactions hold the same row.
PrepOK == /\ \A h \in Heads : prep[h].open => att[h] = "none"
          /\ \A h, k \in Heads : k \in prep[h].prior =>
                 att[k] \in {"prepared", "running"} /\ prep[h].open
          /\ \A g, h, k \in Heads : k \in prep[g].prior /\ k \in prep[h].prior => g = h

\* Attempt, snapshot and result agree.
ResultOK == \A h \in Heads :
    /\ cap[h] # "idle" => snap[h] = "none"
    /\ res[h] # "none" => snap[h] = "captured"
    /\ att[h] = "running" => res[h] = "running"
    /\ att[h] \in {"none", "prepared", "blocked_policy"} => res[h] = "none"
    /\ res[h] = "running" => att[h] \in {"running", "superseded"}
    /\ res[h] = "completed" => att[h] = "completed"
    /\ res[h] = "failed" => att[h] = "failed"
    /\ res[h] = "blocked_runtime_policy" => att[h] = "blocked"
    /\ res[h] = "discarded" => att[h] = "superseded"

Unclaimed == {"none", "pending_enqueue", "queued", "enqueue_failed"}
Busy == {"execute", "model", "finalize", "map", "error"}
Outcomes == {"completed", "failed", "blocked_runtime_policy"}

\* A worker past the claim is the only one, and its place says how far the
\* result is.
WorkOK == /\ \A w \in Workers :
              /\ wk[w].pc \in Busy => disp[wk[w].head] = "running"
              /\ wk[w].pc \in {"execute", "error"} => res[wk[w].head] = "none"
              /\ wk[w].pc \in {"model", "finalize"} => res[wk[w].head] = "running"
              /\ wk[w].pc = "model" => calls[wk[w].head] = 0
              /\ wk[w].pc = "finalize" => wk[w].out \in Outcomes
              /\ wk[w].pc = "map" => res[wk[w].head] \in ResultTerminal
          /\ \A v, w \in Workers : wk[v].pc \in Busy /\ wk[w].pc \in Busy
                                   /\ wk[v].head = wk[w].head => v = w

CallsOK == \A h \in Heads : /\ disp[h] \in Unclaimed => res[h] = "none"
                            /\ res[h] = "none" => calls[h] = 0
                            /\ calls[h] <= 1

Inv == TypeOK /\ QueueOK /\ PrepOK /\ ResultOK /\ WorkOK /\ CallsOK /\ DispatchTellsResult

-----------------------------------------------------------------------------
\* Nothing has happened in an initial state.
LEMMA InitInv == Init => Inv
<1> SUFFICES ASSUME Init PROVE Inv
  OBVIOUS
<1>1. TypeOK
  BY WatchdogAssumption DEF Init, TypeOK, Heads, NoTx, IdleWorker, AttemptStates, ResultTerminal
<1>2. PrepOK /\ QueueOK
  BY DEF Init, PrepOK, QueueOK, NoTx
<1>3. ResultOK /\ CallsOK /\ DispatchTellsResult
  BY DEF Init, ResultOK, CallsOK, DispatchTellsResult
<1>4. WorkOK
  BY DEF Init, WorkOK, IdleWorker, Busy
<1>5. QED
  BY <1>1, <1>2, <1>3, <1>4 DEF Inv

-----------------------------------------------------------------------------
(* Every action preserves the invariant                                     *)

\* A worker's memory keeps its shape when only its place changes.
LEMMA TypedWorkers ==
    ASSUME TypeOK
    PROVE wk \in [Workers -> WorkerRecord]
BY DEF TypeOK, WorkerRecord

\* A worker that moves on changes its own place and nothing else.
LEMMA PlaceUpdate ==
    ASSUME wk \in [Workers -> WorkerRecord], NEW w \in Workers,
           NEW s \in {"idle", "claim", "execute", "model", "finalize", "map", "error"},
           wk' = [wk EXCEPT ![w].pc = s]
    PROVE /\ wk' \in [Workers -> WorkerRecord]
          /\ wk'[w].pc = s /\ wk'[w].head = wk[w].head /\ wk'[w].out = wk[w].out
          /\ \A v \in Workers : v # w => wk'[v] = wk[v]
BY DEF WorkerRecord

\* A push changes only what GitHub reports.
LEMMA PushInv ==
    ASSUME Inv, Push
    PROVE Inv'
<1> USE WatchdogAssumption DEF Inv, Push, attVars, capVars, dispVars, workVars, faultVars, Fault
<1>1. TypeOK'
  <2>1. live' \in Heads
    BY DEF TypeOK, Heads
  <2>2. QED
    BY <2>1 DEF TypeOK
<1>2. QueueOK'
  BY DEF TypeOK, QueueOK, WorkOK, Busy
<1>3. PrepOK'
  BY DEF TypeOK, PrepOK, ResultOK, AttemptStates
<1>4. ResultOK'
  BY DEF TypeOK, PrepOK, ResultOK, WorkOK, AttemptStates, AttemptTerminal, ResultTerminal, Outcomes
<1>5. WorkOK'
  BY DEF TypeOK, ResultOK, WorkOK, CallsOK, Busy, Unclaimed, ResultTerminal, DispatchTerminal,
     Outcomes
<1>6. CallsOK'
  BY DEF TypeOK, ResultOK, WorkOK, CallsOK, Busy, Unclaimed, ResultTerminal, DispatchTerminal
<1>7. DispatchTellsResult'
  BY DEF TypeOK, PrepOK, ResultOK, WorkOK, CallsOK, DispatchTellsResult, Busy, Unclaimed,
     ResultTerminal, DispatchTerminal
<1>8. QED
  BY <1>1, <1>2, <1>3, <1>4, <1>5, <1>6, <1>7

\* The rows a receipt selects are nonterminal and nobody else's.
LEMMA PrepareInsertInv ==
    ASSUME Inv, NEW h \in Heads, PrepareInsert(h)
    PROVE Inv'
<1> USE WatchdogAssumption DEF Inv, PrepareInsert, _supersede_older_nonterminal_attempts,
   Locked, attVars, capVars, dispVars, workVars, faultVars, Fault
<1>1. TypeOK'
  BY DEF TypeOK, Heads, QueueOK, PrepOK, AttemptStates, AttemptTerminal, ResultTerminal,
     DispatchTerminal
<1>2. QueueOK'
  BY DEF TypeOK, QueueOK, WorkOK, Busy
<1>3. PrepOK'
  BY DEF TypeOK, PrepOK, ResultOK, AttemptStates
<1>4. ResultOK'
  BY DEF TypeOK, PrepOK, ResultOK, WorkOK, AttemptStates, AttemptTerminal, ResultTerminal, Outcomes
<1>5. WorkOK'
  BY DEF TypeOK, ResultOK, WorkOK, CallsOK, Busy, Unclaimed, ResultTerminal, DispatchTerminal,
     Outcomes
<1>6. CallsOK'
  BY DEF TypeOK, ResultOK, WorkOK, CallsOK, Busy, Unclaimed, ResultTerminal, DispatchTerminal
<1>7. DispatchTellsResult'
  BY DEF TypeOK, PrepOK, ResultOK, WorkOK, CallsOK, DispatchTellsResult, Busy, Unclaimed,
     ResultTerminal, DispatchTerminal
<1>8. QED
  BY <1>1, <1>2, <1>3, <1>4, <1>5, <1>6, <1>7

\* The superseded attempts were still nonterminal.
LEMMA PrepareCommitInv ==
    ASSUME Inv, NEW h \in Heads, PrepareCommit(h)
    PROVE Inv'
<1> USE WatchdogAssumption DEF Inv, PrepareCommit, NoTx, attVars, capVars, dispVars, workVars,
   faultVars, Fault
<1>1. TypeOK'
  <2>1. att' \in [Heads -> AttemptStates]
    BY DEF TypeOK, AttemptStates, AttemptTerminal
  <2>2. by' \in [Heads -> 0..MaxHead]
    BY DEF TypeOK, Heads
  <2>3. prep' \in [Heads -> [open : BOOLEAN, prior : SUBSET Heads]]
    BY DEF TypeOK
  <2>4. QED
    BY <2>1, <2>2, <2>3 DEF TypeOK, WorkerRecord
<1>2. QueueOK'
  BY DEF TypeOK, QueueOK, WorkOK, Busy
<1>3. PrepOK'
  <2>1. \A k \in Heads : prep'[k] = IF k = h THEN NoTx ELSE prep[k]
    BY DEF TypeOK
  <2>2. \A k \in Heads : k # h /\ k \notin prep[h].prior => att'[k] = att[k]
    OBVIOUS
  <2>3. \A k \in Heads : k # h => prep[k].prior \cap prep[h].prior = {} /\ h \notin prep[k].prior
    <3> SUFFICES ASSUME NEW k \in Heads, k # h
                 PROVE prep[k].prior \cap prep[h].prior = {} /\ h \notin prep[k].prior
      OBVIOUS
    <3>1. prep[k].prior \subseteq Heads /\ prep[h].prior \subseteq Heads
      BY DEF TypeOK
    <3>2. att[h] = "none"
      BY DEF PrepOK
    <3>3. h \notin prep[k].prior
      BY <3>2 DEF PrepOK
    <3>4. \A j \in Heads : ~(j \in prep[k].prior /\ j \in prep[h].prior)
      BY DEF PrepOK
    <3>5. QED
      BY ONLY <3>1, <3>3, <3>4
  <2>4. \A k \in Heads : k # h /\ prep[k].open => k \notin prep[h].prior
    BY DEF PrepOK
  <2>5. QED
    BY <2>1, <2>2, <2>3, <2>4 DEF TypeOK, PrepOK
<1>4. ResultOK'
  BY DEF TypeOK, PrepOK, ResultOK, WorkOK, AttemptStates, AttemptTerminal, ResultTerminal, Outcomes
<1>5. WorkOK'
  BY DEF TypeOK, ResultOK, WorkOK, CallsOK, Busy, Unclaimed, ResultTerminal, DispatchTerminal,
     Outcomes
<1>6. CallsOK'
  BY DEF TypeOK, ResultOK, WorkOK, CallsOK, Busy, Unclaimed, ResultTerminal, DispatchTerminal
<1>7. DispatchTellsResult'
  BY DEF TypeOK, PrepOK, ResultOK, WorkOK, CallsOK, DispatchTellsResult, Busy, Unclaimed,
     ResultTerminal, DispatchTerminal
<1>8. QED
  BY <1>1, <1>2, <1>3, <1>4, <1>5, <1>6, <1>7

\* A rollback releases the rows.
LEMMA PrepareRollbackInv ==
    ASSUME Inv, NEW h \in Heads, PrepareRollback(h)
    PROVE Inv'
<1> USE WatchdogAssumption DEF Inv, PrepareRollback, NoTx, attVars, capVars, dispVars, workVars,
   faultVars, Fault
<1>1. TypeOK'
  <2>1. prep' \in [Heads -> [open : BOOLEAN, prior : SUBSET Heads]]
    BY DEF TypeOK
  <2>2. faults' \in 0..MaxFaults
    BY DEF TypeOK
  <2>3. QED
    BY <2>1, <2>2 DEF TypeOK, WorkerRecord
<1>2. QueueOK'
  BY DEF TypeOK, QueueOK, WorkOK, Busy
<1>3. PrepOK'
  BY DEF TypeOK, PrepOK, ResultOK, AttemptStates
<1>4. ResultOK'
  BY DEF TypeOK, PrepOK, ResultOK, WorkOK, AttemptStates, AttemptTerminal, ResultTerminal, Outcomes
<1>5. WorkOK'
  BY DEF TypeOK, ResultOK, WorkOK, CallsOK, Busy, Unclaimed, ResultTerminal, DispatchTerminal,
     Outcomes
<1>6. CallsOK'
  BY DEF TypeOK, ResultOK, WorkOK, CallsOK, Busy, Unclaimed, ResultTerminal, DispatchTerminal
<1>7. DispatchTellsResult'
  BY DEF TypeOK, PrepOK, ResultOK, WorkOK, CallsOK, DispatchTellsResult, Busy, Unclaimed,
     ResultTerminal, DispatchTerminal
<1>8. QED
  BY <1>1, <1>2, <1>3, <1>4, <1>5, <1>6, <1>7

\* A capture starts before there is a snapshot.
LEMMA CaptureStartInv ==
    ASSUME Inv, NEW h \in Heads, CaptureStart(h)
    PROVE Inv'
<1> USE WatchdogAssumption DEF Inv, CaptureStart, CaptureGoto, HeadMatches, attVars, capVars,
   dispVars, workVars, faultVars, Fault
<1>1. TypeOK'
  BY DEF TypeOK, Heads, QueueOK, PrepOK, AttemptStates, AttemptTerminal, ResultTerminal,
     DispatchTerminal
<1>2. QueueOK'
  BY DEF TypeOK, QueueOK, WorkOK, Busy
<1>3. PrepOK'
  BY DEF TypeOK, PrepOK, ResultOK, AttemptStates
<1>4. ResultOK'
  BY DEF TypeOK, PrepOK, ResultOK, WorkOK, AttemptStates, AttemptTerminal, ResultTerminal, Outcomes
<1>5. WorkOK'
  BY DEF TypeOK, ResultOK, WorkOK, CallsOK, Busy, Unclaimed, ResultTerminal, DispatchTerminal,
     Outcomes
<1>6. CallsOK'
  BY DEF TypeOK, ResultOK, WorkOK, CallsOK, Busy, Unclaimed, ResultTerminal, DispatchTerminal
<1>7. DispatchTellsResult'
  BY DEF TypeOK, PrepOK, ResultOK, WorkOK, CallsOK, DispatchTellsResult, Busy, Unclaimed,
     ResultTerminal, DispatchTerminal
<1>8. QED
  BY <1>1, <1>2, <1>3, <1>4, <1>5, <1>6, <1>7

\* Reading the files changes no row.
LEMMA CaptureFilesInv ==
    ASSUME Inv, NEW h \in Heads, CaptureFiles(h)
    PROVE Inv'
<1> USE WatchdogAssumption DEF Inv, CaptureFiles, CaptureGoto, HeadMatches, attVars, capVars,
   dispVars, workVars, faultVars, Fault
<1>1. TypeOK'
  <2>1. cap' \in [Heads -> {"idle", "files", "captured", "blocked"}]
    <3>1. PICK s \in {"captured", "blocked"} : cap' = [cap EXCEPT ![h] = s]
      OBVIOUS
    <3>2. cap \in [Heads -> {"idle", "files", "captured", "blocked"}]
      BY DEF TypeOK
    <3>3. QED
      BY ONLY <3>1, <3>2
  <2>2. QED
    BY <2>1 DEF TypeOK, WorkerRecord
<1>2. QueueOK'
  BY DEF TypeOK, QueueOK, WorkOK, Busy
<1>3. PrepOK'
  BY DEF TypeOK, PrepOK, ResultOK, AttemptStates
<1>4. ResultOK'
  BY DEF TypeOK, PrepOK, ResultOK, WorkOK, AttemptStates, AttemptTerminal, ResultTerminal, Outcomes
<1>5. WorkOK'
  BY DEF TypeOK, ResultOK, WorkOK, CallsOK, Busy, Unclaimed, ResultTerminal, DispatchTerminal,
     Outcomes
<1>6. CallsOK'
  BY DEF TypeOK, ResultOK, WorkOK, CallsOK, Busy, Unclaimed, ResultTerminal, DispatchTerminal
<1>7. DispatchTellsResult'
  BY DEF TypeOK, PrepOK, ResultOK, WorkOK, CallsOK, DispatchTellsResult, Busy, Unclaimed,
     ResultTerminal, DispatchTerminal
<1>8. QED
  BY <1>1, <1>2, <1>3, <1>4, <1>5, <1>6, <1>7

\* The one snapshot is written before any result.
LEMMA PersistSnapshotInv ==
    ASSUME Inv, NEW h \in Heads, PersistSnapshot(h)
    PROVE Inv'
<1> USE WatchdogAssumption DEF Inv, PersistSnapshot, CaptureGoto, attVars, capVars, dispVars,
   workVars, faultVars, Fault
<1>1. TypeOK'
  BY DEF TypeOK, Heads, QueueOK, PrepOK, AttemptStates, AttemptTerminal, ResultTerminal,
     DispatchTerminal
<1>2. QueueOK'
  BY DEF TypeOK, QueueOK, WorkOK, Busy
<1>3. PrepOK'
  BY DEF TypeOK, PrepOK, ResultOK, AttemptStates
<1>4. ResultOK'
  BY DEF TypeOK, PrepOK, ResultOK, WorkOK, AttemptStates, AttemptTerminal, ResultTerminal, Outcomes
<1>5. WorkOK'
  BY DEF TypeOK, ResultOK, WorkOK, CallsOK, Busy, Unclaimed, ResultTerminal, DispatchTerminal,
     Outcomes
<1>6. CallsOK'
  BY DEF TypeOK, ResultOK, WorkOK, CallsOK, Busy, Unclaimed, ResultTerminal, DispatchTerminal
<1>7. DispatchTellsResult'
  BY DEF TypeOK, PrepOK, ResultOK, WorkOK, CallsOK, DispatchTellsResult, Busy, Unclaimed,
     ResultTerminal, DispatchTerminal
<1>8. QED
  BY <1>1, <1>2, <1>3, <1>4, <1>5, <1>6, <1>7

\* The dispatch row is created once.
LEMMA CreateIntentInv ==
    ASSUME Inv, NEW h \in Heads, CreateIntent(h)
    PROVE Inv'
<1> USE WatchdogAssumption DEF Inv, CreateIntent, DispatchEligible, Locked, attVars, capVars,
   dispVars, workVars, faultVars, Fault
<1>1. TypeOK'
  BY DEF TypeOK, Heads, QueueOK, PrepOK, AttemptStates, AttemptTerminal, ResultTerminal,
     DispatchTerminal
<1>2. QueueOK'
  BY DEF TypeOK, QueueOK, WorkOK, Busy
<1>3. PrepOK'
  BY DEF TypeOK, PrepOK, ResultOK, AttemptStates
<1>4. ResultOK'
  BY DEF TypeOK, PrepOK, ResultOK, WorkOK, AttemptStates, AttemptTerminal, ResultTerminal, Outcomes
<1>5. WorkOK'
  BY DEF TypeOK, ResultOK, WorkOK, CallsOK, Busy, Unclaimed, ResultTerminal, DispatchTerminal,
     Outcomes
<1>6. CallsOK'
  BY DEF TypeOK, ResultOK, WorkOK, CallsOK, Busy, Unclaimed, ResultTerminal, DispatchTerminal
<1>7. DispatchTellsResult'
  BY DEF TypeOK, PrepOK, ResultOK, WorkOK, CallsOK, DispatchTellsResult, Busy, Unclaimed,
     ResultTerminal, DispatchTerminal
<1>8. QED
  BY <1>1, <1>2, <1>3, <1>4, <1>5, <1>6, <1>7

\* Its envelopes are pushed once.
LEMMA EnqueueInv ==
    ASSUME Inv, NEW h \in Heads, Enqueue(h)
    PROVE Inv'
<1> USE WatchdogAssumption DEF Inv, Enqueue, attVars, capVars, dispVars, workVars, faultVars, Fault
<1>1. TypeOK'
  <2>1. faults' \in 0..MaxFaults
    BY DEF TypeOK
  <2>2. queue' \in [Heads -> 0..MaxCopies]
    BY DEF TypeOK, QueueOK
  <2>3. api' \in [Heads -> {"idle", "enqueue", "accepted", "refused"}]
    BY DEF TypeOK
  <2>4. QED
    BY <2>1, <2>2, <2>3 DEF TypeOK, WorkerRecord
<1>2. QueueOK'
  BY DEF TypeOK, QueueOK, WorkOK, Busy
<1>3. PrepOK'
  BY DEF TypeOK, PrepOK, ResultOK, AttemptStates
<1>4. ResultOK'
  BY DEF TypeOK, PrepOK, ResultOK, WorkOK, AttemptStates, AttemptTerminal, ResultTerminal, Outcomes
<1>5. WorkOK'
  BY DEF TypeOK, ResultOK, WorkOK, CallsOK, Busy, Unclaimed, ResultTerminal, DispatchTerminal,
     Outcomes
<1>6. CallsOK'
  BY DEF TypeOK, ResultOK, WorkOK, CallsOK, Busy, Unclaimed, ResultTerminal, DispatchTerminal
<1>7. DispatchTellsResult'
  BY DEF TypeOK, PrepOK, ResultOK, WorkOK, CallsOK, DispatchTellsResult, Busy, Unclaimed,
     ResultTerminal, DispatchTerminal
<1>8. QED
  BY <1>1, <1>2, <1>3, <1>4, <1>5, <1>6, <1>7

\* The outcome of the push is written over a pending row only.
LEMMA PersistEnqueueOutcomeInv ==
    ASSUME Inv, NEW h \in Heads, PersistEnqueueOutcome(h)
    PROVE Inv'
<1> USE WatchdogAssumption DEF Inv, PersistEnqueueOutcome, attVars, capVars, dispVars, workVars,
   faultVars, Fault
<1>1. TypeOK'
  BY DEF TypeOK, Heads, QueueOK, PrepOK, AttemptStates, AttemptTerminal, ResultTerminal,
     DispatchTerminal
<1>2. QueueOK'
  BY DEF TypeOK, QueueOK, WorkOK, Busy
<1>3. PrepOK'
  BY DEF TypeOK, PrepOK, ResultOK, AttemptStates
<1>4. ResultOK'
  BY DEF TypeOK, PrepOK, ResultOK, WorkOK, AttemptStates, AttemptTerminal, ResultTerminal, Outcomes
<1>5. WorkOK'
  BY DEF TypeOK, ResultOK, WorkOK, CallsOK, Busy, Unclaimed, ResultTerminal, DispatchTerminal,
     Outcomes
<1>6. CallsOK'
  BY DEF TypeOK, ResultOK, WorkOK, CallsOK, Busy, Unclaimed, ResultTerminal, DispatchTerminal
<1>7. DispatchTellsResult'
  BY DEF TypeOK, PrepOK, ResultOK, WorkOK, CallsOK, DispatchTellsResult, Busy, Unclaimed,
     ResultTerminal, DispatchTerminal
<1>8. QED
  BY <1>1, <1>2, <1>3, <1>4, <1>5, <1>6, <1>7

\* A dead request pushes no more.
LEMMA DispatchCrashInv ==
    ASSUME Inv, NEW h \in Heads, DispatchCrash(h)
    PROVE Inv'
<1> USE WatchdogAssumption DEF Inv, DispatchCrash, attVars, capVars, dispVars, workVars,
   faultVars, Fault
<1>1. TypeOK'
  <2>1. faults' \in 0..MaxFaults
    BY DEF TypeOK
  <2>2. api' \in [Heads -> {"idle", "enqueue", "accepted", "refused"}]
    BY DEF TypeOK
  <2>3. QED
    BY <2>1, <2>2 DEF TypeOK, WorkerRecord
<1>2. QueueOK'
  BY DEF TypeOK, QueueOK, WorkOK, Busy
<1>3. PrepOK'
  BY DEF TypeOK, PrepOK, ResultOK, AttemptStates
<1>4. ResultOK'
  BY DEF TypeOK, PrepOK, ResultOK, WorkOK, AttemptStates, AttemptTerminal, ResultTerminal, Outcomes
<1>5. WorkOK'
  BY DEF TypeOK, ResultOK, WorkOK, CallsOK, Busy, Unclaimed, ResultTerminal, DispatchTerminal,
     Outcomes
<1>6. CallsOK'
  BY DEF TypeOK, ResultOK, WorkOK, CallsOK, Busy, Unclaimed, ResultTerminal, DispatchTerminal
<1>7. DispatchTellsResult'
  BY DEF TypeOK, PrepOK, ResultOK, WorkOK, CallsOK, DispatchTellsResult, Busy, Unclaimed,
     ResultTerminal, DispatchTerminal
<1>8. QED
  BY <1>1, <1>2, <1>3, <1>4, <1>5, <1>6, <1>7

\* An envelope in hand is no claim.
LEMMA DequeueInv ==
    ASSUME Inv, NEW w \in Workers, NEW h \in Heads, Dequeue(w, h)
    PROVE Inv'
<1> USE WatchdogAssumption DEF Inv, Dequeue, attVars, capVars, dispVars, workVars, faultVars, Fault
<1>1. TypeOK'
  <2>1. queue' \in [Heads -> 0..MaxCopies]
    BY DEF TypeOK, QueueOK
  <2>2. wk' \in [Workers -> WorkerRecord]
    BY DEF TypeOK, WorkerRecord, ResultTerminal
  <2>3. QED
    BY <2>1, <2>2 DEF TypeOK, WorkerRecord
<1>2. QueueOK'
  BY DEF TypeOK, QueueOK, WorkOK, Busy
<1>3. PrepOK'
  BY DEF TypeOK, PrepOK, ResultOK, AttemptStates
<1>4. ResultOK'
  BY DEF TypeOK, PrepOK, ResultOK, WorkOK, AttemptStates, AttemptTerminal, ResultTerminal, Outcomes
<1>5. WorkOK'
  BY DEF TypeOK, ResultOK, WorkOK, CallsOK, Busy, Unclaimed, ResultTerminal, DispatchTerminal,
     Outcomes
<1>6. CallsOK'
  BY DEF TypeOK, ResultOK, WorkOK, CallsOK, Busy, Unclaimed, ResultTerminal, DispatchTerminal
<1>7. DispatchTellsResult'
  BY DEF TypeOK, PrepOK, ResultOK, WorkOK, CallsOK, DispatchTellsResult, Busy, Unclaimed,
     ResultTerminal, DispatchTerminal
<1>8. QED
  BY <1>1, <1>2, <1>3, <1>4, <1>5, <1>6, <1>7

\* A claim finds no result and nobody else at work.
LEMMA ClaimDispatchInv ==
    ASSUME Inv, NEW w \in Workers, ClaimDispatch(w)
    PROVE Inv'
<1> USE WatchdogAssumption DEF Inv
<1> DEFINE h == wk[w].head
<1>1. UNCHANGED <<live, prep, att, by, snap, cap, api, queue, res, calls, faults, dropped>>
  BY DEF ClaimDispatch, attVars, capVars, faultVars
<1>2. wk[w].pc = "claim" /\ h \in Heads /\ wk \in [Workers -> WorkerRecord]
  BY TypedWorkers DEF ClaimDispatch, WorkerRecord
<1>3. disp[h] = "queued" => res[h] = "none" /\ calls[h] = 0
  BY <1>2 DEF CallsOK, Unclaimed
<1>4. \/ wk' = [wk EXCEPT ![w].pc = "idle"] /\ disp' = disp
      \/ /\ disp[h] = "queued" /\ wk' = [wk EXCEPT ![w].pc = "idle"]
         /\ \/ att[h] = "superseded" /\ disp' = [disp EXCEPT ![h] = "discarded"]
            \/ disp' = [disp EXCEPT ![h] = "failed"]
      \/ /\ disp[h] = "queued" /\ wk' = [wk EXCEPT ![w].pc = "execute"]
         /\ disp' = [disp EXCEPT ![h] = "running"]
  BY <1>2, <1>3 DEF ClaimDispatch, WorkGoto, Claimable, ResultTerminal
<1>5. TypeOK'
  <2>1. wk' \in [Workers -> WorkerRecord]
    BY <1>2, <1>4, PlaceUpdate
  <2>2. disp' \in [Heads -> {"none", "pending_enqueue", "queued", "running"} \cup DispatchTerminal]
    BY <1>2, <1>4 DEF TypeOK, DispatchTerminal
  <2>3. QED
    BY <1>1, <2>1, <2>2 DEF TypeOK, WorkerRecord
<1>6. QueueOK'
  BY <1>1, <1>2, <1>4 DEF TypeOK, QueueOK
<1>7. PrepOK' /\ ResultOK'
  BY <1>1 DEF PrepOK, ResultOK
<1>8. WorkOK'
  <2>1. CASE disp' = disp /\ wk' = [wk EXCEPT ![w].pc = "idle"]
    BY <1>1, <1>2, <2>1, PlaceUpdate DEF WorkOK, Busy
  <2>2. CASE disp[h] = "queued" /\ wk' = [wk EXCEPT ![w].pc = "idle"]
             /\ \E d \in DispatchTerminal : disp' = [disp EXCEPT ![h] = d]
    <3>1. \A v \in Workers : wk[v].head \in Heads /\ (wk[v].pc \in Busy => wk[v].head # h)
      BY <1>2, <2>2 DEF WorkOK, WorkerRecord
    <3>2. wk'[w].pc = "idle" /\ \A v \in Workers : v # w => wk'[v] = wk[v]
      BY <1>2, <2>2, PlaceUpdate
    <3>3. \A k \in Heads : k # h => disp'[k] = disp[k]
      BY <1>2, <2>2 DEF TypeOK
    <3>4. QED
      BY <1>1, <3>1, <3>2, <3>3 DEF WorkOK, Busy
  <2>3. CASE disp[h] = "queued" /\ wk' = [wk EXCEPT ![w].pc = "execute"]
             /\ disp' = [disp EXCEPT ![h] = "running"]
    <3>1. \A v \in Workers : wk[v].pc \in Busy => wk[v].head # h
      BY <2>3 DEF WorkOK
    <3>2. /\ wk'[w].pc = "execute" /\ wk'[w].head = h
          /\ \A v \in Workers : v # w => wk'[v] = wk[v]
      BY <1>2, <2>3, PlaceUpdate
    <3>3. disp'[h] = "running" /\ \A k \in Heads : k # h => disp'[k] = disp[k]
      BY <1>2, <2>3 DEF TypeOK
    <3>4. \A v \in Workers : wk[v].head \in Heads
      BY <1>2 DEF WorkerRecord
    <3>5. QED
      BY <1>1, <1>2, <1>3, <2>3, <3>1, <3>2, <3>3, <3>4 DEF WorkOK, Busy
  <2>4. QED
    BY <1>4, <2>1, <2>2, <2>3 DEF DispatchTerminal
<1>9. CallsOK' /\ DispatchTellsResult'
  BY <1>1, <1>2, <1>3, <1>4 DEF TypeOK, CallsOK, DispatchTellsResult, Unclaimed
<1>10. QED
  BY <1>5, <1>6, <1>7, <1>8, <1>9

\* The result row is created by the worker that claimed.
LEMMA ClaimOrExistingInv ==
    ASSUME Inv, NEW w \in Workers, ClaimOrExisting(w)
    PROVE Inv'
<1> USE WatchdogAssumption DEF Inv
<1> DEFINE h == wk[w].head
<1>1. UNCHANGED <<live, prep, by, snap, cap, disp, api, queue, calls, faults, dropped>>
  BY DEF ClaimOrExisting, capVars, dispVars, faultVars
<1>2. /\ wk[w].pc = "execute" /\ h \in Heads /\ wk \in [Workers -> WorkerRecord]
      /\ disp[h] = "running" /\ res[h] = "none" /\ calls[h] = 0
  BY TypedWorkers DEF ClaimOrExisting, WorkerRecord, WorkOK, CallsOK, Busy
<1>3. \A v \in Workers : v # w /\ wk[v].pc \in Busy => wk[v].head # h
  BY <1>2 DEF WorkOK, Busy
<1>4. CASE att[h] = "prepared" /\ snap[h] = "captured"
  <2>1. /\ res' = [res EXCEPT ![h] = "running"] /\ att' = [att EXCEPT ![h] = "running"]
        /\ wk' = [wk EXCEPT ![w].pc = "model"]
        /\ \A k \in Heads : prep[k].open => h \notin prep[k].prior
    BY <1>2, <1>4 DEF ClaimOrExisting, WorkGoto, Locked
  <2>2. /\ wk'[w].pc = "model" /\ wk'[w].head = h /\ wk' \in [Workers -> WorkerRecord]
        /\ \A v \in Workers : v # w => wk'[v] = wk[v]
    BY <1>2, <2>1, PlaceUpdate
  <2>3. /\ res'[h] = "running" /\ att'[h] = "running"
        /\ \A k \in Heads : k # h => res'[k] = res[k] /\ att'[k] = att[k]
    BY <1>2, <2>1 DEF TypeOK
  <2>4. TypeOK'
    BY <1>1, <1>2, <2>1, <2>2 DEF TypeOK, WorkerRecord, AttemptStates
  <2>5. QueueOK' /\ ResultOK'
    BY <1>1, <1>2, <1>4, <2>3 DEF QueueOK, ResultOK
  <2>6. PrepOK'
    BY <1>1, <1>4, <2>1, <2>3 DEF PrepOK
  <2>7. WorkOK'
    <3>1. \A v \in Workers : wk[v].head \in Heads
      BY <1>2 DEF WorkerRecord
    <3>2. QED
      BY <1>1, <1>2, <1>3, <2>2, <2>3, <3>1 DEF WorkOK, Busy
  <2>8. CallsOK' /\ DispatchTellsResult'
    BY <1>1, <1>2, <1>4, <2>3 DEF CallsOK, DispatchTellsResult, Unclaimed
  <2>9. QED
    BY <2>4, <2>5, <2>6, <2>7, <2>8
<1>5. CASE ~(att[h] = "prepared" /\ snap[h] = "captured")
  <2>1. UNCHANGED <<att, res>> /\ wk' = [wk EXCEPT ![w].pc = "error"]
    BY <1>2, <1>5 DEF ClaimOrExisting, WorkGoto
  <2>2. /\ wk'[w].pc = "error" /\ wk'[w].head = h /\ wk' \in [Workers -> WorkerRecord]
        /\ \A v \in Workers : v # w => wk'[v] = wk[v]
    BY <1>2, <2>1, PlaceUpdate
  <2>3. TypeOK'
    BY <1>1, <2>1, <2>2 DEF TypeOK, WorkerRecord
  <2>4. QueueOK' /\ ResultOK' /\ PrepOK' /\ CallsOK' /\ DispatchTellsResult'
    BY <1>1, <2>1 DEF QueueOK, ResultOK, PrepOK, CallsOK, DispatchTellsResult
  <2>5. WorkOK'
    BY <1>1, <1>2, <1>3, <2>1, <2>2 DEF WorkOK, Busy
  <2>6. QED
    BY <2>3, <2>4, <2>5
<1>6. QED
  BY <1>4, <1>5

\* The model is called from one place, once.
LEMMA InvokeModelInv ==
    ASSUME Inv, NEW w \in Workers, InvokeModel(w)
    PROVE Inv'
<1> USE WatchdogAssumption DEF Inv
<1> DEFINE h == wk[w].head
<1>1. UNCHANGED <<live, prep, att, by, snap, cap, disp, api, queue, res, faults, dropped>>
  BY DEF InvokeModel, attVars, capVars, dispVars, faultVars
<1>2. /\ wk[w].pc = "model" /\ h \in Heads /\ wk \in [Workers -> WorkerRecord]
      /\ disp[h] = "running" /\ res[h] = "running" /\ calls[h] = 0
  BY TypedWorkers DEF InvokeModel, WorkerRecord, WorkOK, Busy
<1>3. \A v \in Workers : v # w /\ wk[v].pc \in Busy => wk[v].head # h
  BY <1>2 DEF WorkOK, Busy
<1>4. PICK o \in Outcomes : wk' = [wk EXCEPT ![w] = [@ EXCEPT !.pc = "finalize", !.out = o]]
  BY DEF InvokeModel, Outcomes
<1>5. /\ wk'[w].pc = "finalize" /\ wk'[w].head = h /\ wk'[w].out \in Outcomes
      /\ wk' \in [Workers -> WorkerRecord] /\ \A v \in Workers : v # w => wk'[v] = wk[v]
  BY <1>2, <1>4 DEF WorkerRecord, Outcomes, ResultTerminal
<1>6. /\ calls' \in [Heads -> Nat] /\ calls'[h] \in {0, 1}
      /\ \A k \in Heads : k # h => calls'[k] = calls[k]
  BY <1>2 DEF InvokeModel, TypeOK
<1>7. TypeOK'
  BY <1>1, <1>5, <1>6 DEF TypeOK, WorkerRecord
<1>8. QueueOK' /\ ResultOK' /\ PrepOK'
  BY <1>1 DEF QueueOK, ResultOK, PrepOK
<1>9. WorkOK'
  <2>1. \A v \in Workers : wk[v].head \in Heads
    BY <1>2 DEF WorkerRecord
  <2>2. QED
    BY <1>1, <1>2, <1>3, <1>5, <1>6, <2>1 DEF WorkOK, Busy
<1>10. CallsOK' /\ DispatchTellsResult'
  BY <1>1, <1>2, <1>6 DEF CallsOK, DispatchTellsResult, Unclaimed
<1>11. QED
  BY <1>7, <1>8, <1>9, <1>10

\* A result of a superseded attempt is discarded.
LEMMA FinalizeInv ==
    ASSUME Inv, NEW w \in Workers, Finalize(w)
    PROVE Inv'
<1> USE WatchdogAssumption DEF Inv
<1> DEFINE h == wk[w].head
<1>1. UNCHANGED <<live, prep, by, snap, cap, disp, api, queue, calls, faults, dropped>>
  BY DEF Finalize, capVars, dispVars, faultVars
<1>2. /\ wk[w].pc = "finalize" /\ h \in Heads /\ wk \in [Workers -> WorkerRecord]
      /\ disp[h] = "running" /\ res[h] = "running" /\ wk[w].out \in Outcomes
  BY TypedWorkers DEF Finalize, WorkerRecord, WorkOK, Busy
<1>3. \A v \in Workers : v # w /\ wk[v].pc \in Busy => wk[v].head # h
  BY <1>2 DEF WorkOK, Busy
<1>4. /\ wk'[w].pc = "map" /\ wk'[w].head = h /\ wk' \in [Workers -> WorkerRecord]
      /\ \A v \in Workers : v # w => wk'[v] = wk[v]
  BY <1>2, PlaceUpdate DEF Finalize, WorkGoto
<1>5. att[h] \in {"running", "superseded"} /\ snap[h] = "captured"
  BY <1>2 DEF ResultOK
<1>6. /\ res' = [res EXCEPT ![h] = FinalState(h, wk[w].out)]
      /\ att' = IF att[h] = "superseded" THEN att ELSE [att EXCEPT ![h] = AttemptOf(wk[w].out)]
  BY <1>2 DEF Finalize
<1>7. \A k \in Heads : k # h => res'[k] = res[k] /\ att'[k] = att[k]
  BY <1>2, <1>6 DEF TypeOK
<1>8. \/ res'[h] = "discarded" /\ att'[h] = "superseded"
      \/ res'[h] = "completed" /\ att'[h] = "completed"
      \/ res'[h] = "failed" /\ att'[h] = "failed"
      \/ res'[h] = "blocked_runtime_policy" /\ att'[h] = "blocked"
  BY <1>2, <1>5, <1>6 DEF TypeOK, FinalState, AttemptOf, Outcomes
<1>9. TypeOK'
  <2>1. res' \in [Heads -> {"none", "running"} \cup ResultTerminal]
    BY <1>2, <1>6 DEF TypeOK, FinalState, Outcomes, ResultTerminal
  <2>2. att' \in [Heads -> AttemptStates]
    BY <1>2, <1>6 DEF TypeOK, AttemptOf, Outcomes, AttemptStates, AttemptTerminal
  <2>3. QED
    BY <1>1, <1>4, <2>1, <2>2 DEF TypeOK, WorkerRecord
<1>10. QueueOK' /\ ResultOK'
  BY <1>1, <1>2, <1>5, <1>7, <1>8 DEF QueueOK, ResultOK
<1>11. PrepOK'
  <2>1. \A k \in Heads : h \notin prep[k].prior
    BY <1>2 DEF Finalize, Locked, PrepOK
  <2>2. QED
    BY <1>1, <1>5, <1>7, <2>1 DEF PrepOK
<1>12. WorkOK'
  <2>1. \A v \in Workers : wk[v].head \in Heads
    BY <1>2 DEF WorkerRecord
  <2>2. QED
    BY <1>1, <1>2, <1>3, <1>4, <1>7, <1>8, <2>1 DEF WorkOK, Busy, ResultTerminal
<1>13. CallsOK' /\ DispatchTellsResult'
  BY <1>1, <1>2, <1>7, <1>8 DEF CallsOK, DispatchTellsResult, Unclaimed
<1>14. QED
  BY <1>9, <1>10, <1>11, <1>12, <1>13

\* The dispatch is closed with the result.
LEMMA MapExecutionResultInv ==
    ASSUME Inv, NEW w \in Workers, MapExecutionResult(w)
    PROVE Inv'
<1> USE WatchdogAssumption DEF Inv
<1> DEFINE h == wk[w].head
<1>1. UNCHANGED <<live, prep, att, by, snap, cap, api, queue, res, calls, faults, dropped>>
  BY DEF MapExecutionResult, attVars, capVars, faultVars
<1>2. /\ wk[w].pc = "map" /\ h \in Heads /\ wk \in [Workers -> WorkerRecord]
      /\ disp[h] = "running" /\ res[h] \in ResultTerminal
  BY TypedWorkers DEF MapExecutionResult, WorkerRecord, WorkOK, Busy
<1>3. \A v \in Workers : v # w /\ wk[v].pc \in Busy => wk[v].head # h
  BY <1>2 DEF WorkOK, Busy
<1>4. /\ wk'[w].pc = "idle" /\ wk' \in [Workers -> WorkerRecord]
      /\ \A v \in Workers : v # w => wk'[v] = wk[v]
  BY <1>2, PlaceUpdate DEF MapExecutionResult, WorkGoto
<1>5. disp' = [disp EXCEPT ![h] = DispatchOf(res[h])]
  BY <1>2 DEF MapExecutionResult, MapResult, DispatchTerminal
<1>6. disp'[h] \in DispatchTerminal /\ \A k \in Heads : k # h => disp'[k] = disp[k]
  BY <1>2, <1>5 DEF TypeOK, DispatchTerminal, ResultTerminal, DispatchOf
<1>7. TypeOK'
  <2>1. disp' \in [Heads -> {"none", "pending_enqueue", "queued", "running"} \cup DispatchTerminal]
    BY <1>2, <1>5 DEF TypeOK, DispatchTerminal, ResultTerminal, DispatchOf
  <2>2. QED
    BY <1>1, <1>4, <2>1 DEF TypeOK, WorkerRecord
<1>8. QueueOK' /\ ResultOK' /\ PrepOK'
  BY <1>1, <1>2, <1>6 DEF QueueOK, ResultOK, PrepOK, DispatchTerminal
<1>9. WorkOK'
  <2>1. \A v \in Workers : wk[v].head \in Heads
    BY <1>2 DEF WorkerRecord
  <2>2. QED
    BY <1>1, <1>3, <1>4, <1>6, <2>1 DEF WorkOK, Busy
<1>10. CallsOK'
  BY <1>1, <1>2, <1>5, <1>6 DEF TypeOK, CallsOK, Unclaimed, DispatchOf, ResultTerminal
<1>11. DispatchTellsResult'
  BY <1>1, <1>2, <1>5, <1>6 DEF TypeOK, DispatchTellsResult, ResultOK, DispatchOf, ResultTerminal
<1>12. QED
  BY <1>7, <1>8, <1>9, <1>10, <1>11

\* An error closes a dispatch without a result.
LEMMA HandleExecutionErrorInv ==
    ASSUME Inv, NEW w \in Workers, HandleExecutionError(w)
    PROVE Inv'
<1> USE WatchdogAssumption DEF Inv
<1> DEFINE h == wk[w].head
<1>1. UNCHANGED <<live, prep, att, by, snap, cap, api, queue, res, calls, faults, dropped>>
  BY DEF HandleExecutionError, attVars, capVars, faultVars
<1>2. /\ wk[w].pc = "error" /\ h \in Heads /\ wk \in [Workers -> WorkerRecord]
      /\ disp[h] = "running" /\ res[h] = "none"
  BY TypedWorkers DEF HandleExecutionError, WorkerRecord, WorkOK, Busy
<1>3. \A v \in Workers : v # w /\ wk[v].pc \in Busy => wk[v].head # h
  BY <1>2 DEF WorkOK, Busy
<1>4. /\ wk'[w].pc = "idle" /\ wk' \in [Workers -> WorkerRecord]
      /\ \A v \in Workers : v # w => wk'[v] = wk[v]
  BY <1>2, PlaceUpdate DEF HandleExecutionError, WorkGoto
<1>5. disp' = [disp EXCEPT ![h] = IF att[h] = "superseded" THEN "discarded" ELSE "failed"]
  BY <1>2 DEF HandleExecutionError
<1>6. disp'[h] \in DispatchTerminal /\ \A k \in Heads : k # h => disp'[k] = disp[k]
  BY <1>2, <1>5 DEF TypeOK, DispatchTerminal, ResultTerminal, DispatchOf
<1>7. TypeOK'
  <2>1. disp' \in [Heads -> {"none", "pending_enqueue", "queued", "running"} \cup DispatchTerminal]
    BY <1>2, <1>5 DEF TypeOK, DispatchTerminal, ResultTerminal, DispatchOf
  <2>2. QED
    BY <1>1, <1>4, <2>1 DEF TypeOK, WorkerRecord
<1>8. QueueOK' /\ ResultOK' /\ PrepOK'
  BY <1>1, <1>2, <1>6 DEF QueueOK, ResultOK, PrepOK, DispatchTerminal
<1>9. WorkOK'
  <2>1. \A v \in Workers : wk[v].head \in Heads
    BY <1>2 DEF WorkerRecord
  <2>2. QED
    BY <1>1, <1>3, <1>4, <1>6, <2>1 DEF WorkOK, Busy
<1>10. CallsOK'
  BY <1>1, <1>2, <1>5, <1>6 DEF TypeOK, CallsOK, Unclaimed, DispatchOf, ResultTerminal
<1>11. DispatchTellsResult'
  BY <1>1, <1>2, <1>5, <1>6 DEF TypeOK, DispatchTellsResult, ResultOK, DispatchOf, ResultTerminal
<1>12. QED
  BY <1>7, <1>8, <1>9, <1>10, <1>11

\* A dead worker leaves rows and result as they are.
LEMMA WorkerCrashInv ==
    ASSUME Inv, NEW w \in Workers, WorkerCrash(w)
    PROVE Inv'
<1> USE WatchdogAssumption DEF Inv, WorkerCrash, WorkGoto, attVars, capVars, dispVars, workVars,
   faultVars, Fault
<1>1. TypeOK'
  <2>1. faults' \in 0..MaxFaults
    BY DEF TypeOK
  <2>2. dropped' \in SUBSET Heads
    BY DEF TypeOK, WorkerRecord
  <2>3. wk' \in [Workers -> WorkerRecord]
    <3>1. wk \in [Workers -> WorkerRecord] /\ wk' = [wk EXCEPT ![w].pc = "idle"]
      BY TypedWorkers
    <3>2. QED
      BY ONLY <3>1, PlaceUpdate
  <2>4. QED
    BY <2>1, <2>2, <2>3 DEF TypeOK, WorkerRecord
<1>2. QueueOK'
  BY DEF TypeOK, QueueOK, WorkOK, Busy
<1>3. PrepOK'
  BY DEF TypeOK, PrepOK, ResultOK, AttemptStates
<1>4. ResultOK'
  BY DEF TypeOK, PrepOK, ResultOK, WorkOK, AttemptStates, AttemptTerminal, ResultTerminal, Outcomes
<1>5. WorkOK'
  BY DEF TypeOK, ResultOK, WorkOK, CallsOK, Busy, Unclaimed, ResultTerminal, DispatchTerminal,
     Outcomes
<1>6. CallsOK'
  BY DEF TypeOK, ResultOK, WorkOK, CallsOK, Busy, Unclaimed, ResultTerminal, DispatchTerminal
<1>7. DispatchTellsResult'
  BY DEF TypeOK, PrepOK, ResultOK, WorkOK, CallsOK, DispatchTellsResult, Busy, Unclaimed,
     ResultTerminal, DispatchTerminal
<1>8. QED
  BY <1>1, <1>2, <1>3, <1>4, <1>5, <1>6, <1>7

\* Every step preserves the invariant.
LEMMA NextInv ==
    ASSUME Inv, [Next]_vars
    PROVE Inv'
<1>1. CASE Push
  BY <1>1, PushInv
<1>2. ASSUME NEW h \in Heads,
             \/ PrepareInsert(h) \/ PrepareCommit(h) \/ PrepareRollback(h)
             \/ CaptureStart(h) \/ CaptureFiles(h) \/ PersistSnapshot(h)
             \/ CreateIntent(h) \/ Enqueue(h) \/ PersistEnqueueOutcome(h) \/ DispatchCrash(h)
      PROVE Inv'
  BY <1>2, PrepareInsertInv, PrepareCommitInv, PrepareRollbackInv, CaptureStartInv,
     CaptureFilesInv, PersistSnapshotInv, CreateIntentInv, EnqueueInv,
     PersistEnqueueOutcomeInv, DispatchCrashInv
<1>3. ASSUME NEW w \in Workers, WorkerStep(w) \/ WorkerCrash(w)
      PROVE Inv'
  BY <1>3, DequeueInv, ClaimDispatchInv, ClaimOrExistingInv, InvokeModelInv, FinalizeInv,
     MapExecutionResultInv, HandleExecutionErrorInv, WorkerCrashInv DEF WorkerStep
<1>4. CASE UNCHANGED vars
  BY <1>4 DEF vars, Inv, TypeOK, QueueOK, PrepOK, ResultOK, WorkOK, CallsOK, DispatchTellsResult
<1>5. QED
  BY <1>1, <1>2, <1>3, <1>4 DEF Next

-----------------------------------------------------------------------------
(* Theorems                                                                 *)

\* The invariant holds throughout.
LEMMA Invariance == Spec => []Inv
  BY InitInv, NextInv, PTL DEF Spec

\* Every variable keeps its type.
THEOREM TypeCorrect == Spec => []TypeOK
<1>1. Inv => TypeOK
  BY DEF Inv
<1>2. QED
  BY <1>1, Invariance, PTL

\* However many envelopes are delivered to however many workers, an attempt
\* costs at most one model call: the claim of the dispatch is never given twice.
THEOREM ModelCallSafety == Spec => []AtMostOneModelCall
<1>1. Inv => AtMostOneModelCall
  BY DEF Inv, CallsOK, AtMostOneModelCall
<1>2. QED
  BY <1>1, Invariance, PTL

\* Supersession: who is superseded names another attempt that exists and that
\* it did not supersede itself, and somebody is left.
Succession == /\ \A h \in Heads : att[h] = "superseded" <=> by[h] # 0
              /\ \A h \in Heads : by[h] # 0 => /\ by[h] \in Heads \ {h}
                                              /\ att[by[h]] # "none"
                                              /\ by[by[h]] # h
              /\ \A h \in Heads : att[h] # "none" =>
                     \E k \in Heads : att[k] \notin {"none", "superseded"}

\* A step other than the commit of a preparing transaction neither creates nor
\* supersedes an attempt.
LEMMA OnlyCommitSupersedes ==
    ASSUME Inv, [Next]_vars, \A h \in Heads : ~PrepareCommit(h)
    PROVE /\ by' = by
          /\ \A k \in Heads : /\ att'[k] = "none" <=> att[k] = "none"
                              /\ att'[k] = "superseded" <=> att[k] = "superseded"
<1> USE DEF Inv, attVars, capVars, dispVars, workVars, faultVars
<1>1. CASE UNCHANGED <<att, by>>
  BY <1>1
<1>2. ASSUME NEW w \in Workers, ClaimOrExisting(w) \/ Finalize(w)
      PROVE /\ by' = by
            /\ \A k \in Heads : /\ att'[k] = "none" <=> att[k] = "none"
                                /\ att'[k] = "superseded" <=> att[k] = "superseded"
  <2>1. wk[w].head \in Heads /\ att \in [Heads -> AttemptStates]
    BY DEF TypeOK
  <2>2. CASE ClaimOrExisting(w)
    BY <2>1, <2>2 DEF ClaimOrExisting
  <2>3. CASE Finalize(w)
    <3>1. wk[w].out \in Outcomes
      BY <2>3 DEF Finalize, WorkOK
    <3>2. AttemptOf(wk[w].out) \notin {"none", "superseded"}
      BY <3>1 DEF AttemptOf, Outcomes
    <3>3. res[wk[w].head] = "running" => att[wk[w].head] \in {"running", "superseded"}
      BY <2>1 DEF ResultOK
    <3>4. QED
      BY <2>1, <2>3, <3>2, <3>3 DEF Finalize
  <2>4. QED
    BY <1>2, <2>2, <2>3
<1>3. CASE Push \/ UNCHANGED vars
  BY <1>1, <1>3 DEF Push, vars
<1>4. CASE \E h \in Heads : \/ PrepareInsert(h) \/ PrepareRollback(h) \/ CaptureStart(h)
                            \/ CaptureFiles(h) \/ PersistSnapshot(h) \/ CreateIntent(h)
                            \/ Enqueue(h) \/ PersistEnqueueOutcome(h) \/ DispatchCrash(h)
  BY <1>1, <1>4 DEF PrepareInsert, PrepareRollback, CaptureStart, CaptureFiles,
     PersistSnapshot, CreateIntent, Enqueue, PersistEnqueueOutcome, DispatchCrash
<1>5. CASE \E w \in Workers : \/ \E h \in Heads : Dequeue(w, h)
                              \/ ClaimDispatch(w) \/ InvokeModel(w)
                              \/ MapExecutionResult(w) \/ HandleExecutionError(w)
                              \/ WorkerCrash(w)
  BY <1>1, <1>5 DEF Dequeue, ClaimDispatch, InvokeModel, MapExecutionResult,
     HandleExecutionError, WorkerCrash
<1>6. QED
  BY <1>2, <1>3, <1>4, <1>5 DEF Next, WorkerStep

\* The superseding attempt is new when it supersedes, so nobody it supersedes
\* was superseded before and nobody names it yet.
LEMMA SuccessionStep ==
    ASSUME Inv, Succession, [Next]_vars
    PROVE Succession'
<1>1. CASE \A h \in Heads : ~PrepareCommit(h)
  <2>1. /\ by' = by
        /\ \A k \in Heads : /\ att'[k] = "none" <=> att[k] = "none"
                            /\ att'[k] = "superseded" <=> att[k] = "superseded"
    BY <1>1, OnlyCommitSupersedes
  <2>2. QED
    BY <2>1 DEF Succession
<1>2. ASSUME NEW h \in Heads, PrepareCommit(h) PROVE Succession'
  <2> DEFINE P == prep[h].prior
  <2>0. 0 \notin Heads
    BY WatchdogAssumption DEF Heads
  <2>1. att[h] = "none" /\ P \subseteq Heads
    BY <1>2 DEF PrepareCommit, Inv, PrepOK, TypeOK
  <2>2. \A k \in P : att[k] \in {"prepared", "running"} /\ k # h
    BY <2>1 DEF Inv, PrepOK
  <2>3. /\ att'[h] \in {"prepared", "blocked_policy"}
        /\ \A k \in Heads \ {h} : att'[k] = IF k \in P THEN "superseded" ELSE att[k]
        /\ \A k \in Heads : by'[k] = IF k \in P THEN h ELSE by[k]
    BY <1>2, <2>2 DEF PrepareCommit
  <2>4. by[h] = 0 /\ \A k \in Heads : by[k] # h
    BY <2>0, <2>1 DEF Succession
  <2>5. \A k \in Heads : att'[k] = "superseded" <=> by'[k] # 0
    BY <2>0, <2>1, <2>2, <2>3, <2>4 DEF Succession
  <2>6. ASSUME NEW k \in Heads, by'[k] # 0
        PROVE by'[k] \in Heads \ {k} /\ att'[by'[k]] # "none" /\ by'[by'[k]] # k
    <3>1. CASE k \in P
      <4>1. by'[k] = h /\ h # k /\ h \notin P
        BY <2>2, <2>3, <3>1
      <4>2. by'[h] = 0
        BY <2>3, <2>4, <4>1
      <4>3. QED
        BY <2>0, <2>3, <4>1, <4>2
    <3>2. CASE k \notin P
      <4>1. by'[k] = by[k] /\ by[k] # 0 /\ k # h
        BY <2>3, <2>4, <2>6, <3>2
      <4>2. by[k] \in Heads \ {k, h} /\ att[by[k]] # "none" /\ by[by[k]] # k
        BY <2>4, <4>1 DEF Succession
      <4>3. QED
        BY <2>1, <2>3, <4>1, <4>2
    <3>3. QED
      BY <3>1, <3>2
  <2>7. QED
    BY <2>3, <2>5, <2>6 DEF Succession
<1>3. QED
  BY <1>1, <1>2

\* A review whose attempt was superseded while the model worked never becomes
\* current, a completed result belongs to a completed attempt, and in whatever
\* order the heads arrive a superseded attempt has a successor.
THEOREM StaleSafety == Spec => []StaleNeverCurrent
<1>1. Init => Succession
  BY DEF Init, Succession
<1>2. Inv /\ Succession /\ [Next]_vars => Succession'
  BY SuccessionStep
<1>3. Inv /\ Succession => StaleNeverCurrent
  <2>1. Inv => \A h \in Heads :
            /\ att[h] = "superseded" => res[h] \in {"none", "running", "discarded"}
            /\ res[h] = "completed" => att[h] = "completed" /\ snap[h] = "captured"
    BY DEF Inv, TypeOK, ResultOK, ResultTerminal
  <2>2. QED
    BY <2>1 DEF Succession, StaleNeverCurrent
<1>4. QED
  BY <1>1, <1>2, <1>3, Invariance, PTL DEF Spec

\* A closed dispatch tells what its result and its attempt say.
THEOREM DispatchSafety == Spec => []DispatchTellsResult
<1>1. Inv => DispatchTellsResult
  BY DEF Inv
<1>2. QED
  BY <1>1, Invariance, PTL

\* No step changes a terminal attempt, result or dispatch.
LEMMA TerminalStep ==
    ASSUME Inv, Next, NEW k \in Heads
    PROVE /\ att[k] \in AttemptTerminal => att'[k] = att[k] /\ by'[k] = by[k]
          /\ res[k] \in ResultTerminal => res'[k] = res[k]
          /\ disp[k] \in DispatchTerminal => disp'[k] = disp[k]
<1> USE DEF Inv, attVars, capVars, dispVars, workVars, faultVars
<1>1. CASE UNCHANGED <<att, by, res, disp>>
  BY <1>1
<1>2. ASSUME NEW h \in Heads, PrepareCommit(h)
      PROVE /\ UNCHANGED <<res, disp>>
            /\ att[k] \in AttemptTerminal => att'[k] = att[k] /\ by'[k] = by[k]
  <2>1. att[k] \in AttemptTerminal => k # h /\ k \notin prep[h].prior
    BY <1>2 DEF PrepareCommit, PrepOK, AttemptTerminal
  <2>2. \E s \in {"prepared", "blocked_policy"} :
            att' = [g \in Heads |-> IF g = h THEN s
                                    ELSE IF g \in prep[h].prior THEN "superseded" ELSE att[g]]
    BY <1>2 DEF PrepareCommit
  <2>3. k # h /\ k \notin prep[h].prior => att'[k] = att[k] /\ by'[k] = by[k]
    BY <1>2, <2>2 DEF PrepareCommit
  <2>4. QED
    BY <1>2, <2>1, <2>3 DEF PrepareCommit
<1>3. ASSUME NEW h \in Heads, CreateIntent(h) \/ PersistEnqueueOutcome(h)
      PROVE /\ UNCHANGED <<att, by, res>>
            /\ disp[k] \in DispatchTerminal => disp'[k] = disp[k]
  BY <1>3 DEF CreateIntent, PersistEnqueueOutcome, DispatchTerminal, TypeOK
<1>4. ASSUME NEW w \in Workers, ClaimDispatch(w)
      PROVE /\ UNCHANGED <<att, by, res>>
            /\ disp[k] \in DispatchTerminal => disp'[k] = disp[k]
  <2>1. wk[w].head # k => disp'[k] = disp[k]
    BY <1>4 DEF ClaimDispatch, MapResult, TypeOK
  <2>2. disp'[k] # disp[k] => disp[wk[w].head] = "queued"
    BY <1>4 DEF ClaimDispatch, Claimable, MapResult
  <2>3. QED
    BY <1>4, <2>1, <2>2 DEF ClaimDispatch, DispatchTerminal
<1>5. ASSUME NEW w \in Workers, ClaimOrExisting(w) \/ Finalize(w)
      PROVE /\ UNCHANGED <<by, disp>>
            /\ att[k] \in AttemptTerminal => att'[k] = att[k]
            /\ res[k] \in ResultTerminal => res'[k] = res[k]
  <2>1. wk[w].head \in Heads
    BY DEF TypeOK
  <2>2. CASE ClaimOrExisting(w)
    BY <2>1, <2>2 DEF ClaimOrExisting, AttemptTerminal, ResultTerminal, TypeOK
  <2>3. CASE Finalize(w)
    <3>1. res[wk[w].head] = "running" => att[wk[w].head] \in {"running", "superseded"}
      BY <2>1 DEF ResultOK
    <3>2. QED
      BY <2>1, <2>3, <3>1 DEF Finalize, AttemptTerminal, ResultTerminal, TypeOK
  <2>4. QED
    BY <1>5, <2>2, <2>3
<1>6. ASSUME NEW w \in Workers, MapExecutionResult(w) \/ HandleExecutionError(w)
      PROVE /\ UNCHANGED <<att, by, res>>
            /\ disp[k] \in DispatchTerminal => disp'[k] = disp[k]
  <2>1. wk[w].head # k => disp'[k] = disp[k]
    BY <1>6 DEF MapExecutionResult, HandleExecutionError, MapResult, TypeOK
  <2>2. disp'[k] # disp[k] => disp[wk[w].head] \notin DispatchTerminal
    BY <1>6 DEF MapExecutionResult, HandleExecutionError, DispatchTerminal
  <2>3. QED
    BY <1>6, <2>1, <2>2 DEF MapExecutionResult, HandleExecutionError
<1>7. ASSUME NEW w \in Workers, WorkerStep(w) \/ WorkerCrash(w)
      PROVE /\ att[k] \in AttemptTerminal => att'[k] = att[k] /\ by'[k] = by[k]
            /\ res[k] \in ResultTerminal => res'[k] = res[k]
            /\ disp[k] \in DispatchTerminal => disp'[k] = disp[k]
  <2>1. CASE (\E h \in Heads : Dequeue(w, h)) \/ InvokeModel(w) \/ WorkerCrash(w)
    BY <2>1 DEF Dequeue, InvokeModel, WorkerCrash
  <2>2. QED
    BY <1>4, <1>5, <1>6, <1>7, <2>1 DEF WorkerStep
<1>8. CASE \E h \in Heads : \/ PrepareInsert(h) \/ PrepareRollback(h) \/ CaptureStart(h)
                            \/ CaptureFiles(h) \/ PersistSnapshot(h) \/ Enqueue(h)
                            \/ DispatchCrash(h)
  BY <1>1, <1>8 DEF PrepareInsert, PrepareRollback, CaptureStart, CaptureFiles,
     PersistSnapshot, Enqueue, DispatchCrash
<1>9. CASE Push
  BY <1>1, <1>9 DEF Push
<1>10. QED
  BY <1>2, <1>3, <1>7, <1>8, <1>9 DEF Next

\* Terminal attempts, results and dispatches are final, whatever a late worker,
\* a redelivery or a new head does.
THEOREM TerminalStands == Spec => TerminalFinal
<1>1. Inv /\ [Next]_vars =>
        [\A h \in Heads :
          /\ att[h] \in AttemptTerminal => att'[h] = att[h] /\ by'[h] = by[h]
          /\ res[h] \in ResultTerminal => res'[h] = res[h]
          /\ disp[h] \in DispatchTerminal => disp'[h] = disp[h]]_vars
  BY TerminalStep
<1>2. QED
  BY <1>1, Invariance, PTL DEF Spec, TerminalFinal
=============================================================================
