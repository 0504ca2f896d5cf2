--------------------------- MODULE WatchdogReview ---------------------------
(***************************************************************************)
(* Automated reviews of one pull request by the GitHub Watchdog: webhook     *)
(* receipts prepare attempts, a synchronize receipt supersedes the attempts  *)
(* of other heads, the source is captured, the attempt is dispatched through *)
(* Redis, and workers execute it against a model.                            *)
(*                                                                         *)
(* Head h is the h-th push.  Head 1 is announced by an "opened" delivery, the *)
(* others by "synchronize"; deliveries arrive in any order and more than     *)
(* once.  The receipt of head h prepares attempt h.                          *)
(***************************************************************************)
EXTENDS Naturals, FiniteSets

CONSTANTS
    MaxHead,            \* bound: pushes to the pull request
    Workers,            \* review worker processes
    MaxCopies,          \* bound: envelopes one enqueue may push
    MaxFaults           \* bound: processes that die and transactions that fail

ASSUME WatchdogAssumption == /\ MaxHead \in Nat \ {0}
                             /\ MaxCopies \in Nat \ {0}
                             /\ MaxFaults \in Nat

Heads == 1..MaxHead

VARIABLES
    live,               \* the head GitHub reports now
    prep,               \* prep[h]: the open transaction preparing attempt h
    att,                \* att[h]: attempt_state
    by,                 \* by[h]: superseded_by_attempt_id, 0 for none
    snap,               \* snap[h]: capture_state of the input snapshot
    cap,                \* cap[h]: where the capture of attempt h is
    disp,               \* disp[h]: dispatch_state
    api,                \* api[h]: where dispatch_review_attempt is
    queue,              \* queue[h]: envelopes of h in Redis
    res,                \* res[h]: result_state
    calls,              \* calls[h]: model calls made for attempt h
    wk,                 \* wk[w]: the attempt worker w holds, and where it is
    faults,             \* failures so far
    dropped             \* history: attempts a worker lost in its hands

vars == <<live, prep, att, by, snap, cap, disp, api, queue, res, calls, wk, faults, dropped>>

attVars == <<att, by>>
capVars == <<snap, cap>>
dispVars == <<disp, api, queue>>
workVars == <<res, calls, wk>>
faultVars == <<faults, dropped>>

AttemptTerminal == {"superseded", "blocked_policy", "completed", "failed", "blocked"}
AttemptStates == {"none", "prepared", "running"} \cup AttemptTerminal
ResultTerminal == {"completed", "blocked_runtime_policy", "failed", "discarded"}
DispatchTerminal == {"completed", "blocked", "failed", "discarded", "enqueue_failed"}

NoTx == [open |-> FALSE, prior |-> {}]
IdleWorker == [pc |-> "idle", head |-> 1, out |-> "failed"]

Init == /\ live = 1
        /\ prep = [h \in Heads |-> NoTx]
        /\ att = [h \in Heads |-> "none"]
        /\ by = [h \in Heads |-> 0]
        /\ snap = [h \in Heads |-> "none"]
        /\ cap = [h \in Heads |-> "idle"]
        /\ disp = [h \in Heads |-> "none"]
        /\ api = [h \in Heads |-> "idle"]
        /\ queue = [h \in Heads |-> 0]
        /\ res = [h \in Heads |-> "none"]
        /\ calls = [h \in Heads |-> 0]
        /\ wk = [w \in Workers |-> IdleWorker]
        /\ faults = 0
        /\ dropped = {}

Fault == faults < MaxFaults /\ faults' = faults + 1

Push == /\ live < MaxHead
        /\ live' = live + 1
        /\ UNCHANGED <<prep, attVars, capVars, dispVars, workVars, faultVars>>

-----------------------------------------------------------------------------
(* Preparation: prepare_from_receipt                                        *)

\* Rows a preparing transaction has selected FOR UPDATE.
Locked(h) == \E k \in Heads : prep[k].open /\ h \in prep[k].prior

\* _supersede_older_nonterminal_attempts: for a synchronize receipt, every
\* nonterminal attempt of another head.
_supersede_older_nonterminal_attempts(h) ==
    IF h = 1 THEN {} ELSE {k \in Heads : att[k] \in {"prepared", "running"} /\ k # h}

\* A delivery of head h: the receipt is stored, an existing attempt is reused,
\* otherwise the attempt is inserted and the others are selected and locked.
PrepareInsert(h) ==
    LET prior == _supersede_older_nonterminal_attempts(h) IN
    /\ h <= live
    /\ att[h] = "none"
    /\ ~prep[h].open
    /\ \A k \in prior : ~Locked(k)
    /\ prep' = [prep EXCEPT ![h] = [open |-> TRUE, prior |-> prior]]
    /\ UNCHANGED <<live, attVars, capVars, dispVars, workVars, faultVars>>

\* The policy snapshot resolves or blocks the new attempt.
PrepareCommit(h) ==
    /\ prep[h].open
    /\ \E s \in {"prepared", "blocked_policy"} :
           att' = [k \in Heads |-> IF k = h THEN s
                                   ELSE IF k \in prep[h].prior THEN "superseded"
                                   ELSE att[k]]
    /\ by' = [k \in Heads |-> IF k \in prep[h].prior THEN h ELSE by[k]]
    /\ prep' = [prep EXCEPT ![h] = NoTx]
    /\ UNCHANGED <<live, capVars, dispVars, workVars, faultVars>>

\* The transaction is rolled back; a redelivery prepares the attempt later.
PrepareRollback(h) ==
    /\ Fault
    /\ prep[h].open
    /\ prep' = [prep EXCEPT ![h] = NoTx]
    /\ UNCHANGED <<live, attVars, capVars, dispVars, workVars, dropped>>

-----------------------------------------------------------------------------
(* Capture: capture_review_input                                            *)

CaptureGoto(h, s) == cap' = [cap EXCEPT ![h] = s]

HeadMatches(h) == live = h

\* The first read of the pull request.
CaptureStart(h) ==
    /\ cap[h] = "idle"
    /\ att[h] = "prepared"
    /\ snap[h] = "none"
    /\ CaptureGoto(h, IF HeadMatches(h) THEN "files" ELSE "blocked")
    /\ UNCHANGED <<live, prep, attVars, snap, dispVars, workVars, faultVars>>

\* The changed files may exceed the limits; then the pull request is read again.
CaptureFiles(h) ==
    /\ cap[h] = "files"
    /\ \/ CaptureGoto(h, IF HeadMatches(h) THEN "captured" ELSE "blocked")
       \/ CaptureGoto(h, "blocked")
    /\ UNCHANGED <<live, prep, attVars, snap, dispVars, workVars, faultVars>>

\* _persist_row: refused when the attempt is no longer the eligible one.
PersistSnapshot(h) ==
    /\ cap[h] \in {"captured", "blocked"}
    /\ snap' = IF att[h] = "prepared" THEN [snap EXCEPT ![h] = cap[h]] ELSE snap
    /\ CaptureGoto(h, "idle")
    /\ UNCHANGED <<live, prep, attVars, dispVars, workVars, faultVars>>

-----------------------------------------------------------------------------
(* Dispatch: dispatch_review_attempt                                        *)

DispatchEligible(h) == att[h] = "prepared" /\ snap[h] = "captured" /\ res[h] = "none"

\* Mutant: the dispatch row is created again when it was not enqueued.
CreateIntentAgain(h) ==
    /\ disp[h] \in {"none", "enqueue_failed"}
    /\ ~Locked(h)
    /\ DispatchEligible(h)
    /\ disp' = [disp EXCEPT ![h] = "pending_enqueue"]
    /\ api' = [api EXCEPT ![h] = "enqueue"]
    /\ UNCHANGED <<live, prep, attVars, capVars, queue, workVars, faultVars>>

\* _create_or_recover_intent: one dispatch row per attempt.
CreateIntent(h) ==
    /\ disp[h] = "none"
    /\ ~Locked(h)
    /\ DispatchEligible(h)
    /\ disp' = [disp EXCEPT ![h] = "pending_enqueue"]
    /\ api' = [api EXCEPT ![h] = "enqueue"]
    /\ UNCHANGED <<live, prep, attVars, capVars, queue, workVars, faultVars>>

\* The push is acknowledged, or raises with or without having been applied.
Enqueue(h) ==
    /\ api[h] = "enqueue"
    /\ \E n \in 0..MaxCopies, ok \in BOOLEAN :
           /\ ok => n > 0
           /\ IF ok THEN UNCHANGED faults ELSE Fault
           /\ queue' = [queue EXCEPT ![h] = @ + n]
           /\ api' = [api EXCEPT ![h] = IF ok THEN "accepted" ELSE "refused"]
    /\ UNCHANGED <<live, prep, attVars, capVars, disp, workVars, dropped>>

\* _persist_enqueue_outcome
PersistEnqueueOutcome(h) ==
    /\ api[h] \in {"accepted", "refused"}
    /\ disp' = IF disp[h] = "pending_enqueue"
               THEN [disp EXCEPT ![h] = IF api[h] = "accepted" THEN "queued"
                                        ELSE "enqueue_failed"]
               ELSE disp
    /\ api' = [api EXCEPT ![h] = "idle"]
    /\ UNCHANGED <<live, prep, attVars, capVars, queue, workVars, faultVars>>

\* The API process dies, or its last transaction fails: the row keeps its state.
DispatchCrash(h) ==
    /\ Fault
    /\ api[h] # "idle"
    /\ api' = [api EXCEPT ![h] = "idle"]
    /\ UNCHANGED <<live, prep, attVars, capVars, disp, queue, workVars, dropped>>

-----------------------------------------------------------------------------
(* The worker: process_envelope                                             *)

WorkGoto(w, s) == wk' = [wk EXCEPT ![w].pc = s]

Dequeue(w, h) ==
    /\ wk[w].pc = "idle"
    /\ queue[h] > 0
    /\ queue' = [queue EXCEPT ![h] = @ - 1]
    /\ wk' = [wk EXCEPT ![w] = [pc |-> "claim", head |-> h, out |-> "failed"]]
    /\ UNCHANGED <<live, prep, attVars, capVars, disp, api, res, calls, faultVars>>

\* Mutant: a dispatch is only claimed before its enqueue is recorded.
ClaimablePending(h) == disp[h] = "pending_enqueue"

Claimable(h) == disp[h] = "queued"

\* _map_result_to_dispatch
DispatchOf(r) == CASE r = "blocked_runtime_policy" -> "blocked"
                   [] r \in {"completed", "failed", "discarded"} -> r

MapResult(h) == disp' = IF res[h] \in ResultTerminal
                        THEN [disp EXCEPT ![h] = DispatchOf(res[h])] ELSE disp

\* _claim_dispatch
ClaimDispatch(w) ==
    LET h == wk[w].head IN
    /\ wk[w].pc = "claim"
    /\ Claimable(h) => ~Locked(h)
    /\ \/ /\ ~Claimable(h)
          /\ WorkGoto(w, "idle")
          /\ UNCHANGED disp
       \/ /\ Claimable(h) /\ att[h] = "superseded"
          /\ disp' = [disp EXCEPT ![h] = "discarded"]
          /\ WorkGoto(w, "idle")
       \/ /\ Claimable(h) /\ att[h] # "superseded" /\ res[h] \in ResultTerminal
          /\ MapResult(h)
          /\ WorkGoto(w, "idle")
       \/ /\ Claimable(h) /\ att[h] # "superseded" /\ res[h] = "none"
          /\ att[h] # "prepared" \/ snap[h] # "captured"
          /\ disp' = [disp EXCEPT ![h] = "failed"]
          /\ WorkGoto(w, "idle")
       \/ /\ Claimable(h) /\ att[h] # "superseded"
          /\ res[h] = "running" \/ (res[h] = "none" /\ DispatchEligible(h))
          /\ disp' = [disp EXCEPT ![h] = "running"]
          /\ WorkGoto(w, "execute")
    /\ UNCHANGED <<live, prep, attVars, capVars, api, queue, res, calls, faultVars>>

\* _claim_or_existing: the unique result row decides who calls the model.
ClaimOrExisting(w) ==
    LET h == wk[w].head IN
    /\ wk[w].pc = "execute"
    /\ ~Locked(h)
    /\ \/ /\ res[h] # "none"
          /\ WorkGoto(w, "map")
          /\ UNCHANGED <<att, res>>
       \/ /\ res[h] = "none" /\ att[h] = "prepared" /\ snap[h] = "captured"
          /\ res' = [res EXCEPT ![h] = "running"]
          /\ att' = [att EXCEPT ![h] = "running"]
          /\ WorkGoto(w, "model")
       \/ /\ res[h] = "none" /\ (att[h] # "prepared" \/ snap[h] # "captured")
          /\ WorkGoto(w, "error")
          /\ UNCHANGED <<att, res>>
    /\ UNCHANGED <<live, prep, by, capVars, dispVars, calls, faultVars>>

\* Mutant: a failed call is repeated within the execution.
InvokeWithRetry(w) ==
    LET h == wk[w].head IN
    /\ wk[w].pc = "model"
    /\ \E o \in {"completed", "failed"}, n \in 1..2 :
           /\ wk' = [wk EXCEPT ![w] = [@ EXCEPT !.pc = "finalize", !.out = o]]
           /\ calls' = [calls EXCEPT ![h] = @ + n]
    /\ UNCHANGED <<live, prep, attVars, capVars, dispVars, res, faultVars>>

\* The runtime policy blocks the call, or the model is called once.
InvokeModel(w) ==
    LET h == wk[w].head IN
    /\ wk[w].pc = "model"
    /\ \/ /\ wk' = [wk EXCEPT ![w] = [@ EXCEPT !.pc = "finalize",
                                              !.out = "blocked_runtime_policy"]]
          /\ UNCHANGED calls
       \/ /\ \E o \in {"completed", "failed"} :
                 wk' = [wk EXCEPT ![w] = [@ EXCEPT !.pc = "finalize", !.out = o]]
          /\ calls' = [calls EXCEPT ![h] = @ + 1]
    /\ UNCHANGED <<live, prep, attVars, capVars, dispVars, res, faultVars>>

\* Mutant: the result is kept although the attempt was superseded meanwhile.
FinalStateUnchecked(h, o) == o

FinalState(h, o) == IF att[h] = "superseded" THEN "discarded" ELSE o

AttemptOf(o) == IF o = "blocked_runtime_policy" THEN "blocked" ELSE o

\* _finalize
Finalize(w) ==
    LET h == wk[w].head IN
    /\ wk[w].pc = "finalize"
    /\ ~Locked(h)
    /\ IF res[h] # "running" THEN UNCHANGED <<res, att>>
       ELSE /\ res' = [res EXCEPT ![h] = FinalState(h, wk[w].out)]
            /\ att' = IF att[h] = "superseded" THEN att
                      ELSE [att EXCEPT ![h] = AttemptOf(wk[w].out)]
    /\ WorkGoto(w, "map")
    /\ UNCHANGED <<live, prep, by, capVars, dispVars, calls, faultVars>>

\* Mutant: the dispatch is closed with what this worker's model returned.
MapOwnOutcome(w) ==
    LET h == wk[w].head IN
    /\ wk[w].pc = "map"
    /\ disp' = IF disp[h] \in DispatchTerminal THEN disp
               ELSE [disp EXCEPT ![h] = DispatchOf(wk[w].out)]
    /\ WorkGoto(w, "idle")
    /\ UNCHANGED <<live, prep, attVars, capVars, api, queue, res, calls, faultVars>>

\* _map_execution_result
MapExecutionResult(w) ==
    LET h == wk[w].head IN
    /\ wk[w].pc = "map"
    /\ IF disp[h] \in DispatchTerminal THEN UNCHANGED disp ELSE MapResult(h)
    /\ WorkGoto(w, "idle")
    /\ UNCHANGED <<live, prep, attVars, capVars, api, queue, res, calls, faultVars>>

\* _handle_execution_error: the attempt was superseded or is not eligible.
HandleExecutionError(w) ==
    LET h == wk[w].head IN
    /\ wk[w].pc = "error"
    /\ IF disp[h] # "running" THEN UNCHANGED disp
       ELSE IF res[h] # "none" THEN MapResult(h)
       ELSE disp' = [disp EXCEPT ![h] = IF att[h] = "superseded" THEN "discarded"
                                        ELSE "failed"]
    /\ WorkGoto(w, "idle")
    /\ UNCHANGED <<live, prep, attVars, capVars, api, queue, res, calls, faultVars>>

\* The worker dies, or a transaction fails (execution_state_uncertain): it
\* goes on with the next envelope, and nothing reclaims this one.
WorkerCrash(w) ==
    /\ Fault
    /\ wk[w].pc # "idle"
    /\ WorkGoto(w, "idle")
    /\ dropped' = dropped \cup {wk[w].head}
    /\ UNCHANGED <<live, prep, attVars, capVars, dispVars, res, calls>>

WorkerStep(w) == \/ \E h \in Heads : Dequeue(w, h)
                 \/ ClaimDispatch(w) \/ ClaimOrExisting(w) \/ InvokeModel(w)
                 \/ Finalize(w) \/ MapExecutionResult(w) \/ HandleExecutionError(w)

Next == \/ Push
        \/ \E h \in Heads : \/ PrepareInsert(h) \/ PrepareCommit(h) \/ PrepareRollback(h)
                            \/ CaptureStart(h) \/ CaptureFiles(h) \/ PersistSnapshot(h)
                            \/ CreateIntent(h) \/ Enqueue(h)
                            \/ PersistEnqueueOutcome(h) \/ DispatchCrash(h)
        \/ \E w \in Workers : WorkerStep(w) \/ WorkerCrash(w)

Spec == Init /\ [][Next]_vars

\* Open transactions commit and running workers run their sequential loop.
FairSpec == /\ Spec
            /\ \A h \in Heads : WF_vars(PrepareCommit(h))
            /\ \A w \in Workers : WF_vars(WorkerStep(w))

-----------------------------------------------------------------------------
(* Properties                                                               *)

TypeOK == /\ live \in Heads
          /\ prep \in [Heads -> [open : BOOLEAN, prior : SUBSET Heads]]
          /\ att \in [Heads -> AttemptStates]
          /\ by \in [Heads -> 0..MaxHead]
          /\ snap \in [Heads -> {"none", "captured", "blocked"}]
          /\ cap \in [Heads -> {"idle", "files", "captured", "blocked"}]
          /\ disp \in [Heads -> {"none", "pending_enqueue", "queued", "running"}
                                    \cup DispatchTerminal]
          /\ api \in [Heads -> {"idle", "enqueue", "accepted", "refused"}]
          /\ queue \in [Heads -> 0..MaxCopies]
          /\ res \in [Heads -> {"none", "running"} \cup ResultTerminal]
          /\ calls \in [Heads -> Nat]
          /\ faults \in 0..MaxFaults /\ dropped \in SUBSET Heads
          /\ wk \in [Workers -> [pc : {"idle", "claim", "execute", "model", "finalize",
                                       "map", "error"},
                                 head : Heads, out : ResultTerminal]]

\* However often an envelope is delivered and whichever workers die, an attempt
\* costs at most one model call.  ("Duplicate delivery therefore makes at most
\* one model call and one result.")
AtMostOneModelCall == \A h \in Heads : calls[h] <= 1

\* A review of a superseded head never becomes current truth: its result is
\* discarded or still running, and a completed result belongs to an attempt
\* that was current when it ended.  And supersession leaves a successor: in
\* whatever order the heads are delivered, a superseded attempt names another
\* one that exists and was not superseded by it in turn, and a pull request
\* with attempts has one that is not superseded.
StaleNeverCurrent ==
    /\ \A h \in Heads :
          /\ att[h] = "superseded" => res[h] \in {"none", "running", "discarded"}
          /\ res[h] = "completed" => att[h] = "completed" /\ snap[h] = "captured"
          /\ att[h] = "superseded" =>
                \E k \in Heads \ {h} : by[h] = k /\ att[k] # "none" /\ by[k] # h
    /\ (\A h \in Heads : att[h] \in {"none", "superseded"}) =>
          \A h \in Heads : att[h] = "none"

\* A closed dispatch tells what happened: it never reports a success, a block
\* or a discard that the result or the attempt does not show, and one whose
\* enqueue was refused never ran, even if its envelope got through.
DispatchTellsResult ==
    \A h \in Heads :
        /\ disp[h] = "completed" => res[h] = "completed"
        /\ disp[h] = "blocked" => res[h] = "blocked_runtime_policy"
        /\ disp[h] = "discarded" => att[h] = "superseded"
        /\ disp[h] = "failed" => res[h] \in {"none", "failed"}
        /\ disp[h] = "enqueue_failed" => res[h] = "none" /\ calls[h] = 0

\* Terminal attempts, results and dispatches are final.
TerminalFinal ==
    [][\A h \in Heads :
          /\ att[h] \in AttemptTerminal => att'[h] = att[h] /\ by'[h] = by[h]
          /\ res[h] \in ResultTerminal => res'[h] = res[h]
          /\ disp[h] \in DispatchTerminal => disp'[h] = disp[h]]_vars

\* A queued dispatch whose envelope is in Redis is closed, whatever else fails,
\* unless a worker dies with this very attempt in its hands: some worker claims
\* it, and every claim ends in a terminal state.
QueuedServed ==
    \A h \in Heads :
        disp[h] = "queued" /\ queue[h] > 0 ~> disp[h] \in DispatchTerminal \/ h \in dropped

\* "A newer pull_request.synchronize head supersedes older prepared or running
\* attempts": an attempt is only ever superseded by a later head.
\* (docs/architecture/github-watchdog-control-plane.md)
SupersededByNewer == \A h \in Heads : att[h] = "superseded" => by[h] > h
=============================================================================
