------------------------ MODULE CodingDispatchProofs ------------------------
(***************************************************************************)
(* What the dispatch of a coding intent guarantees for any number of         *)
(* requests, workers, repeated pushes and outages.                           *)
(***************************************************************************)
EXTENDS CodingDispatch, TLAPS

\* An intent nobody approved has no run and no request was admitted for it.
UnapprovedOK == intent \in {"none", "awaiting_approval"} =>
                    run = "none" /\ ~linked /\ \A r \in Requests : req[r] = "idle"

\* Only the request that bound the attempt may submit it, and only once.
AdmissionOK == /\ \A r \in Requests : req[r] = "commit" => binding = r /\ submitted = 0
               /\ submitted \in {0, 1}
               /\ submitted = 1 => binding # NoOne

\* Whoever executes made the one claim the run carries.
ClaimOK == /\ executed \subseteq {owner}
           /\ \A w \in Workers : wk[w] \in {"execute", "finalize"} => w \in executed

\* Before its terminal status a run has no decision, no escalation and no result.
OutcomeOK == /\ run \notin Terminal => decided = 0 /\ escalations = 0
             /\ decided + escalations <= 1
             /\ posted <= decided
             /\ run = "escalated" => escalations = 1
             /\ run = "succeeded" => decided = 1 /\ executed # {}

\* A failure record is written to the intent only after the run ended, so a
\* cancellation it erases can no longer let a result through.
CancelOK == /\ \A r \in Requests : req[r] \in {"readIntent", "failIntent"} => run \in Terminal
            /\ posted > 0 => visibility = "result_posted" /\ run \in Terminal
            /\ wasCancelled /\ ~autoApproved => /\ posted = 0
                                                /\ intent = "cancelled" \/ run \in Terminal

Inv == TypeOK /\ UnapprovedOK /\ AdmissionOK /\ ClaimOK /\ OutcomeOK /\ CancelOK

-----------------------------------------------------------------------------
\* Nothing has happened in an initial state.
LEMMA InitInv == Init => Inv
<1> SUFFICES ASSUME Init PROVE Inv
  OBVIOUS
<1>1. TypeOK
  <2>1. autoApproved \in BOOLEAN /\ linked \in BOOLEAN /\ wasCancelled \in BOOLEAN /\ silent \in BOOLEAN
    BY DEF Init
  <2>2. QED
    BY <2>1, CodingDispatchAssumption DEF Init, TypeOK
<1>2. UnapprovedOK /\ AdmissionOK /\ ClaimOK /\ OutcomeOK /\ CancelOK
  BY DEF Init, UnapprovedOK, AdmissionOK, ClaimOK, OutcomeOK, CancelOK, Terminal
<1>3. QED
  BY <1>1, <1>2 DEF Inv

-----------------------------------------------------------------------------
(* Every action preserves the invariant                                     *)

\* A new intent has no run.
LEMMA CreateIntentInv ==
    ASSUME Inv, CreateIntent
    PROVE Inv'
<1> USE CodingDispatchAssumption DEF Inv, CreateIntent, intentVars, runVars, taskVars, resultVars
<1>1. TypeOK'
  BY DEF TypeOK, Terminal
<1>2. UnapprovedOK' /\ AdmissionOK'
  BY DEF TypeOK, UnapprovedOK, AdmissionOK
<1>3. ClaimOK'
  BY DEF TypeOK, ClaimOK
<1>4. OutcomeOK'
  BY DEF TypeOK, ClaimOK, OutcomeOK, Terminal
<1>5. CancelOK'
  BY DEF TypeOK, UnapprovedOK, OutcomeOK, CancelOK, Terminal
<1>6. QED
  BY <1>1, <1>2, <1>3, <1>4, <1>5

\* The link of an auto-approved intent gives it its only queued run.
LEMMA LinkAutoApprovedInv ==
    ASSUME Inv, LinkAutoApproved
    PROVE Inv'
<1> USE CodingDispatchAssumption DEF Inv, LinkAutoApproved, Outage, intentVars, runVars, taskVars, resultVars
<1>1. TypeOK'
  <2>1. autoApproved' \in BOOLEAN /\ linked' \in BOOLEAN /\ wasCancelled' \in BOOLEAN /\ silent' \in BOOLEAN
    BY DEF TypeOK
  <2>2. QED
    BY <2>1 DEF TypeOK, Terminal
<1>2. UnapprovedOK' /\ AdmissionOK'
  BY DEF TypeOK, UnapprovedOK, AdmissionOK
<1>3. ClaimOK'
  BY DEF TypeOK, ClaimOK
<1>4. OutcomeOK'
  BY DEF TypeOK, ClaimOK, OutcomeOK, Terminal
<1>5. CancelOK'
  BY DEF TypeOK, UnapprovedOK, OutcomeOK, CancelOK, Terminal
<1>6. QED
  BY <1>1, <1>2, <1>3, <1>4, <1>5

\* An approval finds no run, so the one it links is the first.
LEMMA ApproveIntentInv ==
    ASSUME Inv, ApproveIntent
    PROVE Inv'
<1> USE CodingDispatchAssumption DEF Inv, ApproveIntent, Outage, intentVars, runVars, taskVars, resultVars
<1>1. TypeOK'
  <2>1. autoApproved' \in BOOLEAN /\ linked' \in BOOLEAN /\ wasCancelled' \in BOOLEAN /\ silent' \in BOOLEAN
    BY DEF TypeOK
  <2>2. QED
    BY <2>1 DEF TypeOK, Terminal
<1>2. UnapprovedOK' /\ AdmissionOK'
  BY DEF TypeOK, UnapprovedOK, AdmissionOK
<1>3. ClaimOK'
  BY DEF TypeOK, ClaimOK
<1>4. OutcomeOK'
  BY DEF TypeOK, UnapprovedOK, ClaimOK, OutcomeOK, Terminal
<1>5. CancelOK'
  BY DEF TypeOK, UnapprovedOK, OutcomeOK, CancelOK, Terminal
<1>6. QED
  BY <1>1, <1>2, <1>3, <1>4, <1>5

\* A cancellation that is not refused finds no result posted.
LEMMA CancelIntentInv ==
    ASSUME Inv, CancelIntent
    PROVE Inv'
<1> USE CodingDispatchAssumption DEF Inv, CancelIntent, intentVars, runVars, taskVars, resultVars
<1>1. TypeOK'
  BY DEF TypeOK, Terminal
<1>2. UnapprovedOK' /\ AdmissionOK'
  BY DEF TypeOK, UnapprovedOK, AdmissionOK
<1>3. ClaimOK'
  BY DEF TypeOK, ClaimOK
<1>4. OutcomeOK'
  BY DEF TypeOK, ClaimOK, OutcomeOK, Terminal
<1>5. CancelOK'
  BY DEF TypeOK, UnapprovedOK, OutcomeOK, CancelOK, Terminal
<1>6. QED
  BY <1>1, <1>2, <1>3, <1>4, <1>5

\* An authorised request names an approved intent.
LEMMA AuthorizeIntentInv ==
    ASSUME Inv, NEW r \in Requests, AuthorizeIntent(r)
    PROVE Inv'
<1> USE CodingDispatchAssumption DEF Inv, AuthorizeIntent, ReqGoto, DispatchAuthority, Undispatchable, intentVars, runVars, taskVars, resultVars
<1>1. TypeOK'
  BY DEF TypeOK, Terminal
<1>2. UnapprovedOK' /\ AdmissionOK'
  BY DEF TypeOK, UnapprovedOK, AdmissionOK
<1>3. ClaimOK'
  BY DEF TypeOK, ClaimOK
<1>4. OutcomeOK'
  BY DEF TypeOK, ClaimOK, OutcomeOK, Terminal
<1>5. CancelOK'
  BY DEF TypeOK, UnapprovedOK, OutcomeOK, CancelOK, Terminal
<1>6. QED
  BY <1>1, <1>2, <1>3, <1>4, <1>5

\* A refused proposal records nothing yet.
LEMMA ResolveBindingInv ==
    ASSUME Inv, NEW r \in Requests, ResolveBinding(r)
    PROVE Inv'
<1> USE CodingDispatchAssumption DEF Inv, ResolveBinding, ReqGoto, intentVars, runVars, taskVars, resultVars
<1>1. TypeOK'
  BY DEF TypeOK, Terminal
<1>2. UnapprovedOK' /\ AdmissionOK'
  BY DEF TypeOK, UnapprovedOK, AdmissionOK
<1>3. ClaimOK'
  BY DEF TypeOK, ClaimOK
<1>4. OutcomeOK'
  BY DEF TypeOK, ClaimOK, OutcomeOK, Terminal
<1>5. CancelOK'
  BY DEF TypeOK, UnapprovedOK, OutcomeOK, CancelOK, Terminal
<1>6. QED
  BY <1>1, <1>2, <1>3, <1>4, <1>5

\* The first binding stays, so at most one request goes on to commit.
LEMMA PersistExecutionBindingInv ==
    ASSUME Inv, NEW r \in Requests, PersistExecutionBinding(r)
    PROVE Inv'
<1> USE CodingDispatchAssumption DEF Inv, PersistExecutionBinding, ReqGoto, intentVars, runVars, taskVars, resultVars
<1>1. TypeOK'
  BY DEF TypeOK, Terminal
<1>2. UnapprovedOK' /\ AdmissionOK'
  BY DEF TypeOK, UnapprovedOK, AdmissionOK
<1>3. ClaimOK'
  BY DEF TypeOK, ClaimOK
<1>4. OutcomeOK'
  BY DEF TypeOK, ClaimOK, OutcomeOK, Terminal
<1>5. CancelOK'
  BY DEF TypeOK, UnapprovedOK, OutcomeOK, CancelOK, Terminal
<1>6. QED
  BY <1>1, <1>2, <1>3, <1>4, <1>5

\* The request that bound the attempt leaves commit with the submission.
LEMMA CommitDispatchInv ==
    ASSUME Inv, NEW r \in Requests, CommitDispatch(r)
    PROVE Inv'
<1> USE CodingDispatchAssumption DEF Inv, CommitDispatch, ReqGoto, DispatchAuthority, Undispatchable, Outage, intentVars, runVars, taskVars, resultVars
<1>1. TypeOK'
  BY DEF TypeOK, Terminal
<1>2. UnapprovedOK' /\ AdmissionOK'
  BY DEF TypeOK, UnapprovedOK, AdmissionOK
<1>3. ClaimOK'
  BY DEF TypeOK, ClaimOK
<1>4. OutcomeOK'
  BY DEF TypeOK, ClaimOK, OutcomeOK, Terminal
<1>5. CancelOK'
  BY DEF TypeOK, UnapprovedOK, OutcomeOK, CancelOK, Terminal
<1>6. QED
  BY <1>1, <1>2, <1>3, <1>4, <1>5

\* A request that skips the run has seen it ended.
LEMMA ReadRunForFailureInv ==
    ASSUME Inv, NEW r \in Requests, ReadRunForFailure(r)
    PROVE Inv'
<1> USE CodingDispatchAssumption DEF Inv, ReadRunForFailure, ReqGoto, AttemptWasAuthorized, intentVars, runVars, taskVars, resultVars
<1>1. TypeOK'
  BY DEF TypeOK, Terminal
<1>2. UnapprovedOK' /\ AdmissionOK'
  BY DEF TypeOK, UnapprovedOK, AdmissionOK
<1>3. ClaimOK'
  BY DEF TypeOK, ClaimOK
<1>4. OutcomeOK'
  BY DEF TypeOK, ClaimOK, OutcomeOK, Terminal
<1>5. CancelOK'
  BY DEF TypeOK, UnapprovedOK, OutcomeOK, CancelOK, Terminal
<1>6. QED
  BY <1>1, <1>2, <1>3, <1>4, <1>5

\* After the failure record the run has ended.
LEMMA FailRunInv ==
    ASSUME Inv, NEW r \in Requests, FailRun(r)
    PROVE Inv'
<1> USE CodingDispatchAssumption DEF Inv, FailRun, ReqGoto, intentVars, runVars, taskVars, resultVars
<1>1. TypeOK'
  BY DEF TypeOK, Terminal
<1>2. UnapprovedOK' /\ AdmissionOK'
  BY DEF TypeOK, UnapprovedOK, AdmissionOK
<1>3. ClaimOK'
  BY DEF TypeOK, ClaimOK
<1>4. OutcomeOK'
  BY DEF TypeOK, ClaimOK, OutcomeOK, Terminal
<1>5. CancelOK'
  BY DEF TypeOK, UnapprovedOK, OutcomeOK, CancelOK, Terminal
<1>6. QED
  BY <1>1, <1>2, <1>3, <1>4, <1>5

\* A request goes on to the intent only after the run.
LEMMA ReadIntentForFailureInv ==
    ASSUME Inv, NEW r \in Requests, ReadIntentForFailure(r)
    PROVE Inv'
<1> USE CodingDispatchAssumption DEF Inv, ReadIntentForFailure, ReqGoto, intentVars, runVars, taskVars, resultVars
<1>1. TypeOK'
  BY DEF TypeOK, Terminal
<1>2. UnapprovedOK' /\ AdmissionOK'
  BY DEF TypeOK, UnapprovedOK, AdmissionOK
<1>3. ClaimOK'
  BY DEF TypeOK, ClaimOK
<1>4. OutcomeOK'
  BY DEF TypeOK, ClaimOK, OutcomeOK, Terminal
<1>5. CancelOK'
  BY DEF TypeOK, UnapprovedOK, OutcomeOK, CancelOK, Terminal
<1>6. QED
  BY <1>1, <1>2, <1>3, <1>4, <1>5

\* A cancellation is erased only after the run has ended.
LEMMA FailIntentInv ==
    ASSUME Inv, NEW r \in Requests, FailIntent(r)
    PROVE Inv'
<1> USE CodingDispatchAssumption DEF Inv, FailIntent, ReqGoto, intentVars, runVars, taskVars, resultVars
<1>1. TypeOK'
  BY DEF TypeOK, Terminal
<1>2. UnapprovedOK' /\ AdmissionOK'
  BY DEF TypeOK, UnapprovedOK, AdmissionOK
<1>3. ClaimOK'
  BY DEF TypeOK, ClaimOK
<1>4. OutcomeOK'
  BY DEF TypeOK, ClaimOK, OutcomeOK, Terminal
<1>5. CancelOK'
  BY DEF TypeOK, UnapprovedOK, OutcomeOK, CancelOK, Terminal
<1>6. QED
  BY <1>1, <1>2, <1>3, <1>4, <1>5

\* A dead request submits nothing.
LEMMA RequestDiesInv ==
    ASSUME Inv, NEW r \in Requests, RequestDies(r)
    PROVE Inv'
<1> USE CodingDispatchAssumption DEF Inv, RequestDies, ReqGoto, Outage, intentVars, runVars, taskVars, resultVars
<1>1. TypeOK'
  BY DEF TypeOK, Terminal
<1>2. UnapprovedOK' /\ AdmissionOK'
  BY DEF TypeOK, UnapprovedOK, AdmissionOK
<1>3. ClaimOK'
  BY DEF TypeOK, ClaimOK
<1>4. OutcomeOK'
  BY DEF TypeOK, ClaimOK, OutcomeOK, Terminal
<1>5. CancelOK'
  BY DEF TypeOK, UnapprovedOK, OutcomeOK, CancelOK, Terminal
<1>6. QED
  BY <1>1, <1>2, <1>3, <1>4, <1>5

\* A delivery changes nothing but the queue.
LEMMA PopTaskInv ==
    ASSUME Inv, NEW w \in Workers, PopTask(w)
    PROVE Inv'
<1> USE CodingDispatchAssumption DEF Inv, PopTask, WorkGoto, intentVars, runVars, taskVars, resultVars
<1>1. TypeOK'
  BY DEF TypeOK, Terminal
<1>2. UnapprovedOK' /\ AdmissionOK'
  BY DEF TypeOK, UnapprovedOK, AdmissionOK
<1>3. ClaimOK'
  BY DEF TypeOK, ClaimOK
<1>4. OutcomeOK'
  BY DEF TypeOK, ClaimOK, OutcomeOK, Terminal
<1>5. CancelOK'
  BY DEF TypeOK, UnapprovedOK, OutcomeOK, CancelOK, Terminal
<1>6. QED
  BY <1>1, <1>2, <1>3, <1>4, <1>5

\* A refusal is the first decision of an unclaimed run.
LEMMA RefuseTaskInv ==
    ASSUME Inv, NEW w \in Workers, RefuseTask(w)
    PROVE Inv'
<1> USE CodingDispatchAssumption DEF Inv, RefuseTask, WorkGoto, RefusalStatus, intentVars, runVars, taskVars, resultVars
<1>1. TypeOK'
  BY DEF TypeOK, Terminal
<1>2. UnapprovedOK' /\ AdmissionOK'
  BY DEF TypeOK, UnapprovedOK, AdmissionOK
<1>3. ClaimOK'
  BY DEF TypeOK, ClaimOK
<1>4. OutcomeOK'
  BY DEF TypeOK, ClaimOK, OutcomeOK, Terminal
<1>5. CancelOK'
  BY DEF TypeOK, UnapprovedOK, OutcomeOK, CancelOK, Terminal
<1>6. QED
  BY <1>1, <1>2, <1>3, <1>4, <1>5

\* A claim is recorded only where there was none, and its maker executes.
LEMMA AcceptRunInv ==
    ASSUME Inv, NEW w \in Workers, AcceptRun(w)
    PROVE Inv'
<1> USE CodingDispatchAssumption DEF Inv, AcceptRun, WorkGoto, Acceptable, Outage, intentVars, runVars, taskVars, resultVars
<1>1. TypeOK'
  <2>1. autoApproved' \in BOOLEAN /\ linked' \in BOOLEAN /\ wasCancelled' \in BOOLEAN /\ silent' \in BOOLEAN
    BY DEF TypeOK
  <2>2. QED
    BY <2>1 DEF TypeOK, Terminal
<1>2. UnapprovedOK' /\ AdmissionOK'
  BY DEF TypeOK, UnapprovedOK, AdmissionOK
<1>3. ClaimOK'
  BY DEF TypeOK, ClaimOK
<1>4. OutcomeOK'
  BY DEF TypeOK, ClaimOK, OutcomeOK, Terminal
<1>5. CancelOK'
  BY DEF TypeOK, UnapprovedOK, OutcomeOK, CancelOK, Terminal
<1>6. QED
  BY <1>1, <1>2, <1>3, <1>4, <1>5

\* The worker keeps its claim until it decides.
LEMMA ExecuteTaskInv ==
    ASSUME Inv, NEW w \in Workers, ExecuteTask(w)
    PROVE Inv'
<1> USE CodingDispatchAssumption DEF Inv, ExecuteTask, WorkGoto, OwnedRunning, intentVars, runVars, taskVars, resultVars
<1>1. TypeOK'
  BY DEF TypeOK, Terminal
<1>2. UnapprovedOK' /\ AdmissionOK'
  BY DEF TypeOK, UnapprovedOK, AdmissionOK
<1>3. ClaimOK'
  BY DEF TypeOK, ClaimOK
<1>4. OutcomeOK'
  BY DEF TypeOK, ClaimOK, OutcomeOK, Terminal
<1>5. CancelOK'
  BY DEF TypeOK, UnapprovedOK, OutcomeOK, CancelOK, Terminal
<1>6. QED
  BY <1>1, <1>2, <1>3, <1>4, <1>5

\* A result is posted only with the first decision of the owner.
LEMMA FinalizeClaimedResultInv ==
    ASSUME Inv, NEW w \in Workers, FinalizeClaimedResult(w)
    PROVE Inv'
<1> USE CodingDispatchAssumption DEF Inv, FinalizeClaimedResult, WorkGoto, TerminalClaim, OwnedRunning, DeliverResult, intentVars, runVars, taskVars, resultVars
<1>1. TypeOK'
  BY DEF TypeOK, Terminal
<1>2. UnapprovedOK' /\ AdmissionOK'
  BY DEF TypeOK, UnapprovedOK, AdmissionOK
<1>3. ClaimOK'
  BY DEF TypeOK, ClaimOK
<1>4. OutcomeOK'
  BY DEF TypeOK, ClaimOK, OutcomeOK, Terminal
<1>5. CancelOK'
  BY DEF TypeOK, UnapprovedOK, OutcomeOK, CancelOK, Terminal
<1>6. QED
  BY <1>1, <1>2, <1>3, <1>4, <1>5

\* A failure under the claim is the first decision.
LEMMA FailUnderClaimInv ==
    ASSUME Inv, NEW w \in Workers, FailUnderClaim(w)
    PROVE Inv'
<1> USE CodingDispatchAssumption DEF Inv, FailUnderClaim, WorkGoto, TerminalClaim, OwnedRunning, RefusalStatus, intentVars, runVars, taskVars, resultVars
<1>1. TypeOK'
  BY DEF TypeOK, Terminal
<1>2. UnapprovedOK' /\ AdmissionOK'
  BY DEF TypeOK, UnapprovedOK, AdmissionOK
<1>3. ClaimOK'
  BY DEF TypeOK, ClaimOK
<1>4. OutcomeOK'
  BY DEF TypeOK, ClaimOK, OutcomeOK, Terminal
<1>5. CancelOK'
  BY DEF TypeOK, UnapprovedOK, OutcomeOK, CancelOK, Terminal
<1>6. QED
  BY <1>1, <1>2, <1>3, <1>4, <1>5

\* A renewal touches only the heartbeat.
LEMMA RenewHeartbeatInv ==
    ASSUME Inv, NEW w \in Workers, RenewHeartbeat(w)
    PROVE Inv'
<1> USE CodingDispatchAssumption DEF Inv, RenewHeartbeat, OwnedRunning, intentVars, runVars, taskVars, resultVars
<1>1. TypeOK'
  BY ZenonT(30) DEF TypeOK, Terminal
<1>2. UnapprovedOK' /\ AdmissionOK'
  BY DEF TypeOK, UnapprovedOK, AdmissionOK
<1>3. ClaimOK'
  BY DEF TypeOK, ClaimOK
<1>4. OutcomeOK'
  BY DEF TypeOK, ClaimOK, OutcomeOK, Terminal
<1>5. CancelOK'
  BY DEF TypeOK, UnapprovedOK, OutcomeOK, CancelOK, Terminal
<1>6. QED
  BY <1>1, <1>2, <1>3, <1>4, <1>5

\* A worker that died executes no more; its claim stays on the run.
LEMMA WorkerDiesInv ==
    ASSUME Inv, NEW w \in Workers, WorkerDies(w)
    PROVE Inv'
<1> USE CodingDispatchAssumption DEF Inv, WorkerDies, WorkGoto, Outage, intentVars, runVars, taskVars, resultVars
<1>1. TypeOK'
  BY DEF TypeOK, Terminal
<1>2. UnapprovedOK' /\ AdmissionOK'
  BY DEF TypeOK, UnapprovedOK, AdmissionOK
<1>3. ClaimOK'
  BY DEF TypeOK, ClaimOK
<1>4. OutcomeOK'
  BY DEF TypeOK, ClaimOK, OutcomeOK, Terminal
<1>5. CancelOK'
  BY DEF TypeOK, UnapprovedOK, OutcomeOK, CancelOK, Terminal
<1>6. QED
  BY <1>1, <1>2, <1>3, <1>4, <1>5

\* A late heartbeat decides nothing.
LEMMA FallSilentInv ==
    ASSUME Inv, FallSilent
    PROVE Inv'
<1> USE CodingDispatchAssumption DEF Inv, FallSilent, intentVars, runVars, taskVars, resultVars
<1>1. TypeOK'
  BY DEF TypeOK, Terminal
<1>2. UnapprovedOK' /\ AdmissionOK'
  BY DEF TypeOK, UnapprovedOK, AdmissionOK
<1>3. ClaimOK'
  BY DEF TypeOK, ClaimOK
<1>4. OutcomeOK'
  BY DEF TypeOK, ClaimOK, OutcomeOK, Terminal
<1>5. CancelOK'
  BY DEF TypeOK, UnapprovedOK, OutcomeOK, CancelOK, Terminal
<1>6. QED
  BY <1>1, <1>2, <1>3, <1>4, <1>5

\* A review only remembers a claim.
LEMMA ReviewUncertainRunInv ==
    ASSUME Inv, ReviewUncertainRun
    PROVE Inv'
<1> USE CodingDispatchAssumption DEF Inv, ReviewUncertainRun, intentVars, runVars, taskVars, resultVars
<1>1. TypeOK'
  BY DEF TypeOK, Terminal
<1>2. UnapprovedOK' /\ AdmissionOK'
  BY DEF TypeOK, UnapprovedOK, AdmissionOK
<1>3. ClaimOK'
  BY DEF TypeOK, ClaimOK
<1>4. OutcomeOK'
  BY DEF TypeOK, ClaimOK, OutcomeOK, Terminal
<1>5. CancelOK'
  BY DEF TypeOK, UnapprovedOK, OutcomeOK, CancelOK, Terminal
<1>6. QED
  BY <1>1, <1>2, <1>3, <1>4, <1>5

\* An escalation takes the place of the worker's decision.
LEMMA QuarantineRunInv ==
    ASSUME Inv, QuarantineRun
    PROVE Inv'
<1> USE CodingDispatchAssumption DEF Inv, QuarantineRun, StillUncertain, intentVars, runVars, taskVars, resultVars
<1>1. TypeOK'
  BY DEF TypeOK, Terminal
<1>2. UnapprovedOK' /\ AdmissionOK'
  BY DEF TypeOK, UnapprovedOK, AdmissionOK
<1>3. ClaimOK'
  BY DEF TypeOK, ClaimOK
<1>4. OutcomeOK'
  BY DEF TypeOK, ClaimOK, OutcomeOK, Terminal
<1>5. CancelOK'
  BY DEF TypeOK, UnapprovedOK, OutcomeOK, CancelOK, Terminal
<1>6. QED
  BY <1>1, <1>2, <1>3, <1>4, <1>5

\* So every step preserves it.
LEMMA NextInv == Inv /\ [Next]_vars => Inv'
<1> SUFFICES ASSUME Inv, [Next]_vars PROVE Inv'
  OBVIOUS
<1>1. CASE CreateIntent \/ LinkAutoApproved \/ ApproveIntent \/ CancelIntent
  BY <1>1, CreateIntentInv, LinkAutoApprovedInv, ApproveIntentInv, CancelIntentInv
<1>2. CASE \E r \in Requests : RequestStep(r) \/ RequestDies(r)
  BY <1>2, AuthorizeIntentInv, ResolveBindingInv, PersistExecutionBindingInv, CommitDispatchInv,
     ReadRunForFailureInv, FailRunInv, ReadIntentForFailureInv, FailIntentInv, RequestDiesInv
     DEF RequestStep
<1>3. CASE \E w \in Workers : WorkerStep(w) \/ RenewHeartbeat(w) \/ WorkerDies(w)
  BY <1>3, PopTaskInv, RefuseTaskInv, AcceptRunInv, ExecuteTaskInv, FinalizeClaimedResultInv,
     FailUnderClaimInv, RenewHeartbeatInv, WorkerDiesInv DEF WorkerStep
<1>4. CASE FallSilent \/ ReviewUncertainRun \/ QuarantineRun
  BY <1>4, FallSilentInv, ReviewUncertainRunInv, QuarantineRunInv
<1>5. CASE UNCHANGED vars
  BY <1>5 DEF vars, intentVars, runVars, taskVars, resultVars, Inv, TypeOK, UnapprovedOK,
              AdmissionOK, ClaimOK, OutcomeOK, CancelOK, Terminal
<1>6. QED
  BY <1>1, <1>2, <1>3, <1>4, <1>5 DEF Next

-----------------------------------------------------------------------------
(* Theorems                                                                 *)

\* The invariant holds throughout.
LEMMA Invariance == Spec => []Inv
  BY InitInv, NextInv, PTL DEF Spec

\* Every variable keeps its type.
THEOREM TypeCorrect == Spec => []TypeOK
<1>1. Inv => TypeOK
  BY DEF Inv
<1>2. QED
  BY <1>1, Invariance, PTL

\* However many requests race, the admitted attempt is pushed by one enqueue
\* call at most: persist_execution_binding admits one request.
THEOREM SubmissionSafety == Spec => []SubmittedOnce
<1>1. Inv => SubmittedOnce
  BY DEF Inv, AdmissionOK, SubmittedOnce
<1>2. QED
  BY <1>1, Invariance, PTL

\* However often the task is delivered and whatever dies, one worker at most
\* executes it, the one claim_run_for_acceptance recorded.
THEOREM ExecutionSafety == Spec => []OneExecution
<1>1. Inv => OneExecution
  BY DEF Inv, ClaimOK, OneExecution
<1>2. QED
  BY <1>1, Invariance, PTL

\* One terminal decision, by the owner or by the operator, and every posted
\* result belongs to the owner's.
THEOREM OutcomeSafety == Spec => []FencedOutcome
<1>1. Inv => FencedOutcome
  BY DEF Inv, OutcomeOK, FencedOutcome
<1>2. QED
  BY <1>1, Invariance, PTL

\* An intent that needs a human's approval shows no result after the user
\* cancelled it, although a failure record may erase the cancellation.
THEOREM CancelSafety == Spec => []NoResultAfterCancel
<1>1. Inv => NoResultAfterCancel
  BY DEF Inv, CancelOK, NoResultAfterCancel
<1>2. QED
  BY <1>1, Invariance, PTL

\* No step replaces a claim, puts a run back into the queue, or rewrites a
\* terminal run other than by a request's failure record.
LEMMA NoTakeoverStep ==
    ASSUME Inv, Next
    PROVE /\ owner # NoOne => owner' = owner
          /\ run # "queued" /\ run' = "queued" => run = "none"
          /\ run \in Terminal /\ run' # run => \E r \in Requests : req[r] = "failRun"
<1> USE DEF Inv, intentVars, runVars, taskVars, resultVars
<1>1. CASE UNCHANGED <<run, owner>>
  BY <1>1
<1>2. CASE LinkAutoApproved \/ ApproveIntent
  BY <1>2 DEF LinkAutoApproved, ApproveIntent, UnapprovedOK, Terminal
<1>3. ASSUME NEW r \in Requests, FailRun(r)
      PROVE owner' = owner /\ run' # "queued" /\ req[r] = "failRun"
  BY <1>3 DEF FailRun
<1>4. ASSUME NEW w \in Workers, RefuseTask(w) \/ FinalizeClaimedResult(w) \/ FailUnderClaim(w)
      PROVE owner' = owner /\ (run' # run => run' # "queued" /\ run \notin Terminal)
  BY <1>4 DEF RefuseTask, FinalizeClaimedResult, FailUnderClaim, TerminalClaim, OwnedRunning,
              RefusalStatus, Terminal
<1>5. ASSUME NEW w \in Workers, AcceptRun(w)
      PROVE /\ owner # NoOne => owner' = owner
            /\ run' = "queued" => run = "queued"
            /\ run' # run => run \notin Terminal
  BY <1>5 DEF AcceptRun, Acceptable, Terminal
<1>6. CASE QuarantineRun
  BY <1>6 DEF QuarantineRun, StillUncertain, Terminal
<1>7. CASE \E r \in Requests : RequestStep(r) \/ RequestDies(r)
  BY <1>1, <1>3, <1>7 DEF RequestStep, AuthorizeIntent, ResolveBinding, PersistExecutionBinding,
     CommitDispatch, ReadRunForFailure, ReadIntentForFailure, FailIntent, RequestDies
<1>8. CASE \E w \in Workers : WorkerStep(w) \/ RenewHeartbeat(w) \/ WorkerDies(w)
  BY <1>1, <1>4, <1>5, <1>8 DEF WorkerStep, PopTask, ExecuteTask, RenewHeartbeat, WorkerDies
<1>9. CASE CreateIntent \/ CancelIntent \/ FallSilent \/ ReviewUncertainRun
  BY <1>1, <1>9 DEF CreateIntent, CancelIntent, FallSilent, ReviewUncertainRun
<1>10. QED
  BY <1>2, <1>6, <1>7, <1>8, <1>9 DEF Next

\* The claim on a run is never replaced and a terminal run is never revived.
THEOREM ClaimsStand == Spec => NoTakeover
<1>1. Inv /\ [Next]_vars => [/\ owner # NoOne => owner' = owner
                             /\ run # "queued" /\ run' = "queued" => run = "none"
                             /\ run \in Terminal /\ run' # run =>
                                    \E r \in Requests : req[r] = "failRun"]_vars
  BY NoTakeoverStep
<1>2. QED
  BY <1>1, Invariance, PTL DEF Spec, NoTakeover

-----------------------------------------------------------------------------
(* The dispatch implements DispatchOnce                                     *)

\* Where there is a task, a worker that popped one, or an execution, the
\* admitted request has made its enqueue call.
TaskOK == queue > 0 \/ executed # {} \/ (\E w \in Workers : wk[w] = "popped") => submitted = 1

\* Tasks come from the one enqueue call and go to the workers.
LEMMA TaskStep ==
    ASSUME Inv, TaskOK, [Next]_vars
    PROVE TaskOK'
<1> USE DEF Inv, TypeOK, intentVars, runVars, taskVars, resultVars
<1>1. CASE UNCHANGED <<queue, executed, wk, submitted>>
  BY <1>1 DEF TaskOK
<1>2. ASSUME NEW r \in Requests, CommitDispatch(r)
      PROVE TaskOK'
  <2>1. submitted = 0 /\ UNCHANGED <<executed, wk>>
    BY <1>2 DEF CommitDispatch, AdmissionOK
  <2>2. CASE UNCHANGED <<queue, submitted>>
    BY <1>1, <2>1, <2>2
  <2>3. CASE submitted' = submitted + 1
    BY <2>1, <2>3 DEF TaskOK
  <2>4. QED
    BY <1>2, <2>2, <2>3 DEF CommitDispatch
<1>3. ASSUME NEW w \in Workers, PopTask(w)
      PROVE TaskOK'
  BY <1>3 DEF PopTask, TaskOK
<1>4. ASSUME NEW w \in Workers, AcceptRun(w)
      PROVE TaskOK'
  <2>1. submitted = 1 /\ UNCHANGED submitted
    BY <1>4 DEF AcceptRun, TaskOK
  <2>2. QED
    BY <2>1 DEF TaskOK
<1>5. ASSUME NEW w \in Workers, \/ RefuseTask(w) \/ ExecuteTask(w) \/ FinalizeClaimedResult(w)
                                \/ FailUnderClaim(w) \/ WorkerDies(w)
      PROVE TaskOK'
  <2>1. UNCHANGED <<queue, executed, submitted>>
    BY <1>5 DEF RefuseTask, ExecuteTask, FinalizeClaimedResult, FailUnderClaim, WorkerDies
  <2>2. \E s \in {"idle", "finalize"} : WorkGoto(w, s)
    BY <1>5 DEF RefuseTask, ExecuteTask, FinalizeClaimedResult, FailUnderClaim, WorkerDies
  <2>3. \A v \in Workers : wk'[v] = "popped" => wk[v] = "popped"
    BY <2>2 DEF WorkGoto
  <2>4. QED
    BY <2>1, <2>3 DEF TaskOK
<1>6. CASE \E r \in Requests : RequestStep(r) \/ RequestDies(r)
  BY <1>1, <1>2, <1>6 DEF RequestStep, AuthorizeIntent, ResolveBinding, PersistExecutionBinding,
     ReadRunForFailure, FailRun, ReadIntentForFailure, FailIntent, RequestDies
<1>7. CASE \E w \in Workers : WorkerStep(w) \/ RenewHeartbeat(w) \/ WorkerDies(w)
  BY <1>1, <1>3, <1>4, <1>5, <1>7 DEF WorkerStep, RenewHeartbeat
<1>8. CASE \/ CreateIntent \/ LinkAutoApproved \/ ApproveIntent \/ CancelIntent
           \/ FallSilent \/ ReviewUncertainRun \/ QuarantineRun
  BY <1>1, <1>8 DEF CreateIntent, LinkAutoApproved, ApproveIntent, CancelIntent, FallSilent,
     ReviewUncertainRun, QuarantineRun
<1>9. QED
  BY <1>1, <1>6, <1>7, <1>8 DEF Next, vars

\* A step binds the attempt to a request, performs it, or leaves both alone.
LEMMA AdmissionStep ==
    ASSUME Inv, TaskOK, Next
    PROVE \/ \E r \in Requests : Admission!Choose(r)
          \/ \E w \in Workers : Admission!Perform(w)
          \/ UNCHANGED Admission!vars
<1> USE DEF Admission!Choose, Admission!Perform, Admission!vars, intentVars, runVars, taskVars,
            resultVars
<1>1. CASE UNCHANGED <<binding, executed>>
  BY <1>1
<1>2. ASSUME NEW r \in Requests, PersistExecutionBinding(r)
      PROVE UNCHANGED <<binding, executed>> \/ Admission!Choose(r)
  <2>1. executed' = executed
    BY <1>2 DEF PersistExecutionBinding
  <2>2. binding = NoOne => executed = {}
    BY DEF Inv, AdmissionOK, TaskOK
  <2>3. QED
    BY <1>2, <2>1, <2>2 DEF PersistExecutionBinding
<1>3. ASSUME NEW w \in Workers, AcceptRun(w)
      PROVE UNCHANGED <<binding, executed>> \/ Admission!Perform(w)
  <2>1. binding' = binding /\ binding # NoOne
    BY <1>3 DEF AcceptRun, Inv, AdmissionOK, TaskOK
  <2>2. CASE executed' = executed
    BY <2>1, <2>2
  <2>3. CASE owner = NoOne /\ executed' = executed \cup {w}
    <3>1. executed = {}
      BY <2>3, CodingDispatchAssumption DEF Inv, TypeOK, ClaimOK
    <3>2. QED
      BY <2>1, <2>3, <3>1
  <2>4. QED
    BY <1>3, <2>2, <2>3 DEF AcceptRun, Acceptable
<1>4. CASE \E r \in Requests : RequestStep(r) \/ RequestDies(r)
  BY <1>1, <1>2, <1>4 DEF RequestStep, AuthorizeIntent, ResolveBinding, CommitDispatch,
     ReadRunForFailure, FailRun, ReadIntentForFailure, FailIntent, RequestDies
<1>5. CASE \E w \in Workers : WorkerStep(w) \/ RenewHeartbeat(w) \/ WorkerDies(w)
  BY <1>1, <1>3, <1>5 DEF WorkerStep, PopTask, RefuseTask, ExecuteTask, FinalizeClaimedResult,
     FailUnderClaim, RenewHeartbeat, WorkerDies
<1>6. CASE \/ CreateIntent \/ LinkAutoApproved \/ ApproveIntent \/ CancelIntent
           \/ FallSilent \/ ReviewUncertainRun \/ QuarantineRun
  BY <1>1, <1>6 DEF CreateIntent, LinkAutoApproved, ApproveIntent, CancelIntent, FallSilent,
     ReviewUncertainRun, QuarantineRun
<1>7. QED
  BY <1>4, <1>5, <1>6 DEF Next

\* The dispatch of an intent implements DispatchOnce: one request is admitted
\* for good, and its attempt is executed at most once and never before that,
\* however often the task is pushed and whatever dies.
THEOREM DispatchImplementsOnce == Spec => ImplementsAdmission
<1>1. Init => TaskOK /\ Admission!Init
  BY DEF Init, TaskOK, Admission!Init
<1>2. Inv /\ TaskOK /\ [Next]_vars => TaskOK'
  BY TaskStep
<1>3. Inv /\ TaskOK /\ [Next]_vars => [Admission!Next]_(Admission!vars)
  <2> SUFFICES ASSUME Inv, TaskOK, [Next]_vars
               PROVE Admission!Next \/ UNCHANGED Admission!vars
    OBVIOUS
  <2>1. CASE Next
    BY <2>1, AdmissionStep DEF Admission!Next
  <2>2. CASE UNCHANGED vars
    BY <2>2 DEF vars, taskVars, resultVars, Admission!vars
  <2>3. QED
    BY <2>1, <2>2
<1>4. QED
  BY <1>1, <1>2, <1>3, Invariance, PTL DEF Spec, ImplementsAdmission, Admission!Spec
=============================================================================
