--------------------------- MODULE CodingDispatch ---------------------------
(***************************************************************************)
(* One Guardian delegation intent and its coding run: the intent is created  *)
(* and approved, requests dispatch it, workers accept and execute the queued  *)
(* task under an ownership claim, the user may cancel, and an operator may     *)
(* quarantine a run whose worker has gone silent.                              *)
(*                                                                         *)
(* A claim is named by the worker that made it; a worker holds its claim only  *)
(* in memory, between acceptance and its terminal decision.                    *)
(***************************************************************************)
EXTENDS Naturals

CONSTANTS
    Requests,           \* dispatch requests naming the intent
    Workers,            \* coding worker processes
    NoOne,              \* no claim, no binding
    MaxCopies,          \* pushes of one enqueue (_with_reconnect tries twice)
    MaxLateCopies,      \* pushes of one enqueue that raises all the same
    MaxOutages          \* bound: failed calls and dead processes

ASSUME CodingDispatchAssumption == /\ MaxCopies \in Nat \ {0}
                                   /\ MaxLateCopies \in 0..MaxCopies
                                   /\ MaxOutages \in Nat
                                   /\ NoOne \notin Requests \cup Workers

VARIABLES
    autoApproved,       \* approval_mode of the intent is not human_required
    intent,             \* intent_status
    linked,             \* the intent carries run_id
    visibility,         \* visibility_status
    run,                \* status of the AgentRun
    owner,              \* the claim recorded on the run
    silent,             \* the last heartbeat is older than the horizon
    binding,            \* the request whose execution_binding is in the spec
    queue,              \* coding tasks in Redis
    req,                \* req[r]: where request r is
    wk,                 \* wk[w]: where worker w is
    review,             \* the claim the operator is reviewing
    outages,            \* calls failed and processes dead so far
    submitted,          \* history: enqueue calls made for the attempt
    executed,           \* history: who began a side-effecting execution
    decided,            \* history: accepted terminal decisions of workers
    posted,             \* result messages in the source thread
    escalations,        \* open escalation records
    wasCancelled        \* history: the cancellation committed

intentVars == <<autoApproved, intent, linked, visibility, wasCancelled>>
runVars == <<run, owner, silent>>
taskVars == <<binding, queue, submitted>>
resultVars == <<executed, decided, posted, escalations>>
vars == <<intentVars, runVars, taskVars, resultVars, req, wk, review, outages>>

Terminal == {"succeeded", "failed", "canceled", "escalated"}
Undispatchable == {"cancelled", "failed"}

Init == /\ autoApproved \in BOOLEAN
        /\ intent = "none" /\ linked = FALSE
        /\ visibility = "not_posted" /\ wasCancelled = FALSE
        /\ run = "none" /\ owner = NoOne /\ silent = FALSE
        /\ binding = NoOne /\ queue = 0 /\ submitted = 0
        /\ executed = {} /\ decided = 0 /\ posted = 0 /\ escalations = 0
        /\ req = [r \in Requests |-> "idle"]
        /\ wk = [w \in Workers |-> "idle"]
        /\ review = NoOne
        /\ outages = 0

Outage == outages < MaxOutages /\ outages' = outages + 1

-----------------------------------------------------------------------------
(* The intent                                                               *)

CreateIntent == /\ intent = "none"
                /\ intent' = IF autoApproved THEN "planning" ELSE "awaiting_approval"
                /\ UNCHANGED <<autoApproved, linked, visibility, wasCancelled, runVars, taskVars,
                               resultVars, req, wk, review, outages>>

\* _create_agent_run_link of create_intent: the row is committed before, and is
\* written again without a lock or a look at its status.
LinkAutoApproved ==
    /\ autoApproved
    /\ intent # "none" /\ ~linked /\ run = "none"
    /\ \/ /\ run' = "queued" /\ linked' = TRUE
          /\ intent' = "accepted"
          /\ UNCHANGED outages
       \/ /\ Outage
          /\ intent' = "failed"
          /\ run' = "orphaned"
          /\ UNCHANGED linked
    /\ UNCHANGED <<autoApproved, visibility, wasCancelled, owner, silent, taskVars,
                   resultVars, req, wk, review>>

\* approve_intent holds the row lock over the whole transition.
ApproveIntent ==
    /\ ~autoApproved
    /\ intent = "awaiting_approval"
    /\ \/ /\ run' = "queued" /\ linked' = TRUE
          /\ intent' = "accepted"
          /\ UNCHANGED outages
       \/ /\ Outage
          /\ intent' = "failed"
          /\ UNCHANGED <<run, linked>>
    /\ UNCHANGED <<autoApproved, visibility, wasCancelled, owner, silent, taskVars,
                   resultVars, req, wk, review>>

\* cancel_intent: refused once the result is posted; the run is left alone.
CancelIntent ==
    /\ intent \notin {"none", "cancelled", "failed"}
    /\ visibility # "result_posted"
    /\ intent' = "cancelled"
    /\ wasCancelled' = TRUE
    /\ UNCHANGED <<autoApproved, linked, visibility, runVars, taskVars, resultVars, req, wk,
                   review, outages>>

-----------------------------------------------------------------------------
(* A request: dispatch_authorized_coding_request                            *)

ReqGoto(r, s) == req' = [req EXCEPT ![r] = s]

\* _assert_intent_is_dispatch_authority
DispatchAuthority == linked /\ intent \notin Undispatchable

\* The unlocked pre-check.
AuthorizeIntent(r) ==
    /\ req[r] = "idle"
    /\ DispatchAuthority
    /\ ReqGoto(r, "resolve")
    /\ UNCHANGED <<intentVars, runVars, taskVars, resultVars, wk, review, outages>>

\* _resolve_execution_binding, the permission posture and its narrowing: the
\* request's proposals are authorised or refused.
ResolveBinding(r) ==
    /\ req[r] = "resolve"
    /\ \/ ReqGoto(r, "bind")
       \/ ReqGoto(r, "refused")
    /\ UNCHANGED <<intentVars, runVars, taskVars, resultVars, wk, review, outages>>

\* Mutant: the check and the write of the binding are not fenced.
BindUnfenced(r) ==
    /\ req[r] = "bind"
    /\ binding' = r
    /\ ReqGoto(r, "commit")
    /\ UNCHANGED <<intentVars, runVars, queue, submitted, resultVars, wk, review, outages>>

\* persist_execution_binding: the deployment row is locked, the first binding
\* stays, and a later request is refused as a duplicate.
PersistExecutionBinding(r) ==
    /\ req[r] = "bind"
    /\ \/ /\ binding = NoOne
          /\ binding' = r
          /\ ReqGoto(r, "commit")
       \/ /\ binding # NoOne
          /\ ReqGoto(r, "done")
          /\ UNCHANGED binding
    /\ UNCHANGED <<intentVars, runVars, queue, submitted, resultVars, wk, review, outages>>

\* Under the intent's row lock: the authority is asserted again and one task is
\* pushed, which may be repeated or reported as failed.
CommitDispatch(r) ==
    /\ req[r] = "commit"
    /\ \/ /\ ~DispatchAuthority
          /\ ReqGoto(r, "refused")
          /\ UNCHANGED <<queue, submitted, outages>>
       \/ /\ DispatchAuthority
          /\ submitted' = submitted + 1
          /\ \/ /\ \E n \in 1..MaxCopies : queue' = queue + n
                /\ ReqGoto(r, "done")
                /\ UNCHANGED outages
             \/ /\ Outage
                /\ \E n \in 0..MaxLateCopies : queue' = queue + n
                /\ ReqGoto(r, "refused")
    /\ UNCHANGED <<intentVars, runVars, binding, resultVars, wk, review>>

\* _attempt_was_authorized
AttemptWasAuthorized == binding # NoOne

\* The failure of an authorised attempt is recorded; update_run_status first
\* reads the run, without a lock, and leaves a terminal one alone.
ReadRunForFailure(r) ==
    /\ req[r] = "refused"
    /\ ReqGoto(r, IF ~AttemptWasAuthorized THEN "done"
                  ELSE IF run \in Terminal THEN "readIntent" ELSE "failRun")
    /\ UNCHANGED <<intentVars, runVars, taskVars, resultVars, wk, review, outages>>

FailRun(r) ==
    /\ req[r] = "failRun"
    /\ run' = "failed"
    /\ ReqGoto(r, "readIntent")
    /\ UNCHANGED <<intentVars, owner, silent, taskVars, resultVars, wk, review, outages>>

\* _record_dispatch_failure on the intent, again read first and then written.
ReadIntentForFailure(r) ==
    /\ req[r] = "readIntent"
    /\ ReqGoto(r, IF intent = "cancelled" THEN "done" ELSE "failIntent")
    /\ UNCHANGED <<intentVars, runVars, taskVars, resultVars, wk, review, outages>>

FailIntent(r) ==
    /\ req[r] = "failIntent"
    /\ intent' = "failed"
    /\ ReqGoto(r, "done")
    /\ UNCHANGED <<autoApproved, linked, visibility, wasCancelled, runVars, taskVars,
                   resultVars, wk, review, outages>>

\* The API process dies, or a transaction fails.
RequestDies(r) ==
    /\ req[r] \notin {"idle", "done"}
    /\ Outage
    /\ ReqGoto(r, "done")
    /\ UNCHANGED <<intentVars, runVars, taskVars, resultVars, wk, review>>

-----------------------------------------------------------------------------
(* A worker                                                                 *)

WorkGoto(w, s) == wk' = [wk EXCEPT ![w] = s]

PopTask(w) ==
    /\ wk[w] = "idle"
    /\ queue > 0
    /\ queue' = queue - 1
    /\ WorkGoto(w, "popped")
    /\ UNCHANGED <<intentVars, runVars, binding, submitted, resultVars, req, review, outages>>

\* What a refusal before acceptance writes.
RefusalStatus == {"failed", "canceled"}

\* terminalize_unclaimed_queued_run: a task refused before acceptance (its id was
\* cancelled, its adapter is unsupported) ends the run only while nobody owns it.
RefuseTask(w) ==
    /\ wk[w] = "popped"
    /\ \/ /\ run = "queued" /\ owner = NoOne
          /\ run' \in RefusalStatus
          /\ decided' = decided + 1
       \/ /\ run # "queued" \/ owner # NoOne
          /\ UNCHANGED <<run, decided>>
    /\ WorkGoto(w, "idle")
    /\ UNCHANGED <<intentVars, owner, silent, taskVars, executed, posted, escalations, req,
                   review, outages>>

\* Mutant: the acceptance only looks at the ownership columns of a live run.
AcceptAnyLive(w) == run \in {"queued", "running"}

\* The condition of the acceptance update.
Acceptable(w) == run = "queued" /\ owner = NoOne

\* claim_run_for_acceptance: the run is claimed; when the answer is lost the
\* claim stands but the worker refuses to execute.
AcceptRun(w) ==
    /\ wk[w] = "popped"
    /\ \/ /\ Acceptable(w)
          /\ run' = "running" /\ owner' = w /\ silent' = FALSE
          /\ \/ /\ WorkGoto(w, "execute")
                /\ executed' = executed \cup {w}
                /\ UNCHANGED outages
             \/ /\ Outage
                /\ WorkGoto(w, "idle")
                /\ UNCHANGED executed
       \/ /\ ~Acceptable(w)
          /\ WorkGoto(w, "idle")
          /\ UNCHANGED <<runVars, executed, outages>>
    /\ UNCHANGED <<intentVars, taskVars, decided, posted, escalations, req, review>>

\* Mutant: the owner's writes expect the status the task was admitted in.
OwnedQueued(w) == run = "queued" /\ owner = w

\* The condition of every write the owner makes.
OwnedRunning(w) == run = "running" /\ owner = w

\* renew_coding_run_heartbeat, by the reporter thread while the task runs.
RenewHeartbeat(w) ==
    /\ wk[w] \in {"execute", "finalize"}
    /\ OwnedRunning(w)
    /\ silent
    /\ silent' = FALSE
    /\ UNCHANGED <<intentVars, run, owner, taskVars, resultVars, req, wk, review, outages>>

\* No renewal arrived within the horizon: the worker is dead, or only slow.
FallSilent ==
    /\ run = "running" /\ ~silent
    /\ silent' = TRUE
    /\ UNCHANGED <<intentVars, run, owner, taskVars, resultVars, req, wk, review, outages>>

\* The adapter ends; a worker whose heartbeat was refused stops here.
ExecuteTask(w) ==
    /\ wk[w] = "execute"
    /\ \/ WorkGoto(w, "finalize")
       \/ ~OwnedRunning(w) /\ WorkGoto(w, "idle")
    /\ UNCHANGED <<intentVars, runVars, taskVars, resultVars, req, review, outages>>

\* Mutant: the terminal claim does not look at the status of the run.
ClaimAnyStatus(w) == owner = w

\* claim_coding_run_terminal
TerminalClaim(w) == OwnedRunning(w)

\* Mutant: the delivery does not ask whether the intent was cancelled.
PostAlways == visibility' = "result_posted" /\ posted' = posted + 1

\* _deliver_guardian_delegation_result_to_thread, under the intent's row lock.
DeliverResult ==
    \/ /\ intent = "cancelled"
       /\ visibility' = "stale_suppressed"
       /\ UNCHANGED posted
    \/ /\ intent # "cancelled" /\ visibility # "result_posted"
       /\ visibility' = "result_posted"
       /\ posted' = posted + 1
    \/ /\ intent # "cancelled" /\ visibility = "result_posted"
       /\ UNCHANGED <<visibility, posted>>

\* finalize_claimed_coding_result: the terminal status, the delivery and the
\* artifact commit together while the claim owns the run, or nothing does.
FinalizeClaimedResult(w) ==
    /\ wk[w] = "finalize"
    /\ \/ /\ TerminalClaim(w)
          /\ run' \in {"succeeded", "failed"}
          /\ DeliverResult
          /\ decided' = decided + 1
       \/ /\ ~TerminalClaim(w)
          /\ UNCHANGED <<run, decided, visibility, posted>>
    /\ WorkGoto(w, "idle")
    /\ UNCHANGED <<autoApproved, intent, linked, wasCancelled, owner, silent, taskVars, executed,
                   escalations, req, review, outages>>

\* _emit_failure and _emit_cancelled after acceptance, and the exception handler
\* of poll_once: a status under the claim and no result.
FailUnderClaim(w) ==
    /\ wk[w] \in {"execute", "finalize"}
    /\ \/ /\ TerminalClaim(w)
          /\ run' \in RefusalStatus
          /\ decided' = decided + 1
       \/ /\ ~TerminalClaim(w)
          /\ UNCHANGED <<run, decided>>
    /\ WorkGoto(w, "idle")
    /\ UNCHANGED <<intentVars, owner, silent, taskVars, executed, posted, escalations, req,
                   review, outages>>

\* The process dies and comes back without its claims.
WorkerDies(w) ==
    /\ wk[w] # "idle"
    /\ Outage
    /\ WorkGoto(w, "idle")
    /\ UNCHANGED <<intentVars, runVars, taskVars, resultVars, req, review>>

-----------------------------------------------------------------------------
(* The operator: quarantine_uncertain_coding_run                            *)

\* The liveness snapshot shows a running run with a stale heartbeat.
ReviewUncertainRun ==
    /\ review = NoOne
    /\ run = "running" /\ silent
    /\ review' = owner
    /\ UNCHANGED <<intentVars, runVars, taskVars, resultVars, req, wk, outages>>

\* Mutant: the disposition trusts the review.
ReviewTrusted == owner = review

\* The guarded transition looks at status, claim and heartbeat again.
StillUncertain == run = "running" /\ owner = review /\ silent

QuarantineRun ==
    /\ review # NoOne
    /\ review' = NoOne
    /\ \/ /\ StillUncertain
          /\ run' = "escalated"
          /\ escalations' = escalations + 1
       \/ /\ ~StillUncertain
          /\ UNCHANGED <<run, escalations>>
    /\ UNCHANGED <<intentVars, owner, silent, taskVars, executed, decided, posted, req, wk,
                   outages>>

-----------------------------------------------------------------------------
RequestStep(r) == \/ AuthorizeIntent(r) \/ ResolveBinding(r) \/ PersistExecutionBinding(r)
                  \/ CommitDispatch(r) \/ ReadRunForFailure(r) \/ FailRun(r)
                  \/ ReadIntentForFailure(r) \/ FailIntent(r)

WorkerStep(w) == \/ PopTask(w) \/ RefuseTask(w) \/ AcceptRun(w) \/ ExecuteTask(w)
                 \/ FinalizeClaimedResult(w) \/ FailUnderClaim(w)

Next == \/ CreateIntent \/ LinkAutoApproved \/ ApproveIntent \/ CancelIntent
        \/ \E r \in Requests : RequestStep(r) \/ RequestDies(r)
        \/ \E w \in Workers : WorkerStep(w) \/ RenewHeartbeat(w) \/ WorkerDies(w)
        \/ FallSilent \/ ReviewUncertainRun \/ QuarantineRun

Spec == Init /\ [][Next]_vars

\* Worker loops poll, execute and finalize.
FairSpec == Spec /\ \A w \in Workers : WF_vars(WorkerStep(w))

-----------------------------------------------------------------------------
(* Properties                                                               *)

TypeOK ==
    /\ intent \in {"none", "planning", "awaiting_approval", "accepted", "cancelled", "failed"}
    /\ autoApproved \in BOOLEAN /\ linked \in BOOLEAN /\ wasCancelled \in BOOLEAN /\ silent \in BOOLEAN
    /\ visibility \in {"not_posted", "result_posted", "stale_suppressed"}
    /\ run \in {"none", "orphaned", "queued", "running"} \cup Terminal
    /\ owner \in Workers \cup {NoOne} /\ review \in Workers \cup {NoOne}
    /\ binding \in Requests \cup {NoOne}
    /\ queue \in Nat /\ submitted \in Nat /\ outages \in 0..MaxOutages
    /\ executed \in SUBSET Workers
    /\ decided \in Nat /\ posted \in Nat /\ escalations \in Nat
    /\ req \in [Requests -> {"idle", "resolve", "bind", "commit", "refused", "failRun",
                             "readIntent", "failIntent", "done"}]
    /\ wk \in [Workers -> {"idle", "popped", "execute", "finalize"}]

\* However many requests name the intent, the admitted attempt is submitted to
\* the queue at most once, by the request that bound it.
SubmittedOnce == submitted <= 1 /\ (submitted = 1 => binding # NoOne)

\* However often its task is delivered, and whatever dies, at most one worker
\* begins the side-effecting execution, and only the one the run records.
OneExecution == \A v, w \in Workers : v \in executed /\ w \in executed => v = w /\ owner = v

\* The dispatch is one of DispatchOnce: the first request to bind the attempt is
\* chosen for good, and one worker at most performs what was bound, after that.
Admission == INSTANCE DispatchOnce WITH
    Actors <- Workers, Works <- Requests, NoWork <- NoOne,
    chosen <- binding,
    performed <- {<<w, binding>> : w \in executed}

ImplementsAdmission == Admission!Spec

\* One terminal decision of a worker at most, and every posted result belongs to
\* it: a worker whose claim no longer owns the run writes nothing.
FencedOutcome ==
    /\ decided + escalations <= 1
    /\ posted <= decided
    /\ run = "escalated" => escalations = 1
    /\ run = "succeeded" => decided = 1 /\ executed # {}

\* A user who cancels an intent that needed approval never sees a result of it
\* afterwards: delivery is suppressed, and a cancellation is refused once the
\* result is posted.  (The unlocked link of an auto-approved intent may undo a
\* cancellation, so nothing is promised there.)
NoResultAfterCancel == ~autoApproved /\ wasCancelled => posted = 0

\* The claim on a run is never replaced, a run never becomes queued again, and a
\* terminal run is only ever rewritten by the failure record of a request.
NoTakeover ==
    [][/\ owner # NoOne => owner' = owner
       /\ run # "queued" /\ run' = "queued" => run = "none"
       /\ run \in Terminal /\ run' # run => \E r \in Requests : req[r] = "failRun"]_vars

\* A queued run whose task is in Redis reaches a terminal status, unless a call
\* fails or a process dies: whichever worker pops the task accepts and decides.
QueuedRunEnds == run = "queued" /\ queue > 0 ~> run \in Terminal \/ outages > 0
=============================================================================
