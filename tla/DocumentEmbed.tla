---------------------------- MODULE DocumentEmbed ----------------------------
(***************************************************************************)
(* Embedding of uploaded documents: the upload route commits the row and      *)
(* pushes a task, a worker claims the row and lets a child process write the   *)
(* chunks under an execution bound, and a sweeper inside the worker loop        *)
(* fails the rows a killed worker left in "processing".                         *)
(*                                                                         *)
(* A claim stands for its embedding_started_at: the timestamps of two claims   *)
(* differ, so claims are numbered.  age[c] counts ticks since claim c.          *)
(***************************************************************************)
EXTENDS Naturals, FiniteSets

CONSTANTS
    Docs,               \* uploaded documents
    Workers,            \* document-embed worker processes
    MaxCopies,          \* pushes of one enqueue (_with_reconnect tries twice)
    Bound,              \* DOCUMENT_EMBED_EXECUTION_TIMEOUT_SECONDS, in ticks
    Margin,             \* reap and terminal transaction after the bound, in ticks
    Stale,              \* DOCUMENT_EMBED_STALE_SECONDS, in ticks
    BatchLimit,         \* DOCUMENT_EMBED_SWEEP_BATCH_LIMIT
    MaxKills,           \* bound: worker processes killed and sweeps failed
    MaxClaims           \* bound: claims made, one for each task at most

ASSUME DocumentEmbedAssumption == /\ MaxCopies \in Nat \ {0}
                                  /\ Bound \in Nat \ {0}
                                  /\ Margin \in Nat
                                  /\ Stale \in Nat \ {0}
                                  /\ BatchLimit \in Nat \ {0}
                                  /\ MaxKills \in Nat
                                  /\ MaxClaims \in Nat
                                  /\ IsFiniteSet(Workers)

Claims == 1..MaxClaims
OldAge == Stale + 1     \* ages from here on are alike

VARIABLES
    row,                \* row[d]: embedding_status, claim and parsed_text
    api,                \* api[d]: where the upload request is
    queue,              \* queue[d]: tasks of d in Redis
    pushed,             \* pushed[d]: tasks ever pushed for d
    wk,                 \* wk[w]: where worker w is, and on what
    age,                \* age[c]: ticks since claim c was made
    lastClaim,          \* claims made so far
    chunks,             \* chunks[d]: times the chunks of d were written
    kills               \* workers killed so far

vars == <<row, api, queue, pushed, wk, age, lastClaim, chunks, kills>>

upVars == <<api, queue, pushed>>
timeVars == <<age, lastClaim>>

Statuses == {"none", "pending", "processing", "ready", "failed"}
IdleWorker(d) == [pc |-> "idle", doc |-> d, claim |-> 0, child |-> "none",
                  out |-> "failed", found |-> {}]

Init == /\ row = [d \in Docs |-> [status |-> "none", claim |-> 0, text |-> "none"]]
        /\ api = [d \in Docs |-> "new"]
        /\ queue = [d \in Docs |-> 0]
        /\ pushed = [d \in Docs |-> 0]
        /\ \E d \in Docs : wk = [w \in Workers |-> IdleWorker(d)]
        /\ age = [c \in Claims |-> 0]
        /\ lastClaim = 0
        /\ chunks = [d \in Docs |-> 0]
        /\ kills = 0

-----------------------------------------------------------------------------
(* The upload route                                                         *)

\* The row is committed; a document without text fails at once, and one whose
\* text is only white space is queued all the same.
UploadDocument(d) ==
    /\ api[d] = "new"
    /\ \E t \in {"none", "blank", "body"} :
           /\ row' = [row EXCEPT ![d] = [status |-> IF t = "none" THEN "failed" ELSE "pending",
                                         claim |-> 0, text |-> t]]
           /\ api' = [api EXCEPT ![d] = IF t = "none" THEN "done" ELSE "enqueue"]
    /\ UNCHANGED <<queue, pushed, wk, timeVars, chunks, kills>>

\* enqueue_document_embed: the push is tried again after a lost answer, and
\* fails with or without having been applied.
EnqueueDocumentEmbed(d) ==
    /\ api[d] = "enqueue"
    /\ \E n \in 0..MaxCopies, ok \in BOOLEAN :
           /\ ok => n > 0
           /\ queue' = [queue EXCEPT ![d] = n]
           /\ pushed' = [pushed EXCEPT ![d] = n]
           /\ api' = [api EXCEPT ![d] = IF ok THEN "done" ELSE "refused"]
    /\ UNCHANGED <<row, wk, timeVars, chunks, kills>>

\* The except branch of the route writes failed whatever the row says by now.
MarkEnqueueFailed(d) ==
    /\ api[d] = "refused"
    /\ row' = [row EXCEPT ![d].status = "failed", ![d].claim = 0]
    /\ api' = [api EXCEPT ![d] = "done"]
    /\ UNCHANGED <<queue, pushed, wk, timeVars, chunks, kills>>

-----------------------------------------------------------------------------
(* The worker: process_document_embed_task                                  *)

Goto(w, s) == wk' = [wk EXCEPT ![w].pc = s]

DequeueDocumentEmbed(w, d) ==
    /\ wk[w].pc = "idle"
    /\ queue[d] > 0
    /\ queue' = [queue EXCEPT ![d] = @ - 1]
    /\ wk' = [wk EXCEPT ![w] = [IdleWorker(d) EXCEPT !.pc = "load"]]
    /\ UNCHANGED <<row, api, pushed, timeVars, chunks, kills>>

\* A document that is ready is skipped, one without text is refused.
_load_document(w) ==
    LET r == row[wk[w].doc] IN
    /\ wk[w].pc = "load"
    /\ Goto(w, IF r.status = "ready" THEN "idle"
               ELSE IF r.text # "body" THEN "refuse" ELSE "claim")
    /\ UNCHANGED <<row, upVars, timeVars, chunks, kills>>

\* _update_status is an UPDATE by id, without a condition on the old status.
_update_status(d, s, c) == row' = [row EXCEPT ![d].status = s, ![d].claim = c]

RefuseWithoutText(w) ==
    /\ wk[w].pc = "refuse"
    /\ _update_status(wk[w].doc, "failed", 0)
    /\ Goto(w, "idle")
    /\ UNCHANGED <<upVars, timeVars, chunks, kills>>

ClaimDocument(w) ==
    LET c == lastClaim + 1 IN
    /\ wk[w].pc = "claim"
    /\ lastClaim < MaxClaims
    /\ _update_status(wk[w].doc, "processing", c)
    /\ lastClaim' = c
    /\ age' = [age EXCEPT ![c] = 0]
    /\ wk' = [wk EXCEPT ![w] = [@ EXCEPT !.pc = "embed", !.claim = c, !.child = "working"]]
    /\ UNCHANGED <<upVars, chunks, kills>>

\* _embed_document in the child: chunks get fresh identifiers, so a second
\* write adds them again.
WriteDocumentChunks(w) ==
    /\ wk[w].child = "working"
    /\ chunks' = [chunks EXCEPT ![wk[w].doc] = @ + 1]
    /\ wk' = [wk EXCEPT ![w].child = "wrote"]
    /\ UNCHANGED <<row, upVars, timeVars, kills>>

\* _BoundedEmbedding._run: the child answers, or fails and is reaped.
ChildAnswers(w) ==
    /\ wk[w].pc = "embed"
    /\ \E o \in {"ready", "failed"} :
           /\ o = "ready" => wk[w].child = "wrote"
           /\ wk' = [wk EXCEPT ![w] = [@ EXCEPT !.pc = "finish", !.out = o, !.child = "none"]]
    /\ UNCHANGED <<row, upVars, timeVars, chunks, kills>>

\* Mutant: the bound gives up waiting but leaves the child running.
TimeoutWithoutReap(w) ==
    /\ wk[w].pc = "embed"
    /\ age[wk[w].claim] >= Bound
    /\ wk' = [wk EXCEPT ![w].pc = "finish", ![w].out = "failed"]
    /\ UNCHANGED <<row, upVars, timeVars, chunks, kills>>

\* The bound passes: the child is killed and reaped, and the task fails.
ExecutionTimeout(w) ==
    /\ wk[w].pc = "embed"
    /\ age[wk[w].claim] >= Bound
    /\ wk' = [wk EXCEPT ![w] = [@ EXCEPT !.pc = "finish", !.out = "failed", !.child = "none"]]
    /\ UNCHANGED <<row, upVars, timeVars, chunks, kills>>

FinishDocument(w) ==
    /\ wk[w].pc = "finish"
    /\ _update_status(wk[w].doc, wk[w].out, wk[w].claim)
    /\ Goto(w, "idle")
    /\ UNCHANGED <<upVars, timeVars, chunks, kills>>

\* The process is killed, or exits because its child could not be reaped
\* (_WriterNotReaped): the popped task is gone and the row stays as it is.
KillWorker(w) ==
    /\ kills < MaxKills
    /\ kills' = kills + 1
    /\ wk' = [wk EXCEPT ![w] = [IdleWorker(wk[w].doc) EXCEPT !.pc = "down"]]
    /\ UNCHANGED <<row, upVars, timeVars, chunks>>

RestartWorker(w) ==
    /\ wk[w].pc = "down"
    /\ Goto(w, "idle")
    /\ UNCHANGED <<row, upVars, timeVars, chunks, kills>>

-----------------------------------------------------------------------------
(* The sweeper                                                              *)

\* Mutant: the sweep looks for rows without a claim time.
WithoutClaimTime == {d \in Docs : row[d].status = "processing" /\ row[d].claim = 0}

\* Documents in processing whose claim is older than the stale age.
Abandoned == {d \in Docs : row[d].status = "processing" /\ age[row[d].claim] > Stale}

\* The oldest candidates, at most a batch.
SweepCandidates(w) ==
    /\ wk[w].pc = "idle"
    /\ \E found \in SUBSET Abandoned :
           /\ found # {}
           /\ \/ found = Abandoned /\ Cardinality(found) <= BatchLimit
              \/ /\ Cardinality(found) = BatchLimit
                 /\ \A d \in found, e \in Abandoned \ found : age[row[d].claim] >= age[row[e].claim]
           /\ wk' = [wk EXCEPT ![w].pc = "sweep",
                               ![w].found = {<<d, row[d].claim>> : d \in found}]
    /\ UNCHANGED <<row, upVars, timeVars, chunks, kills>>

\* Mutant: the update does not look at the claim it has read.
ClaimIgnored(w, d) ==
    /\ row[d].status = "processing"
    /\ \E c \in Claims : <<d, c>> \in wk[w].found

\* The predicate of the compare-and-set: status and claim as they were read.
ClaimStillHeld(w, d) ==
    /\ row[d].status = "processing"
    /\ <<d, row[d].claim>> \in wk[w].found

\* Mutant: recovery puts the document back into the queue.
SweepRequeues(w) ==
    /\ wk[w].pc = "sweep"
    /\ row' = [d \in Docs |-> IF ClaimStillHeld(w, d) THEN [row[d] EXCEPT !.status = "pending"]
                              ELSE row[d]]
    /\ queue' = [d \in Docs |-> IF ClaimStillHeld(w, d) THEN queue[d] + 1 ELSE queue[d]]
    /\ wk' = [wk EXCEPT ![w].pc = "idle", ![w].found = {}]
    /\ UNCHANGED <<api, pushed, timeVars, chunks, kills>>

\* _abandoned_processing_statement
SweepUpdate(w) ==
    /\ wk[w].pc = "sweep"
    /\ row' = [d \in Docs |-> IF ClaimStillHeld(w, d) THEN [row[d] EXCEPT !.status = "failed"]
                              ELSE row[d]]
    /\ wk' = [wk EXCEPT ![w].pc = "idle", ![w].found = {}]
    /\ UNCHANGED <<upVars, timeVars, chunks, kills>>

\* A sweep that fails is rolled back and tried again in a later pass.
SweepFails(w) ==
    /\ wk[w].pc = "sweep"
    /\ kills < MaxKills
    /\ kills' = kills + 1
    /\ wk' = [wk EXCEPT ![w].pc = "idle", ![w].found = {}]
    /\ UNCHANGED <<row, upVars, timeVars, chunks>>

-----------------------------------------------------------------------------
\* Time does not pass a live worker's bound: the parent polls the deadline, and
\* reap and terminal transaction have budgets of their own.
WithinBudget(w) ==
    /\ wk[w].pc = "embed" => age[wk[w].claim] < Bound
    /\ wk[w].pc = "finish" => age[wk[w].claim] < Bound + Margin

Tick == /\ \A w \in Workers : WithinBudget(w)
        /\ \E c \in 1..lastClaim : age[c] < OldAge
        /\ age' = [c \in Claims |-> IF c <= lastClaim /\ age[c] < OldAge THEN age[c] + 1
                                    ELSE age[c]]
        /\ UNCHANGED <<row, upVars, wk, lastClaim, chunks, kills>>

WorkerStep(w) == \/ \E d \in Docs : DequeueDocumentEmbed(w, d)
                 \/ _load_document(w) \/ RefuseWithoutText(w) \/ ClaimDocument(w)
                 \/ ChildAnswers(w) \/ ExecutionTimeout(w) \/ FinishDocument(w)
                 \/ RestartWorker(w) \/ SweepUpdate(w)

Next == \/ \E d \in Docs : UploadDocument(d) \/ EnqueueDocumentEmbed(d) \/ MarkEnqueueFailed(d)
        \/ \E w \in Workers : \/ WorkerStep(w) \/ WriteDocumentChunks(w)
                              \/ SweepCandidates(w) \/ SweepFails(w) \/ KillWorker(w)
        \/ Tick

Spec == Init /\ [][Next]_vars

\* Worker loops run and are restarted by the container runtime, a sweep is due
\* again and again, and time passes.
FairSpec == /\ Spec
            /\ WF_vars(Tick)
            /\ \A w \in Workers : WF_vars(WorkerStep(w)) /\ WF_vars(SweepCandidates(w))

-----------------------------------------------------------------------------
(* Properties                                                               *)

TypeOK == /\ row \in [Docs -> [status : Statuses, claim : 0..MaxClaims,
                               text : {"none", "blank", "body"}]]
          /\ \A d \in Docs : row[d].status = "processing" => row[d].claim # 0
          /\ api \in [Docs -> {"new", "enqueue", "refused", "done"}]
          /\ queue \in [Docs -> 0..MaxCopies]
          /\ pushed \in [Docs -> 0..MaxCopies]
          /\ wk \in [Workers -> [pc : {"idle", "load", "refuse", "claim", "embed", "finish",
                                       "sweep", "down"},
                                 doc : Docs, claim : 0..MaxClaims, child : {"none", "working", "wrote"},
                                 out : {"ready", "failed"},
                                 found : SUBSET (Docs \X Claims)]]
          /\ age \in [Claims -> 0..OldAge]
          /\ lastClaim \in 0..MaxClaims
          /\ chunks \in [Docs -> Nat]
          /\ kills \in 0..MaxKills

\* The sweeper never takes a document from a live worker: while the row shows
\* the claim of a worker that is still embedding, it is in processing, even if
\* the sweeper read an older claim of the same document before.
\* ("without stealing documents that a live worker is actively embedding")
LiveNotStolen ==
    \A w \in Workers :
        wk[w].pc \in {"embed", "finish"} /\ row[wk[w].doc].claim = wk[w].claim
            => row[wk[w].doc].status = "processing"

\* Recovery is not a re-embed: the chunks of a document are written at most
\* once for each task the route pushed, never for a document without text, and
\* a ready document has them, whatever was killed, timed out or swept.
OneEmbedPerTask ==
    \A d \in Docs : /\ chunks[d] + queue[d] <= pushed[d]
                    /\ row[d].text # "body" => chunks[d] = 0
                    /\ row[d].status = "ready" => chunks[d] > 0

\* Chunks are only written within the execution bound of a claim the worker
\* still works on: no writer survives the terminal status of its own task.
NoLateWriter ==
    [][\A d \in Docs : chunks'[d] # chunks[d] =>
          \E w \in Workers : /\ wk[w].pc = "embed" /\ wk[w].doc = d
                             /\ age[wk[w].claim] <= Bound]_vars

\* A document left in processing by a killed worker is terminally failed: no
\* document stays in processing.  (docs/architecture/00-current-state.md)
ProcessingResolves ==
    \A d \in Docs : row[d].status = "processing" ~> row[d].status # "processing"
=============================================================================
