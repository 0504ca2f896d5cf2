---------------------------- MODULE AccountImport ----------------------------
(***************************************************************************)
(* One OpenAI account-import job: the browser stages files and finalizes, the *)
(* job is pushed to Redis, a worker imports conversations and media in       *)
(* batches behind a durable checkpoint and hands committed conversations to   *)
(* the embedding queue, and a worker that comes back after a crash pushes     *)
(* every unfinished job again.                                               *)
(*                                                                         *)
(* A batch is one conversation or one media file; a conversation stands for   *)
(* its messages.  One transaction looks it up and writes it, but the lookup    *)
(* takes no lock: it is a step of its own, and what the other run committed   *)
(* meanwhile meets the unique index only when the rows are written.           *)
(***************************************************************************)
EXTENDS Naturals, FiniteSets

CONSTANTS
    Convs,              \* conversations of the export
    Media,              \* supported media files of the export
    Requests,           \* finalize and retry requests
    Workers,            \* account-import worker processes
    Nothing,            \* no batch in hand, no embedding task in hand
    Files,              \* declared file count
    MaxCopies,          \* pushes of one enqueue (_with_reconnect tries twice)
    MaxLateCopies,      \* pushes of one enqueue that raises all the same
    MaxOutages          \* bound: exceptions, failed pushes and dead processes

ASSUME AccountImportAssumption == /\ Convs # {} /\ IsFiniteSet(Convs)
                                  /\ IsFiniteSet(Media)
                                  /\ Files \in Nat \ {0}
                                  /\ MaxCopies \in Nat \ {0}
                                  /\ MaxLateCopies \in 0..MaxCopies
                                  /\ MaxOutages \in Nat
                                  /\ Nothing \notin Convs \cup Media

VARIABLES
    status,             \* status of the job
    staged,             \* uploaded_file_count
    ckConvs,            \* checkpoint: conversation_ids
    ckMedia,            \* checkpoint: media_paths
    count,              \* the counters of the job
    queue,              \* tasks of the job in Redis
    empty,              \* the conversations of this export that yield no message
    rows,               \* rows[c]: copies of c in the canonical tables
    assets,             \* assets[m]: active media assets of m
    embed,              \* embed[c]: embedding_status of the messages of c
    embedQueue,         \* embedQueue[c]: import-embedding tasks of c in Redis
    vectors,            \* vectors[c]: the copies of c with a record in the vector store
    embedder,           \* the conversation the embedding worker has in hand
    req,                \* req[r]: where request r is
    pc,                 \* pc[w]: where worker w is
    done,               \* done[w]: conversations worker w skips
    doneMedia,          \* doneMedia[w]: media worker w skips
    batch,              \* batch[w]: the item in hand, how it is written, the status read
    handed,             \* history: conversations handed to the embedding queue
    outages,            \* outages so far
    lost                \* history: a terminal write or an API process was lost

jobVars == <<status, staged, ckConvs, ckMedia, count>>
canonVars == <<empty, rows, assets>>
embedVars == <<embed, embedQueue, vectors, embedder, handed>>
localVars == <<done, doneMedia, batch>>
vars == <<jobVars, queue, canonVars, embedVars, req, pc, localVars, outages, lost>>

Completed == {"completed"}
Terminal == {"completed", "failed"}
Batch(i, h, s) == [item |-> i, how |-> h, meta |-> s]
Nil == Batch(Nothing, "none", "none")

Written == {c \in Convs : rows[c] > 0}
Stored == {m \in Media : assets[m] > 0}

Init == /\ status = "receiving" /\ staged = 0
        /\ ckConvs = {} /\ ckMedia = {}
        /\ count = [threads |-> 0, media |-> 0, dup |-> 0, skipped |-> 0]
        /\ queue = 0
        /\ empty \in SUBSET Convs
        /\ rows = [c \in Convs |-> 0] /\ assets = [m \in Media |-> 0]
        /\ embed = [c \in Convs |-> "none"]
        /\ embedQueue = [c \in Convs |-> 0]
        /\ vectors = [c \in Convs |-> {}]
        /\ embedder = Nothing
        /\ handed = {}
        /\ req = [r \in Requests |-> "idle"]
        /\ pc = [w \in Workers |-> "idle"]
        /\ done = [w \in Workers |-> {}]
        /\ doneMedia = [w \in Workers |-> {}]
        /\ batch = [w \in Workers |-> Nil]
        /\ outages = 0 /\ lost = FALSE

Outage == outages < MaxOutages /\ outages' = outages + 1

-----------------------------------------------------------------------------
(* The browser and the routes                                               *)

ReqGoto(r, s) == req' = [req EXCEPT ![r] = s]

StageFiles == /\ status = "receiving"
              /\ staged < Files
              /\ staged' = staged + 1
              /\ UNCHANGED <<status, ckConvs, ckMedia, count, queue, canonVars, embedVars,
                             req, pc, localVars, lost, outages>>

\* finalize_job: queued commits before the push.
FinalizeJob(r) == /\ req[r] = "idle"
                  /\ status = "receiving" /\ staged = Files
                  /\ status' = "queued"
                  /\ ReqGoto(r, "publish")
                  /\ UNCHANGED <<staged, ckConvs, ckMedia, count, queue, canonVars, embedVars,
                                 pc, localVars, lost, outages>>

\* _is_zero_write_job looks at the counters of the job.
ZeroWrite == count.threads = 0 /\ count.media = 0

\* retry_failed_account_import
RetryFailedImport(r) == /\ req[r] = "idle"
                        /\ status = "failed" /\ ZeroWrite
                        /\ status' = "queued"
                        /\ ReqGoto(r, "republish")
                        /\ UNCHANGED <<staged, ckConvs, ckMedia, count, queue, canonVars,
                                       embedVars, pc, localVars, lost, outages>>

\* The push, which may be repeated, or reported as failed although it arrived.
EnqueueTask(r) ==
    /\ req[r] \in {"publish", "republish"}
    /\ \/ /\ \E n \in 1..MaxCopies : queue' = queue + n
          /\ ReqGoto(r, "done")
          /\ UNCHANGED outages
       \/ /\ Outage
          /\ \E n \in 0..MaxLateCopies : queue' = queue + n
          /\ ReqGoto(r, IF req[r] = "publish" THEN "revert" ELSE "refail")
    /\ UNCHANGED <<jobVars, canonVars, embedVars, pc, localVars, lost>>

\* A refused push takes the job back, but only while nobody has started it.
RevertJob(r) ==
    /\ req[r] \in {"revert", "refail"}
    /\ status' = IF status # "queued" THEN status
                 ELSE IF req[r] = "revert" THEN "receiving" ELSE "failed"
    /\ ReqGoto(r, "done")
    /\ UNCHANGED <<staged, ckConvs, ckMedia, count, queue, canonVars, embedVars, pc,
                   localVars, lost, outages>>

\* The API process dies between the commit and the push.
RequestDies(r) == /\ req[r] \in {"publish", "republish", "revert", "refail"}
                  /\ Outage
                  /\ lost' = TRUE
                  /\ ReqGoto(r, "done")
                  /\ UNCHANGED <<jobVars, queue, canonVars, embedVars, pc, localVars>>

-----------------------------------------------------------------------------
(* A worker: process_account_import_task                                    *)

Goto(w, s) == pc' = [pc EXCEPT ![w] = s]

\* The call returns, or the process dies: its local variables are gone.
Forget(w) == /\ done' = [done EXCEPT ![w] = {}]
             /\ doneMedia' = [doneMedia EXCEPT ![w] = {}]
             /\ batch' = [batch EXCEPT ![w] = Nil]

PopTask(w) == /\ pc[w] = "idle"
              /\ queue > 0
              /\ queue' = queue - 1
              /\ Goto(w, "mark")
              /\ UNCHANGED <<jobVars, canonVars, embedVars, req, localVars, lost, outages>>

\* Any status other than queued and running raises, and the handler fails the
\* job.
MarkRunning(w) ==
    /\ pc[w] = "mark"
    /\ \/ /\ status \in Completed
          /\ Goto(w, "idle")
          /\ UNCHANGED status
       \/ /\ status \in {"queued", "running"}
          /\ status' = "running"
          /\ Goto(w, "snapshot")
       \/ /\ status \in {"receiving", "failed"}
          /\ Goto(w, "fail")
          /\ UNCHANGED status
    /\ UNCHANGED <<staged, ckConvs, ckMedia, count, queue, canonVars, embedVars, req,
                   localVars, lost, outages>>

\* materialize_staged_export returns the snapshot of the checkpoint.
MaterializeStagedExport(w) ==
    /\ pc[w] = "snapshot"
    /\ done' = [done EXCEPT ![w] = ckConvs]
    /\ doneMedia' = [doneMedia EXCEPT ![w] = ckMedia]
    /\ batch' = [batch EXCEPT ![w] = Nil]
    /\ Goto(w, "reconcile")
    /\ UNCHANGED <<jobVars, queue, canonVars, embedVars, req, outages, lost>>

\* Push the tasks of the conversations in S whose messages are still pending;
\* a failure leaves a part of them pushed.
Pending(S) == {c \in S \cap Written : embed[c] = "pending"}
PushEmbeddings(S) == /\ embedQueue' = [c \in Convs |-> embedQueue[c] + (IF c \in S THEN 1 ELSE 0)]
                     /\ handed' = handed \cup S

EnqueuePendingEmbeddings(w, S, next) ==
    /\ \/ /\ PushEmbeddings(Pending(S))
          /\ Goto(w, next)
          /\ UNCHANGED outages
       \/ /\ Outage
          /\ \E P \in SUBSET Pending(S) : PushEmbeddings(P)
          /\ Goto(w, "mark")
    /\ UNCHANGED <<embed, vectors, embedder>>

\* Mutant: the worker starts with the conversations that are not yet imported.
SkipReconcile(w) == /\ pc[w] = "reconcile"
                    /\ Goto(w, "convs")
                    /\ UNCHANGED <<jobVars, queue, canonVars, embedVars, req, localVars, lost,
                                   outages>>

\* Conversations checkpointed by an earlier run are handed off again before the
\* importer skips them; a Redis failure restarts the task after a pause.
ReconcileHandoff(w) ==
    /\ pc[w] = "reconcile"
    /\ EnqueuePendingEmbeddings(w, ckConvs, "convs")
    /\ UNCHANGED <<jobVars, queue, canonVars, req, localVars, lost>>

\* ingest_chatgpt_conversation_records and _find_existing_thread_for_source: a
\* conversation that yields no message is passed over; of any other the lookup
\* says whether it is there, and what the metadata of its messages says.
FindExistingThread(w) ==
    /\ pc[w] = "convs"
    /\ \E c \in Convs \ done[w] :
         \/ /\ c \in empty
            /\ batch' = [batch EXCEPT ![w] = Batch(c, "skipped", "none")]
            /\ Goto(w, "record")
         \/ /\ c \notin empty
            /\ batch' = [batch EXCEPT ![w] =
                   Batch(c, IF c \in Written THEN "duplicate" ELSE "created", embed[c])]
            /\ Goto(w, "write")
    /\ UNCHANGED <<jobVars, queue, canonVars, embedVars, req, done, doneMedia, lost, outages>>

\* Mutant: the messages have no unique index on their source ids.
NoSourceIndex(c) == TRUE

\* The unique index uq_chat_messages_source_thread_message.
SourceIdsFree(c) == rows[c] = 0

\* The transaction commits; what comes after it may still raise.
Committed(w) == \/ Goto(w, "record") /\ UNCHANGED outages
                \/ Goto(w, "fail") /\ Outage

\* _write_canonical_messages up to the commit: a known conversation gets the
\* metadata of the lookup merged and written back, a new one its rows; the index
\* refuses the rows another run committed since, which rolls the transaction back
\* and ends the import.
WriteCanonicalMessages(w) ==
    /\ pc[w] = "write"
    /\ LET c == batch[w].item IN
         \/ /\ batch[w].how = "duplicate"
            /\ embed' = [embed EXCEPT ![c] = batch[w].meta]
            /\ Committed(w)
            /\ UNCHANGED rows
         \/ /\ batch[w].how = "created" /\ SourceIdsFree(c)
            /\ rows' = [rows EXCEPT ![c] = @ + 1]
            /\ embed' = [embed EXCEPT ![c] = "pending"]
            /\ Committed(w)
         \/ /\ batch[w].how = "created" /\ ~SourceIdsFree(c)
            /\ Goto(w, "fail")
            /\ UNCHANGED <<rows, embed, outages>>
    /\ batch' = [batch EXCEPT ![w].meta = "none"]
    /\ UNCHANGED <<jobVars, queue, empty, assets, embedQueue, vectors, embedder, handed, req, done,
                   doneMedia, lost>>

\* The importer raises before its transaction commits: nothing is written.
ImportRaises(w) ==
    /\ pc[w] \in {"convs", "write"}
    /\ Outage
    /\ Goto(w, "fail")
    /\ batch' = [batch EXCEPT ![w] = Nil]
    /\ UNCHANGED <<jobVars, queue, canonVars, embedVars, req, done, doneMedia, lost>>

\* Mutant: a batch is credited without a look at the checkpoint.
CreditAlways(w, ck) == TRUE

\* Only an item the checkpoint does not name yet is credited.
NewlyCompleted(w, ck) == batch[w].item \notin ck

Credit(w, field, ck) ==
    IF ~NewlyCompleted(w, ck) THEN count
    ELSE CASE batch[w].how = "skipped"   -> [count EXCEPT !.skipped = @ + 1]
           [] batch[w].how = "created"   -> [count EXCEPT ![field] = @ + 1]
           [] batch[w].how = "duplicate" /\ field = "threads" ->
                  [count EXCEPT !.threads = @ + 1, !.dup = @ + 1]
           [] OTHER -> [count EXCEPT !.dup = @ + 1]

\* Mutant: the errors of the importer are not raised.
RecordErrorIgnored(w) ==
    /\ pc[w] = "record"
    /\ \/ /\ count' = Credit(w, "threads", ckConvs)
          /\ ckConvs' = ckConvs \cup {batch[w].item}
          /\ Goto(w, "handoff")
          /\ UNCHANGED outages
       \/ /\ Outage
          /\ Goto(w, "media")
          /\ UNCHANGED <<count, ckConvs>>
    /\ UNCHANGED <<status, staged, ckMedia, queue, canonVars, embedVars, req, localVars, lost>>

\* record_conversation_batch, under the row lock of the job; its exception ends
\* the importer and fails the job.
RecordConversationBatch(w) ==
    /\ pc[w] = "record"
    /\ \/ /\ count' = Credit(w, "threads", ckConvs)
          /\ ckConvs' = ckConvs \cup {batch[w].item}
          /\ Goto(w, "handoff")
          /\ UNCHANGED outages
       \/ /\ Outage
          /\ Goto(w, "fail")
          /\ UNCHANGED <<count, ckConvs>>
    /\ UNCHANGED <<status, staged, ckMedia, queue, canonVars, embedVars, req, localVars, lost>>

\* The batch is handed off, and the importer goes on to the next one.
HandoffBatch(w) ==
    /\ pc[w] = "handoff"
    /\ done' = [done EXCEPT ![w] = @ \cup {batch[w].item}]
    /\ batch' = [batch EXCEPT ![w] = Nil]
    /\ EnqueuePendingEmbeddings(w, {batch[w].item}, "convs")
    /\ UNCHANGED <<jobVars, queue, canonVars, req, doneMedia, lost>>

ConversationsDone(w) == /\ pc[w] = "convs"
                        /\ Convs \subseteq done[w]
                        /\ Goto(w, "media")
                        /\ UNCHANGED <<jobVars, queue, canonVars, embedVars, req, localVars, lost,
                                       outages>>

\* find_existing_asset reads without a lock; an exception skips the file.
FindExistingAsset(w) ==
    /\ pc[w] = "media"
    /\ \E m \in Media \ doneMedia[w] :
         \/ /\ batch' = [batch EXCEPT ![w] =
                   Batch(m, IF m \in Stored THEN "duplicate" ELSE "created", "none")]
            /\ Goto(w, "insert")
            /\ UNCHANGED outages
         \/ /\ Outage
            /\ batch' = [batch EXCEPT ![w] = Batch(m, "skipped", "none")]
            /\ Goto(w, "recordMedia")
    /\ UNCHANGED <<jobVars, queue, canonVars, embedVars, req, done, doneMedia, lost>>

\* The unique index uq_media_assets_active_identity.
AssetFree(m) == assets[m] = 0

\* import_image_record and its siblings: the index refuses the asset another run
\* committed since, and an exception, before or after the commit, skips the file.
ImportMediaRecord(w) ==
    /\ pc[w] = "insert"
    /\ LET m == batch[w].item
           Insert == assets' = [assets EXCEPT ![m] = @ + 1]
           Skip == batch' = [batch EXCEPT ![w].how = "skipped"] IN
         \/ /\ batch[w].how = "duplicate"
            /\ UNCHANGED <<assets, batch, outages>>
         \/ /\ batch[w].how = "created" /\ AssetFree(m)
            /\ \/ Insert /\ UNCHANGED <<batch, outages>>
               \/ Insert /\ Skip /\ Outage
         \/ /\ batch[w].how = "created" /\ ~AssetFree(m)
            /\ Skip /\ UNCHANGED <<assets, outages>>
         \/ Skip /\ Outage /\ UNCHANGED assets
    /\ Goto(w, "recordMedia")
    /\ UNCHANGED <<jobVars, queue, empty, rows, embedVars, req, done, doneMedia, lost>>

\* record_media_batch, under the row lock of the job.
RecordMediaBatch(w) ==
    /\ pc[w] = "recordMedia"
    /\ \/ /\ count' = Credit(w, "media", ckMedia)
          /\ ckMedia' = ckMedia \cup {batch[w].item}
          /\ doneMedia' = [doneMedia EXCEPT ![w] = @ \cup {batch[w].item}]
          /\ batch' = [batch EXCEPT ![w] = Nil]
          /\ Goto(w, "media")
          /\ UNCHANGED outages
       \/ /\ Outage
          /\ Goto(w, "fail")
          /\ UNCHANGED <<count, ckMedia, doneMedia, batch>>
    /\ UNCHANGED <<status, staged, ckConvs, queue, canonVars, embedVars, req, done, lost>>

\* A job that committed nothing and met nothing it knew is not complete.
NoCommittedEntities == count.threads = 0 /\ count.media = 0 /\ count.dup = 0

CompleteJob(w) ==
    /\ pc[w] = "media"
    /\ Media \subseteq doneMedia[w]
    /\ \/ /\ status \in Terminal
          /\ Goto(w, "idle")
          /\ UNCHANGED status
       \/ /\ status \notin Terminal /\ NoCommittedEntities
          /\ Goto(w, "fail")
          /\ UNCHANGED status
       \/ /\ status \notin Terminal /\ ~NoCommittedEntities
          /\ status' = "completed"
          /\ Goto(w, "idle")
    /\ Forget(w)
    /\ UNCHANGED <<staged, ckConvs, ckMedia, count, queue, canonVars, embedVars, req, lost,
                   outages>>

\* Mutant: the failure is written over whatever the job says.
FailAlways(w) ==
    /\ pc[w] = "fail"
    /\ status' = "failed"
    /\ Goto(w, "idle")
    /\ Forget(w)
    /\ UNCHANGED <<staged, ckConvs, ckMedia, count, queue, canonVars, embedVars, req, lost,
                   outages>>

\* fail_job, whose own failure is only logged.
FailJob(w) ==
    /\ pc[w] = "fail"
    /\ \/ /\ status' = IF status \in Terminal THEN status ELSE "failed"
          /\ UNCHANGED <<outages, lost>>
       \/ /\ Outage
          /\ lost' = TRUE
          /\ UNCHANGED status
    /\ Goto(w, "idle")
    /\ Forget(w)
    /\ UNCHANGED <<staged, ckConvs, ckMedia, count, queue, canonVars, embedVars, req>>

KillWorker(w) == /\ pc[w] # "down"
                 /\ Outage
                 /\ Goto(w, "down")
                 /\ Forget(w)
                 /\ UNCHANGED <<jobVars, queue, canonVars, embedVars, req, lost>>

\* Mutant: only queued jobs are recovered.
RecoverQueued == IF status = "queued" THEN 1 ELSE 0

\* recover_incomplete_jobs
RecoverIncompleteJobs == IF status \in {"queued", "running"} THEN 1 ELSE 0

\* run_forever: every incomplete job is pushed again before the first pop.
RestartWorker(w) == /\ pc[w] = "down"
                    /\ queue' = queue + RecoverIncompleteJobs
                    /\ Goto(w, "idle")
                    /\ UNCHANGED <<jobVars, canonVars, embedVars, req, localVars, lost, outages>>

-----------------------------------------------------------------------------
(* The embedding worker: process_chat_embed_task                            *)

TakeEmbedTask(c) ==
    /\ embedder = Nothing
    /\ embedQueue[c] > 0
    /\ embedQueue' = [embedQueue EXCEPT ![c] = @ - 1]
    /\ \/ /\ embed[c] = "ready"
          /\ UNCHANGED <<embed, embedder>>
       \/ /\ embed[c] # "ready"
          /\ embed' = [embed EXCEPT ![c] = "processing"]
          /\ embedder' = c
    /\ UNCHANGED <<jobVars, queue, canonVars, vectors, handed, req, pc, localVars, lost, outages>>

\* The record's id is derived from the message, so it replaces itself.
UpsertRecord(R, k) == R \cup {k}

\* The task names one canonical message, so one copy of the conversation.
StoreRecord == \E k \in 1..rows[embedder] :
                   vectors' = [vectors EXCEPT ![embedder] = UpsertRecord(@, k)]

StoreEmbedding ==
    /\ embedder # Nothing
    /\ \/ /\ StoreRecord
          /\ embed' = [embed EXCEPT ![embedder] = "ready"]
          /\ UNCHANGED outages
       \/ /\ Outage
          /\ embed' = [embed EXCEPT ![embedder] = "failed"] \/ UNCHANGED embed
          /\ StoreRecord \/ UNCHANGED vectors
    /\ embedder' = Nothing
    /\ UNCHANGED <<jobVars, queue, canonVars, embedQueue, handed, req, pc, localVars, lost>>

-----------------------------------------------------------------------------
ApiStep(r) == FinalizeJob(r) \/ RetryFailedImport(r) \/ EnqueueTask(r) \/ RevertJob(r)

WorkerStep(w) == \/ PopTask(w) \/ MarkRunning(w) \/ MaterializeStagedExport(w)
                 \/ ReconcileHandoff(w) \/ FindExistingThread(w) \/ WriteCanonicalMessages(w)
                 \/ ImportRaises(w) \/ RecordConversationBatch(w) \/ HandoffBatch(w)
                 \/ ConversationsDone(w) \/ FindExistingAsset(w) \/ ImportMediaRecord(w)
                 \/ RecordMediaBatch(w) \/ CompleteJob(w) \/ FailJob(w) \/ RestartWorker(w)

EmbedStep == (\E c \in Convs : TakeEmbedTask(c)) \/ StoreEmbedding

Next == \/ StageFiles
        \/ \E r \in Requests : ApiStep(r) \/ RequestDies(r)
        \/ \E w \in Workers : WorkerStep(w) \/ KillWorker(w)
        \/ EmbedStep

Spec == Init /\ [][Next]_vars

\* A request in progress goes on, worker loops run, and the container runtime
\* restarts a dead worker (restart: unless-stopped).
FairSpec == /\ Spec
            /\ \A r \in Requests : WF_vars(EnqueueTask(r) \/ RevertJob(r))
            /\ \A w \in Workers : WF_vars(WorkerStep(w))
            /\ WF_vars(EmbedStep)

-----------------------------------------------------------------------------
(* Properties                                                               *)

EmbedStatus == {"none", "pending", "processing", "ready", "failed"}

TypeOK ==
    /\ status \in {"receiving", "queued", "running", "completed", "failed"}
    /\ staged \in 0..Files /\ queue \in Nat /\ outages \in 0..MaxOutages /\ lost \in BOOLEAN
    /\ ckConvs \in SUBSET Convs /\ ckMedia \in SUBSET Media
    /\ count \in [threads : Nat, media : Nat, dup : Nat, skipped : Nat]
    /\ empty \in SUBSET Convs /\ rows \in [Convs -> Nat] /\ assets \in [Media -> Nat]
    /\ embed \in [Convs -> EmbedStatus]
    /\ embedQueue \in [Convs -> Nat] /\ vectors \in [Convs -> SUBSET Nat]
    /\ embedder \in Convs \cup {Nothing} /\ handed \in SUBSET Convs
    /\ req \in [Requests -> {"idle", "publish", "republish", "revert", "refail", "done"}]
    /\ pc \in [Workers -> {"idle", "mark", "snapshot", "reconcile", "convs", "write",
                           "record", "handoff", "media", "insert", "recordMedia", "fail",
                           "down"}]
    /\ done \in [Workers -> SUBSET Convs] /\ doneMedia \in [Workers -> SUBSET Media]
    /\ batch \in [Workers -> [item : Convs \cup Media \cup {Nothing},
                              how : {"none", "created", "duplicate", "skipped"},
                              meta : EmbedStatus]]

\* Nothing is lost by a crash or by an overlapping run: a completed job has every
\* importable conversation in the canonical tables, and names every media file.
CompletedCovers == status = "completed" => /\ Convs \ empty \subseteq Written
                                           /\ Convs \subseteq ckConvs
                                           /\ Media \subseteq ckMedia

\* The embedding of every conversation of a completed job was handed to Redis,
\* also when the run that wrote it died between its checkpoint and its push.
CompletedHandedOff == status = "completed" => Written \subseteq handed

\* However often a batch is replayed, and whichever run records it first, every
\* checkpointed item is counted once: a conversation as imported or skipped, a
\* media file at most once and only when its asset is there.
CountedOnce == /\ count.threads = Cardinality(ckConvs \ empty)
               /\ count.media <= Cardinality(Stored \cap ckMedia)
               /\ count.skipped >= Cardinality(ckConvs \cap empty)

\* Overlapping runs that both found nothing leave one copy of the conversation and
\* one of the file, and the vector store one record per message, which is there
\* when the message says it is embedded, also after a run wrote back the metadata
\* it had read before.  ("Safe idempotency uniqueness for imports", and "the embed
\* worker upserts by canonical message ID so that replay cannot multiply Chroma
\* records".)
StoredOnce == /\ \A c \in Convs : /\ rows[c] <= 1
                                  /\ Cardinality(vectors[c]) <= 1
                                  /\ embed[c] = "ready" => vectors[c] # {}
              /\ \A m \in Media : assets[m] <= 1

\* The job is one of ImportLedger: whatever overlapping runs, late failures and
\* retries do, what is recorded stays recorded, a conversation is offered for
\* embedding only after its checkpoint, a completed job covers everything and
\* stays completed, and a failed one is only left by a retry while no importable
\* conversation is checkpointed.
Ledger == INSTANCE ImportLedger WITH
    phase <- IF status \in Terminal THEN status ELSE "open",
    importable <- Convs \ empty,
    convs <- ckConvs,
    media <- ckMedia,
    offered <- handed

ImplementsLedger == Ledger!Spec

\* An accepted job ends although workers die and Redis fails for a while, because
\* the restarted worker finds it again; only the loss of an API process before
\* its push, or of the write that ends the job, leaves it unfinished.
JobEnds == status \in {"queued", "running"} ~> status \notin {"queued", "running"} \/ lost
=============================================================================
