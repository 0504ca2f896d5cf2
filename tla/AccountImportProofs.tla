------------------------- MODULE AccountImportProofs -------------------------
(***************************************************************************)
(* What an account-import job guarantees for any export, any number of        *)
(* workers and requests, repeated pushes and outages.                         *)
(***************************************************************************)
EXTENDS AccountImport, FiniteSetTheorems, TLAPS

BatchRecord == [item : Convs \cup Media \cup {Nothing},
                how : {"none", "created", "duplicate", "skipped"},
                meta : EmbedStatus]
CountRecord == [threads : Nat, media : Nat, dup : Nat, skipped : Nat]

WorkerPcs == {"idle", "mark", "snapshot", "reconcile", "convs", "write", "record", "handoff",
              "media", "insert", "recordMedia", "fail", "down"}
RequestPcs == {"idle", "publish", "republish", "revert", "refail", "done"}

Types ==
    /\ status \in {"receiving", "queued", "running", "completed", "failed"}
    /\ staged \in 0..Files /\ queue \in Nat /\ outages \in 0..MaxOutages /\ lost \in BOOLEAN
    /\ ckConvs \in SUBSET Convs /\ ckMedia \in SUBSET Media /\ count \in CountRecord
    /\ empty \in SUBSET Convs /\ rows \in [Convs -> Nat] /\ assets \in [Media -> Nat]
    /\ embed \in [Convs -> EmbedStatus]
    /\ embedQueue \in [Convs -> Nat] /\ vectors \in [Convs -> SUBSET Nat]
    /\ embedder \in Convs \cup {Nothing} /\ handed \in SUBSET Convs
    /\ req \in [Requests -> RequestPcs] /\ pc \in [Workers -> WorkerPcs]
    /\ done \in [Workers -> SUBSET Convs] /\ doneMedia \in [Workers -> SUBSET Media]
    /\ batch \in [Workers -> BatchRecord]

\* Where a worker has reconciled the checkpoint it works from.
Importing == {"convs", "write", "record", "handoff", "media", "insert", "recordMedia"}

\* The item in hand was written as the worker says, and is checkpointed before
\* it is handed off.
BatchOK ==
    \A w \in Workers :
        /\ pc[w] = "write" =>
               /\ batch[w].item \in Convs \ empty
               /\ batch[w].how \in {"created", "duplicate"}
               /\ batch[w].how = "duplicate" => batch[w].item \in Written
        /\ pc[w] \in {"record", "handoff"} =>
               /\ batch[w].item \in Convs /\ batch[w].how # "none"
               /\ batch[w].how = "skipped" <=> batch[w].item \in empty
               /\ batch[w].item \in empty \cup Written
        /\ pc[w] = "handoff" => batch[w].item \in ckConvs
        /\ pc[w] = "insert" => /\ batch[w].item \in Media
                               /\ batch[w].how \in {"created", "duplicate"}
        /\ pc[w] = "recordMedia" => /\ batch[w].item \in Media /\ batch[w].how # "none"
                                    /\ batch[w].how = "created" => batch[w].item \in Stored

\* The status a worker has read was true once, and what made it true remains.
MetaOK ==
    \A w \in Workers : pc[w] = "write" =>
        /\ batch[w].how = "duplicate" => batch[w].meta # "none"
        /\ batch[w].meta \notin {"none", "pending"} => batch[w].item \in handed
        /\ batch[w].meta = "ready" => vectors[batch[w].item] # {}

\* What a worker skips is in the checkpoint, and what the checkpoint names is in
\* the canonical tables.
DoneOK == /\ ckConvs \ empty \subseteq Written /\ Written \subseteq Convs \ empty
          /\ \A w \in Workers : done[w] \subseteq ckConvs /\ doneMedia[w] \subseteq ckMedia
          /\ \A w \in Workers : pc[w] \in {"media", "insert", "recordMedia"} =>
                                    Convs \subseteq done[w]

\* What a worker skips was handed off, by itself or by the run before.
HandOK == /\ \A c \in Convs : \/ embed[c] \notin {"none", "pending"}
                              \/ embedQueue[c] > 0
                              \/ embedder = c
                              => c \in handed
          /\ \A c \in Written : embed[c] # "none"
          /\ \A w \in Workers : pc[w] \in Importing => done[w] \ empty \subseteq handed

\* What a completed job has done.
CoverOK == status = "completed" => /\ Convs \subseteq ckConvs
                                   /\ Media \subseteq ckMedia
                                   /\ Convs \ empty \subseteq handed

\* The counters count checkpointed items.
CountOK == /\ count.threads = Cardinality(ckConvs \ empty)
           /\ count.skipped >= Cardinality(ckConvs \cap empty)
           /\ count.media <= Cardinality(Stored \cap ckMedia)

\* One copy of everything, so one record.
StoreOK == /\ \A c \in Convs : /\ rows[c] <= 1 /\ vectors[c] \subseteq {1}
                               /\ embed[c] = "ready" => vectors[c] # {}
           /\ \A m \in Media : assets[m] <= 1

Inv == TypeOK /\ BatchOK /\ MetaOK /\ DoneOK /\ HandOK /\ CoverOK /\ CountOK /\ StoreOK

-----------------------------------------------------------------------------
\* TypeOK with its sets named, before and after a step.
LEMMA TypesAreTypeOK == (TypeOK <=> Types) /\ (TypeOK' <=> Types')
BY DEF TypeOK, Types, BatchRecord, CountRecord, WorkerPcs, RequestPcs

\* The checkpoint and the tables are finite.
LEMMA FiniteParts ==
    ASSUME Types
    PROVE /\ IsFiniteSet(ckConvs \ empty) /\ IsFiniteSet(ckConvs \cap empty)
          /\ IsFiniteSet(Stored \cap ckMedia)
          /\ Cardinality(ckConvs \ empty) \in Nat /\ Cardinality(ckConvs \cap empty) \in Nat
          /\ Cardinality(Stored \cap ckMedia) \in Nat
<1>1. /\ ckConvs \ empty \subseteq Convs /\ ckConvs \cap empty \subseteq Convs
      /\ Stored \cap ckMedia \subseteq Media
  BY DEF Types
<1>2. QED
  BY <1>1, AccountImportAssumption, FS_Subset, FS_CardinalityType

\* What a credit for a conversation adds to the counters.
LEMMA ConversationCredit ==
    ASSUME count \in CountRecord, NEW w \in Workers,
           batch[w].how \in {"created", "duplicate", "skipped"}
    PROVE LET n == Credit(w, "threads", ckConvs) IN
          /\ n \in CountRecord /\ n.media = count.media
          /\ batch[w].item \in ckConvs => n = count
          /\ batch[w].item \notin ckConvs /\ batch[w].how = "skipped" =>
                 n.threads = count.threads /\ n.skipped = count.skipped + 1
          /\ batch[w].item \notin ckConvs /\ batch[w].how # "skipped" =>
                 n.threads = count.threads + 1 /\ n.skipped = count.skipped
<1>1. CASE batch[w].item \in ckConvs
  BY <1>1 DEF Credit, NewlyCompleted
<1>2. CASE batch[w].item \notin ckConvs /\ batch[w].how = "skipped"
  <2>1. Credit(w, "threads", ckConvs) = [count EXCEPT !.skipped = @ + 1]
    BY <1>2 DEF Credit, NewlyCompleted
  <2>2. QED
    BY <1>2, <2>1 DEF CountRecord
<1>3. CASE batch[w].item \notin ckConvs /\ batch[w].how = "created"
  <2>1. Credit(w, "threads", ckConvs) = [count EXCEPT !["threads"] = @ + 1]
    BY <1>3 DEF Credit, NewlyCompleted
  <2>2. QED
    BY <1>3, <2>1 DEF CountRecord
<1>4. CASE batch[w].item \notin ckConvs /\ batch[w].how = "duplicate"
  <2>1. Credit(w, "threads", ckConvs) = [count EXCEPT !.threads = @ + 1, !.dup = @ + 1]
    BY <1>4 DEF Credit, NewlyCompleted
  <2>2. Credit(w, "threads", ckConvs) =
            [threads |-> count.threads + 1, media |-> count.media, dup |-> count.dup + 1,
             skipped |-> count.skipped]
    BY <2>1 DEF CountRecord
  <2>3. QED
    BY <1>4, <2>2 DEF CountRecord
<1>5. QED
  BY <1>1, <1>2, <1>3, <1>4

\* What a credit for a media file adds to the counters.
LEMMA MediaCredit ==
    ASSUME count \in CountRecord, NEW w \in Workers,
           batch[w].how \in {"created", "duplicate", "skipped"}
    PROVE LET n == Credit(w, "media", ckMedia) IN
          /\ n \in CountRecord /\ n.threads = count.threads /\ n.skipped >= count.skipped
          /\ n.media = count.media \/ /\ batch[w].item \notin ckMedia /\ batch[w].how = "created"
                                      /\ n.media = count.media + 1
<1>1. CASE batch[w].item \in ckMedia
  BY <1>1 DEF Credit, NewlyCompleted, CountRecord
<1>2. CASE batch[w].item \notin ckMedia /\ batch[w].how = "skipped"
  <2>1. Credit(w, "media", ckMedia) = [count EXCEPT !.skipped = @ + 1]
    BY <1>2 DEF Credit, NewlyCompleted
  <2>2. QED
    BY <1>2, <2>1 DEF CountRecord
<1>3. CASE batch[w].item \notin ckMedia /\ batch[w].how = "created"
  <2>1. Credit(w, "media", ckMedia) = [count EXCEPT !["media"] = @ + 1]
    BY <1>3 DEF Credit, NewlyCompleted
  <2>2. QED
    BY <1>3, <2>1 DEF CountRecord
<1>4. CASE batch[w].item \notin ckMedia /\ batch[w].how = "duplicate"
  <2>1. Credit(w, "media", ckMedia) = [count EXCEPT !.dup = @ + 1]
    BY <1>4 DEF Credit, NewlyCompleted
  <2>2. QED
    BY <1>4, <2>1 DEF CountRecord
<1>5. QED
  BY <1>1, <1>2, <1>3, <1>4

\* A push adds to the queue exactly what it adds to the hand-offs.
LEMMA Pushed ==
    ASSUME Types, NEW P \in SUBSET Convs, PushEmbeddings(P)
    PROVE /\ embedQueue' \in [Convs -> Nat] /\ handed' = handed \cup P
          /\ \A c \in Convs : embedQueue'[c] > 0 => embedQueue[c] > 0 \/ c \in P
BY DEF Types, PushEmbeddings

\* The tables say what is there.
LEMMA SameTables == /\ rows' = rows => Written' = Written
                    /\ assets' = assets => Stored' = Stored
BY DEF Written, Stored

\* A worker stays where it is, or is not importing after the step.
Quiet(w) == /\ done'[w] \subseteq done[w] /\ doneMedia'[w] \subseteq doneMedia[w]
            /\ \/ pc'[w] = pc[w] /\ batch'[w] = batch[w] /\ done'[w] = done[w]
               \/ pc'[w] \notin Importing

\* A step that leaves the checkpoint, the tables and the embeddings alone, and
\* takes no worker further into the import, keeps all but the type and the
\* completion.
LEMMA QuietStep ==
    ASSUME Inv,
           UNCHANGED <<ckConvs, ckMedia, count, canonVars, embedVars>>,
           \A w \in Workers : Quiet(w)
    PROVE BatchOK' /\ MetaOK' /\ DoneOK' /\ HandOK' /\ CountOK' /\ StoreOK'
<1> USE DEF Inv, canonVars, embedVars, Importing, Quiet
<1>1. Written' = Written /\ Stored' = Stored
  BY SameTables
<1>2. BatchOK'
  BY <1>1 DEF BatchOK
<1>3. MetaOK'
  BY <1>1 DEF MetaOK
<1>4. DoneOK'
  BY <1>1 DEF DoneOK
<1>5. HandOK'
  BY <1>1 DEF HandOK
<1>6. CountOK' /\ StoreOK'
  BY <1>1 DEF CountOK, StoreOK
<1>7. QED
  BY <1>2, <1>3, <1>4, <1>5, <1>6

\* A call that ends leaves nothing in hand.
LEMMA Forgotten ==
    ASSUME Types, NEW w \in Workers, Forget(w)
    PROVE /\ done' \in [Workers -> SUBSET Convs] /\ doneMedia' \in [Workers -> SUBSET Media]
          /\ batch' \in [Workers -> BatchRecord]
          /\ \A v \in Workers : done'[v] \subseteq done[v] /\ doneMedia'[v] \subseteq doneMedia[v]
          /\ \A v \in Workers : v # w => batch'[v] = batch[v] /\ done'[v] = done[v]
BY DEF Types, Forget, Nil, Batch, BatchRecord, EmbedStatus

\* Nothing has happened in an initial state.
LEMMA InitInv == Init => Inv
<1> SUFFICES ASSUME Init PROVE Inv
  OBVIOUS
<1> USE AccountImportAssumption
<1>1. Types
  <2>1. batch \in [Workers -> BatchRecord] /\ count \in CountRecord
    BY DEF Init, Nil, Batch, BatchRecord, CountRecord, EmbedStatus
  <2>2. lost \in BOOLEAN
    BY DEF Init
  <2>3. pc \in [Workers -> WorkerPcs] /\ req \in [Requests -> RequestPcs]
    BY DEF Init, WorkerPcs, RequestPcs
  <2>4. QED
    BY <2>1, <2>2, <2>3 DEF Init, Types, EmbedStatus
<1>2. Written = {} /\ Stored = {}
  BY DEF Init, Written, Stored
<1>3. BatchOK /\ MetaOK /\ DoneOK /\ CoverOK
  BY <1>2 DEF Init, BatchOK, MetaOK, DoneOK, CoverOK
<1>4. HandOK /\ StoreOK
  BY <1>2 DEF Init, HandOK, StoreOK, Importing
<1>5. CountOK
  <2>1. ckConvs \ empty = {} /\ ckConvs \cap empty = {} /\ Stored \cap ckMedia = {}
    BY <1>2 DEF Init
  <2>2. count.threads = 0 /\ count.skipped = 0 /\ count.media = 0
    BY DEF Init
  <2>3. QED
    BY <2>1, <2>2, FS_EmptySet DEF CountOK
<1>6. QED
  BY <1>1, <1>3, <1>4, <1>5, TypesAreTypeOK DEF Inv

-----------------------------------------------------------------------------
(* Every action preserves the invariant                                     *)

\* A staged file is only counted.
LEMMA StageFilesInv ==
    ASSUME Inv, StageFiles
    PROVE Inv'
<1> USE AccountImportAssumption DEF Inv, jobVars, canonVars, embedVars, localVars
<1>1. Types
  BY TypesAreTypeOK
<1>2. UNCHANGED <<ckConvs, ckMedia, count, canonVars, embedVars, localVars>>
  BY DEF StageFiles
<1>3. UNCHANGED pc
  BY DEF StageFiles
<1>4. \A v \in Workers : Quiet(v)
  BY <1>1, <1>2, <1>3 DEF Types, Quiet
<1>5. Types'
  BY <1>1, <1>2, <1>3 DEF StageFiles, Types, Outage
<1>6. CoverOK'
  BY <1>2 DEF StageFiles, CoverOK
<1>7. QED
  BY <1>2, <1>4, <1>5, <1>6, QuietStep, TypesAreTypeOK

\* The job is queued before its task.
LEMMA FinalizeJobInv ==
    ASSUME Inv, NEW r \in Requests, FinalizeJob(r)
    PROVE Inv'
<1> USE AccountImportAssumption DEF Inv, jobVars, canonVars, embedVars, localVars
<1>1. Types
  BY TypesAreTypeOK
<1>2. UNCHANGED <<ckConvs, ckMedia, count, canonVars, embedVars, localVars>>
  BY DEF FinalizeJob
<1>3. UNCHANGED pc
  BY DEF FinalizeJob
<1>4. \A v \in Workers : Quiet(v)
  BY <1>1, <1>2, <1>3 DEF Types, Quiet
<1>5. Types'
  BY <1>1, <1>2, <1>3 DEF FinalizeJob, Types, ReqGoto, RequestPcs
<1>6. CoverOK'
  BY <1>2 DEF FinalizeJob, CoverOK
<1>7. QED
  BY <1>2, <1>4, <1>5, <1>6, QuietStep, TypesAreTypeOK

\* A retry queues the job again.
LEMMA RetryFailedImportInv ==
    ASSUME Inv, NEW r \in Requests, RetryFailedImport(r)
    PROVE Inv'
<1> USE AccountImportAssumption DEF Inv, jobVars, canonVars, embedVars, localVars
<1>1. Types
  BY TypesAreTypeOK
<1>2. UNCHANGED <<ckConvs, ckMedia, count, canonVars, embedVars, localVars>>
  BY DEF RetryFailedImport
<1>3. UNCHANGED pc
  BY DEF RetryFailedImport
<1>4. \A v \in Workers : Quiet(v)
  BY <1>1, <1>2, <1>3 DEF Types, Quiet
<1>5. Types'
  BY <1>1, <1>2, <1>3 DEF RetryFailedImport, Types, ReqGoto, RequestPcs
<1>6. CoverOK'
  BY <1>2 DEF RetryFailedImport, CoverOK
<1>7. QED
  BY <1>2, <1>4, <1>5, <1>6, QuietStep, TypesAreTypeOK

\* A push changes the queue.
LEMMA EnqueueTaskInv ==
    ASSUME Inv, NEW r \in Requests, EnqueueTask(r)
    PROVE Inv'
<1> USE AccountImportAssumption DEF Inv, jobVars, canonVars, embedVars, localVars
<1>1. Types
  BY TypesAreTypeOK
<1>2. UNCHANGED <<ckConvs, ckMedia, count, canonVars, embedVars, localVars>>
  BY DEF EnqueueTask
<1>3. UNCHANGED pc
  BY DEF EnqueueTask
<1>4. \A v \in Workers : Quiet(v)
  BY <1>1, <1>2, <1>3 DEF Types, Quiet
<1>5. Types'
  BY <1>1, <1>2, <1>3 DEF EnqueueTask, Types, ReqGoto, RequestPcs, Outage
<1>6. CoverOK'
  BY <1>2 DEF EnqueueTask, CoverOK
<1>7. QED
  BY <1>2, <1>4, <1>5, <1>6, QuietStep, TypesAreTypeOK

\* A refused push takes a waiting job back.
LEMMA RevertJobInv ==
    ASSUME Inv, NEW r \in Requests, RevertJob(r)
    PROVE Inv'
<1> USE AccountImportAssumption DEF Inv, jobVars, canonVars, embedVars, localVars
<1>1. Types
  BY TypesAreTypeOK
<1>2. UNCHANGED <<ckConvs, ckMedia, count, canonVars, embedVars, localVars>>
  BY DEF RevertJob
<1>3. UNCHANGED pc
  BY DEF RevertJob
<1>4. \A v \in Workers : Quiet(v)
  BY <1>1, <1>2, <1>3 DEF Types, Quiet
<1>5. Types'
  BY <1>1, <1>2, <1>3 DEF RevertJob, Types, ReqGoto, RequestPcs
<1>6. CoverOK'
  BY <1>2 DEF RevertJob, CoverOK
<1>7. QED
  BY <1>2, <1>4, <1>5, <1>6, QuietStep, TypesAreTypeOK

\* A dead request leaves the job as it is.
LEMMA RequestDiesInv ==
    ASSUME Inv, NEW r \in Requests, RequestDies(r)
    PROVE Inv'
<1> USE AccountImportAssumption DEF Inv, jobVars, canonVars, embedVars, localVars
<1>1. Types
  BY TypesAreTypeOK
<1>2. UNCHANGED <<ckConvs, ckMedia, count, canonVars, embedVars, localVars>>
  BY DEF RequestDies
<1>3. UNCHANGED pc
  BY DEF RequestDies
<1>4. \A v \in Workers : Quiet(v)
  BY <1>1, <1>2, <1>3 DEF Types, Quiet
<1>5. Types'
  BY <1>1, <1>2, <1>3 DEF RequestDies, Types, ReqGoto, RequestPcs, Outage
<1>6. CoverOK'
  BY <1>2 DEF RequestDies, CoverOK
<1>7. QED
  BY <1>2, <1>4, <1>5, <1>6, QuietStep, TypesAreTypeOK

\* A popped task is only looked at.
LEMMA PopTaskInv ==
    ASSUME Inv, NEW w \in Workers, PopTask(w)
    PROVE Inv'
<1> USE AccountImportAssumption DEF Inv, jobVars, canonVars, embedVars, localVars
<1>1. Types
  BY TypesAreTypeOK
<1>2. UNCHANGED <<ckConvs, ckMedia, count, canonVars, embedVars, localVars>>
  BY DEF PopTask
<1>3. \E s \in WorkerPcs \ Importing : pc' = [pc EXCEPT ![w] = s]
  BY DEF PopTask, Goto, WorkerPcs, Importing
<1>4. \A v \in Workers : Quiet(v)
  BY <1>1, <1>2, <1>3 DEF Types, Quiet
<1>5. Types'
  BY <1>1, <1>2, <1>3 DEF PopTask, Types, WorkerPcs
<1>6. CoverOK'
  BY <1>2 DEF PopTask, CoverOK
<1>7. QED
  BY <1>2, <1>4, <1>5, <1>6, QuietStep, TypesAreTypeOK

\* A completed job is not started again.
LEMMA MarkRunningInv ==
    ASSUME Inv, NEW w \in Workers, MarkRunning(w)
    PROVE Inv'
<1> USE AccountImportAssumption DEF Inv, jobVars, canonVars, embedVars, localVars
<1>1. Types
  BY TypesAreTypeOK
<1>2. UNCHANGED <<ckConvs, ckMedia, count, canonVars, embedVars, localVars>>
  BY DEF MarkRunning
<1>3. \E s \in WorkerPcs \ Importing : pc' = [pc EXCEPT ![w] = s]
  BY DEF MarkRunning, Goto, WorkerPcs, Importing
<1>4. \A v \in Workers : Quiet(v)
  BY <1>1, <1>2, <1>3 DEF Types, Quiet
<1>5. Types'
  BY <1>1, <1>2, <1>3 DEF MarkRunning, Types, WorkerPcs, Completed
<1>6. CoverOK'
  BY <1>2 DEF MarkRunning, CoverOK
<1>7. QED
  BY <1>2, <1>4, <1>5, <1>6, QuietStep, TypesAreTypeOK

\* A job is completed by a worker that skipped nothing.
LEMMA CompleteJobInv ==
    ASSUME Inv, NEW w \in Workers, CompleteJob(w)
    PROVE Inv'
<1> USE AccountImportAssumption DEF Inv, jobVars, canonVars, embedVars, localVars
<1>1. Types
  BY TypesAreTypeOK
<1>2. Forget(w)
  BY DEF CompleteJob
<1>3. UNCHANGED <<ckConvs, ckMedia, count, canonVars, embedVars>>
  BY DEF CompleteJob
<1>4. \E s \in WorkerPcs \ Importing : pc' = [pc EXCEPT ![w] = s]
  BY DEF CompleteJob, Goto, WorkerPcs, Importing
<1>5. \A v \in Workers : Quiet(v)
  BY <1>2, <1>1, <1>4, Forgotten DEF Types, Quiet
<1>6. Types'
  BY <1>2, <1>1, <1>3, <1>4, Forgotten DEF CompleteJob, Types, WorkerPcs
<1>7. CoverOK'
  <2>1. CASE status' = status
    BY <1>3, <2>1 DEF CoverOK
  <2>2. CASE status' # status
    <3>1. pc[w] = "media" /\ Media \subseteq doneMedia[w]
      BY DEF CompleteJob
    <3>2. Convs \subseteq done[w] /\ done[w] \subseteq ckConvs /\ doneMedia[w] \subseteq ckMedia
      BY <3>1 DEF DoneOK
    <3>3. done[w] \ empty \subseteq handed
      BY <3>1 DEF HandOK, Importing
    <3>4. QED
      BY <1>3, <3>1, <3>2, <3>3 DEF CoverOK
  <2>3. QED
    BY <2>1, <2>2
<1>8. QED
  BY <1>3, <1>5, <1>6, <1>7, QuietStep, TypesAreTypeOK

\* A failure ends the run of a worker.
LEMMA FailJobInv ==
    ASSUME Inv, NEW w \in Workers, FailJob(w)
    PROVE Inv'
<1> USE AccountImportAssumption DEF Inv, jobVars, canonVars, embedVars, localVars
<1>1. Types
  BY TypesAreTypeOK
<1>2. Forget(w)
  BY DEF FailJob
<1>3. UNCHANGED <<ckConvs, ckMedia, count, canonVars, embedVars>>
  BY DEF FailJob
<1>4. \E s \in WorkerPcs \ Importing : pc' = [pc EXCEPT ![w] = s]
  BY DEF FailJob, Goto, WorkerPcs, Importing
<1>5. \A v \in Workers : Quiet(v)
  BY <1>2, <1>1, <1>4, Forgotten DEF Types, Quiet
<1>6. Types'
  <2>1. status' \in {"receiving", "queued", "running", "completed", "failed"} /\ lost' \in BOOLEAN
    BY <1>1 DEF FailJob, Types
  <2>2. outages' \in 0..MaxOutages
    BY <1>1 DEF FailJob, Outage, Types
  <2>3. UNCHANGED <<staged, queue, req>>
    BY DEF FailJob
  <2>4. QED
    BY <1>2, <1>1, <1>3, <1>4, <2>1, <2>2, <2>3, Forgotten DEF Types, WorkerPcs
<1>7. CoverOK'
  BY <1>3 DEF FailJob, CoverOK
<1>8. QED
  BY <1>3, <1>5, <1>6, <1>7, QuietStep, TypesAreTypeOK

\* A killed worker forgets its place.
LEMMA KillWorkerInv ==
    ASSUME Inv, NEW w \in Workers, KillWorker(w)
    PROVE Inv'
<1> USE AccountImportAssumption DEF Inv, jobVars, canonVars, embedVars, localVars
<1>1. Types
  BY TypesAreTypeOK
<1>2. Forget(w)
  BY DEF KillWorker
<1>3. UNCHANGED <<ckConvs, ckMedia, count, canonVars, embedVars>>
  BY DEF KillWorker
<1>4. \E s \in WorkerPcs \ Importing : pc' = [pc EXCEPT ![w] = s]
  BY DEF KillWorker, Goto, WorkerPcs, Importing
<1>5. \A v \in Workers : Quiet(v)
  BY <1>2, <1>1, <1>4, Forgotten DEF Types, Quiet
<1>6. Types'
  BY <1>2, <1>1, <1>3, <1>4, Forgotten DEF KillWorker, Types, WorkerPcs, Outage
<1>7. CoverOK'
  BY <1>3 DEF KillWorker, CoverOK
<1>8. QED
  BY <1>3, <1>5, <1>6, <1>7, QuietStep, TypesAreTypeOK

\* A restarted worker pushes the unfinished job.
LEMMA RestartWorkerInv ==
    ASSUME Inv, NEW w \in Workers, RestartWorker(w)
    PROVE Inv'
<1> USE AccountImportAssumption DEF Inv, jobVars, canonVars, embedVars, localVars
<1>1. Types
  BY TypesAreTypeOK
<1>2. UNCHANGED <<ckConvs, ckMedia, count, canonVars, embedVars, localVars>>
  BY DEF RestartWorker
<1>3. \E s \in WorkerPcs \ Importing : pc' = [pc EXCEPT ![w] = s]
  BY DEF RestartWorker, Goto, WorkerPcs, Importing
<1>4. \A v \in Workers : Quiet(v)
  BY <1>1, <1>2, <1>3 DEF Types, Quiet
<1>5. Types'
  BY <1>1, <1>2, <1>3 DEF RestartWorker, Types, WorkerPcs, RecoverIncompleteJobs
<1>6. CoverOK'
  BY <1>2 DEF RestartWorker, CoverOK
<1>7. QED
  BY <1>2, <1>4, <1>5, <1>6, QuietStep, TypesAreTypeOK

\* A worker skips what the checkpoint names.
LEMMA MaterializeStagedExportInv ==
    ASSUME Inv, NEW w \in Workers, MaterializeStagedExport(w)
    PROVE Inv'
<1> USE AccountImportAssumption DEF Inv, jobVars, canonVars, embedVars, localVars
<1>1. Types
  BY TypesAreTypeOK
<1>2. /\ UNCHANGED <<status, ckConvs, ckMedia, count, empty, rows, assets, embed, embedQueue,
                     vectors,
                     embedder, handed, staged, queue, req, outages, lost>>
      /\ done' = [done EXCEPT ![w] = ckConvs] /\ doneMedia' = [doneMedia EXCEPT ![w] = ckMedia]
      /\ batch' = [batch EXCEPT ![w] = Nil] /\ pc' = [pc EXCEPT ![w] = "reconcile"]
  BY DEF MaterializeStagedExport, Goto
<1>3. Written' = Written /\ Stored' = Stored
  BY <1>2, SameTables
<1>4. Types'
  BY <1>1, <1>2 DEF Types, Nil, Batch, BatchRecord, WorkerPcs, EmbedStatus
<1>5. BatchOK' /\ MetaOK'
  BY <1>3, <1>1, <1>2 DEF BatchOK, MetaOK, Types
<1>6. DoneOK'
  BY <1>3, <1>1, <1>2 DEF DoneOK, Types
<1>7. HandOK'
  BY <1>3, <1>1, <1>2 DEF HandOK, Types, Importing
<1>8. CoverOK' /\ CountOK' /\ StoreOK'
  BY <1>3, <1>2 DEF CoverOK, CountOK, StoreOK
<1>9. QED
  BY <1>4, <1>5, <1>6, <1>7, <1>8, TypesAreTypeOK

\* Conversations that are still pending are handed off; the others were before.
LEMMA HandedAfter ==
    ASSUME Inv, NEW C \in SUBSET ckConvs, handed' = handed \cup Pending(C)
    PROVE C \ empty \subseteq handed'
BY DEF Inv, DoneOK, HandOK, Pending, TypeOK

\* The checkpoint of the run before is handed off again.
LEMMA ReconcileHandoffInv ==
    ASSUME Inv, NEW w \in Workers, ReconcileHandoff(w)
    PROVE Inv'
<1> USE AccountImportAssumption DEF Inv, jobVars, canonVars, localVars
<1>1. Types
  BY TypesAreTypeOK
<1>2. /\ UNCHANGED <<status, ckConvs, ckMedia, count, empty, rows, assets, embed, vectors,
                     embedder, staged, queue, req, lost, done, doneMedia, batch>>
      /\ pc[w] = "reconcile"
  BY DEF ReconcileHandoff, EnqueuePendingEmbeddings
<1>3. Written' = Written /\ Stored' = Stored
  BY <1>2, SameTables
<1>4. PICK P \in SUBSET Pending(ckConvs), s \in {"convs", "mark"} :
          /\ PushEmbeddings(P) /\ pc' = [pc EXCEPT ![w] = s]
          /\ s = "convs" => P = Pending(ckConvs)
          /\ outages' \in 0..MaxOutages
  <2>1. outages \in 0..MaxOutages
    BY <1>1 DEF Types
  <2>2. CASE PushEmbeddings(Pending(ckConvs)) /\ Goto(w, "convs") /\ UNCHANGED outages
    BY <2>1, <2>2 DEF Goto
  <2>3. CASE /\ Outage /\ Goto(w, "mark")
             /\ \E P \in SUBSET Pending(ckConvs) : PushEmbeddings(P)
    BY <2>1, <2>3 DEF Goto, Outage
  <2>4. QED
    BY <2>2, <2>3 DEF ReconcileHandoff, EnqueuePendingEmbeddings
<1>5. P \in SUBSET Convs
  BY <1>1 DEF Pending, Types
<1>6. /\ embedQueue' \in [Convs -> Nat] /\ handed' = handed \cup P
      /\ \A c \in Convs : embedQueue'[c] > 0 => embedQueue[c] > 0 \/ c \in P
  BY <1>1, <1>4, <1>5, Pushed
<1>7. /\ pc'[w] = s /\ pc' \in [Workers -> WorkerPcs]
      /\ \A v \in Workers : v # w => pc'[v] = pc[v]
  BY <1>1, <1>4 DEF Types, WorkerPcs
<1>8. Types'
  BY <1>1, <1>2, <1>4, <1>5, <1>6, <1>7 DEF Types
<1>9. BatchOK' /\ MetaOK'
  BY <1>3, <1>2, <1>4, <1>6, <1>7 DEF BatchOK, MetaOK
<1>10. DoneOK'
  BY <1>3, <1>2, <1>4, <1>7 DEF DoneOK
<1>11. HandOK'
  <2>1. s = "convs" => ckConvs \ empty \subseteq handed'
    BY <1>4, <1>6, HandedAfter
  <2>2. \A v \in Workers : pc'[v] \in Importing => done'[v] \ empty' \subseteq handed'
    BY <1>2, <1>6, <1>7, <2>1 DEF HandOK, DoneOK, Importing
  <2>3. \A c \in Convs : \/ embed'[c] \notin {"none", "pending"} \/ embedQueue'[c] > 0
                         \/ embedder' = c
                         => c \in handed'
    BY <1>2, <1>6 DEF HandOK
  <2>4. QED
    BY <1>3, <1>2, <2>2, <2>3 DEF HandOK
<1>12. CoverOK' /\ CountOK' /\ StoreOK'
  BY <1>3, <1>2, <1>6 DEF CoverOK, CountOK, StoreOK
<1>13. QED
  BY <1>8, <1>9, <1>10, <1>11, <1>12, TypesAreTypeOK

\* The lookup only fills the worker's hand, with what was true at that moment.
LEMMA FindExistingThreadInv ==
    ASSUME Inv, NEW w \in Workers, FindExistingThread(w)
    PROVE Inv'
<1> USE AccountImportAssumption DEF Inv, jobVars, canonVars, embedVars
<1>1. Types
  BY TypesAreTypeOK
<1>2. /\ UNCHANGED <<status, ckConvs, ckMedia, count, empty, rows, assets, embed, embedQueue,
                     vectors, embedder, handed, staged, queue, req, outages, lost, done, doneMedia>>
      /\ pc[w] = "convs"
  BY DEF FindExistingThread
<1>3. Written' = Written /\ Stored' = Stored
  BY <1>2, SameTables
<1>4. PICK c \in Convs \ done[w], h \in {"skipped", "duplicate", "created"},
             s \in {"write", "record"} :
          /\ h = "skipped" <=> c \in empty
          /\ s = "record" <=> c \in empty
          /\ h = "duplicate" => c \in Written
          /\ batch' = [batch EXCEPT ![w] = Batch(c, h, IF c \in empty THEN "none" ELSE embed[c])]
          /\ pc' = [pc EXCEPT ![w] = s]
  <2>1. PICK c \in Convs \ done[w] :
         \/ /\ c \in empty
            /\ batch' = [batch EXCEPT ![w] = Batch(c, "skipped", "none")]
            /\ Goto(w, "record")
         \/ /\ c \notin empty
            /\ batch' = [batch EXCEPT ![w] =
                   Batch(c, IF c \in Written THEN "duplicate" ELSE "created", embed[c])]
            /\ Goto(w, "write")
    BY DEF FindExistingThread
  <2>2. QED
    BY <2>1 DEF Goto
<1>5. /\ pc'[w] = s /\ pc' \in [Workers -> WorkerPcs]
      /\ \A v \in Workers : v # w => pc'[v] = pc[v]
  BY <1>1, <1>4 DEF Types, WorkerPcs
<1>6. /\ batch' \in [Workers -> BatchRecord] /\ batch'[w].item = c /\ batch'[w].how = h
      /\ c \notin empty => batch'[w].meta = embed[c]
      /\ \A v \in Workers : v # w => batch'[v] = batch[v]
  BY <1>1, <1>4 DEF Types, Batch, BatchRecord, EmbedStatus
<1>7. Types'
  BY <1>1, <1>2, <1>5, <1>6 DEF Types
<1>8. BatchOK'
  BY <1>2, <1>3, <1>4, <1>5, <1>6 DEF BatchOK
<1>9. MetaOK'
  <2>1. h = "duplicate" => embed[c] # "none"
    BY <1>4 DEF HandOK
  <2>2. embed[c] \notin {"none", "pending"} => c \in handed
    BY DEF HandOK
  <2>3. embed[c] = "ready" => vectors[c] # {}
    BY DEF StoreOK
  <2>4. QED
    BY <1>2, <1>4, <1>5, <1>6, <2>1, <2>2, <2>3 DEF MetaOK
<1>10. DoneOK'
  BY <1>2, <1>3, <1>4, <1>5 DEF DoneOK
<1>11. HandOK'
  BY <1>2, <1>3, <1>4, <1>5 DEF HandOK, Importing
<1>12. CoverOK' /\ CountOK' /\ StoreOK'
  BY <1>2, <1>3 DEF CoverOK, CountOK, StoreOK
<1>13. QED
  BY <1>7, <1>8, <1>9, <1>10, <1>11, <1>12, TypesAreTypeOK

\* The commit writes a conversation that is not there, or the metadata of one
\* that is; the unique index keeps a second copy out.
LEMMA WriteCanonicalMessagesInv ==
    ASSUME Inv, NEW w \in Workers, WriteCanonicalMessages(w)
    PROVE Inv'
<1> USE AccountImportAssumption DEF Inv, jobVars
<1>1. Types
  BY TypesAreTypeOK
<1>2. /\ UNCHANGED <<status, ckConvs, ckMedia, count, empty, assets, embedQueue, vectors, handed,
                     embedder, staged, queue, req, lost, done, doneMedia>>
      /\ pc[w] = "write" /\ batch' = [batch EXCEPT ![w].meta = "none"]
  BY DEF WriteCanonicalMessages
<1>3. PICK c \in Convs \ empty : c = batch[w].item
  BY <1>2 DEF BatchOK
<1>4. batch[w].how \in {"created", "duplicate"}
  BY <1>2 DEF BatchOK
<1>5. PICK s \in {"record", "fail"} :
          /\ pc' = [pc EXCEPT ![w] = s] /\ outages' \in 0..MaxOutages
          /\ \/ /\ batch[w].how = "duplicate" /\ rows' = rows
                /\ embed' = [embed EXCEPT ![c] = batch[w].meta]
             \/ /\ rows[c] = 0 /\ rows' = [rows EXCEPT ![c] = 1]
                /\ embed' = [embed EXCEPT ![c] = "pending"]
             \/ s = "fail" /\ rows' = rows /\ embed' = embed
  <2>1. outages \in 0..MaxOutages
    BY <1>1 DEF Types
  <2>2. Committed(w) => \E s \in {"record", "fail"} : /\ pc' = [pc EXCEPT ![w] = s]
                                                      /\ outages' \in 0..MaxOutages
    BY <2>1 DEF Committed, Goto, Outage
  <2>3. CASE /\ batch[w].how = "duplicate" /\ embed' = [embed EXCEPT ![c] = batch[w].meta]
             /\ Committed(w) /\ UNCHANGED rows
    BY <2>2, <2>3
  <2>4. CASE /\ SourceIdsFree(c) /\ rows' = [rows EXCEPT ![c] = @ + 1]
             /\ embed' = [embed EXCEPT ![c] = "pending"] /\ Committed(w)
    <3>1. rows[c] = 0 /\ rows' = [rows EXCEPT ![c] = 1]
      BY <1>1, <2>4 DEF SourceIdsFree, Types
    <3>2. QED
      BY <2>2, <2>4, <3>1
  <2>5. CASE Goto(w, "fail") /\ UNCHANGED <<rows, embed, outages>>
    BY <2>1, <2>5 DEF Goto
  <2>6. QED
    BY <1>3, <2>3, <2>4, <2>5 DEF WriteCanonicalMessages
<1>6. /\ pc'[w] = s /\ pc' \in [Workers -> WorkerPcs]
      /\ \A v \in Workers : v # w => pc'[v] = pc[v]
  BY <1>1, <1>5 DEF Types, WorkerPcs
<1>7. batch[w] \in BatchRecord
  BY <1>1 DEF Types
<1>8. /\ batch' \in [Workers -> BatchRecord] /\ batch'[w].item = c
      /\ batch'[w].how = batch[w].how
      /\ \A v \in Workers : v # w => batch'[v] = batch[v]
  <2>1. /\ batch'[w] = [batch[w] EXCEPT !.meta = "none"] /\ DOMAIN batch' = Workers
        /\ batch' \in [Workers -> {batch'[v] : v \in Workers}]
        /\ \A v \in Workers : v # w => batch'[v] = batch[v]
    BY <1>1, <1>2 DEF Types
  <2>2. /\ batch'[w] \in BatchRecord /\ batch'[w].item = c /\ batch'[w].how = batch[w].how
    BY <1>3, <1>7, <2>1 DEF BatchRecord, EmbedStatus
  <2>3. QED
    BY <1>1, <2>1, <2>2 DEF Types
<1>9. batch[w].meta \in EmbedStatus /\ "pending" \in EmbedStatus
  BY <1>7 DEF BatchRecord, EmbedStatus
<1>10. /\ embed' \in [Convs -> EmbedStatus]
       /\ \A e \in Convs : e # c => embed'[e] = embed[e]
       /\ \/ embed'[c] = embed[c] \/ embed'[c] = "pending"
          \/ embed'[c] = batch[w].meta /\ batch[w].how = "duplicate"
  BY <1>1, <1>5, <1>9 DEF Types
<1>11. /\ rows' \in [Convs -> Nat] /\ rows'[c] <= 1
       /\ \A e \in Convs : e # c => rows'[e] = rows[e]
       /\ rows'[c] > 0 => rows[c] > 0 \/ embed'[c] = "pending"
       /\ rows[c] > 0 => rows'[c] > 0
       /\ s = "record" => rows'[c] > 0
  <2>1. rows[c] \in Nat /\ rows[c] <= 1
    BY <1>1 DEF StoreOK, Types
  <2>2. batch[w].how = "duplicate" => rows[c] > 0
    BY <1>2, <1>3 DEF BatchOK, Written
  <2>3. QED
    BY <1>1, <1>5, <2>1, <2>2 DEF Types
<1>12. /\ Stored' = Stored /\ Written \subseteq Written' /\ Written' \subseteq Written \cup {c}
       /\ s = "record" => c \in Written'
       /\ \A e \in Written' : e \in Written \/ embed'[e] = "pending"
  <2>1. Stored' = Stored
    BY <1>2, SameTables
  <2>2. QED
    BY <2>1, <1>11 DEF Written
<1>13. Types'
  BY <1>1, <1>2, <1>5, <1>6, <1>8, <1>10, <1>11 DEF Types
<1>14. BatchOK'
  BY <1>2, <1>3, <1>4, <1>5, <1>6, <1>8, <1>12 DEF BatchOK
<1>15. MetaOK'
  BY <1>2, <1>5, <1>6, <1>8 DEF MetaOK
<1>16. DoneOK'
  BY <1>2, <1>5, <1>6, <1>12 DEF DoneOK
<1>17. /\ batch[w].how = "duplicate" => batch[w].meta # "none"
       /\ batch[w].meta \notin {"none", "pending"} => c \in handed
       /\ batch[w].meta = "ready" => vectors[c] # {}
  BY <1>2, <1>3 DEF MetaOK
<1>18. HandOK'
  <2>1. \A e \in Convs : \/ embed'[e] \notin {"none", "pending"} \/ embedQueue'[e] > 0
                         \/ embedder' = e
                         => e \in handed'
    BY <1>2, <1>10, <1>17 DEF HandOK
  <2>2. \A e \in Written' : embed'[e] # "none"
    <3>1. \A e \in Written : e \in Convs /\ embed[e] # "none"
      BY DEF HandOK, Written
    <3>2. QED
      BY <1>10, <1>12, <1>17, <3>1
  <2>3. \A v \in Workers : pc'[v] \in Importing => done'[v] \ empty' \subseteq handed'
    BY <1>2, <1>5, <1>6 DEF HandOK, Importing
  <2>4. QED
    BY <2>1, <2>2, <2>3 DEF HandOK
<1>19. CoverOK' /\ CountOK'
  BY <1>2, <1>12 DEF CoverOK, CountOK
<1>20. StoreOK'
  BY <1>2, <1>10, <1>11, <1>17 DEF StoreOK
<1>21. QED
  BY <1>13, <1>14, <1>15, <1>16, <1>18, <1>19, <1>20, TypesAreTypeOK

\* A conversation whose transaction is rolled back leaves nothing.
LEMMA ImportRaisesInv ==
    ASSUME Inv, NEW w \in Workers, ImportRaises(w)
    PROVE Inv'
<1> USE AccountImportAssumption DEF Inv, jobVars, canonVars, embedVars
<1>1. Types
  BY TypesAreTypeOK
<1>2. UNCHANGED <<ckConvs, ckMedia, count, canonVars, embedVars, done, doneMedia>>
  BY DEF ImportRaises
<1>3. \E s \in WorkerPcs \ Importing : pc' = [pc EXCEPT ![w] = s]
  BY DEF ImportRaises, Goto, WorkerPcs, Importing
<1>4. batch' = [batch EXCEPT ![w] = Nil] /\ Nil \in BatchRecord
  BY DEF ImportRaises, Nil, Batch, BatchRecord, EmbedStatus
<1>5. \A v \in Workers : Quiet(v)
  BY <1>1, <1>2, <1>3, <1>4 DEF Types, Quiet
<1>6. Types'
  BY <1>1, <1>2, <1>3, <1>4 DEF ImportRaises, Types, WorkerPcs, Outage
<1>7. CoverOK'
  BY <1>2 DEF ImportRaises, CoverOK
<1>8. QED
  BY <1>2, <1>5, <1>6, <1>7, QuietStep, TypesAreTypeOK

\* The checkpoint names a written conversation, and counts it once.
LEMMA RecordConversationBatchInv ==
    ASSUME Inv, NEW w \in Workers, RecordConversationBatch(w)
    PROVE Inv'
<1> USE AccountImportAssumption DEF Inv, canonVars, embedVars, localVars
<1>1. Types
  BY TypesAreTypeOK
<1>2. /\ UNCHANGED <<status, ckMedia, empty, rows, assets, embed, embedQueue, vectors, handed,
                     embedder, staged, queue, req, lost, done, doneMedia, batch>>
      /\ pc[w] = "record"
  BY DEF RecordConversationBatch
<1>3. Written' = Written /\ Stored' = Stored
  BY <1>2, SameTables
<1>4. /\ batch[w].item \in Convs /\ batch[w].how \in {"created", "duplicate", "skipped"}
      /\ batch[w].how = "skipped" <=> batch[w].item \in empty
      /\ batch[w].item \in empty \cup Written
  BY <1>1, <1>2 DEF BatchOK, Types, BatchRecord
<1>5. CASE /\ count' = Credit(w, "threads", ckConvs) /\ UNCHANGED outages
           /\ ckConvs' = ckConvs \cup {batch[w].item} /\ Goto(w, "handoff")
  <2>1. /\ pc'[w] = "handoff" /\ pc' \in [Workers -> WorkerPcs]
        /\ \A v \in Workers : v # w => pc'[v] = pc[v]
    BY <1>1, <1>5 DEF Types, WorkerPcs, Goto
  <2>2. /\ count' \in CountRecord /\ count'.media = count.media
        /\ batch[w].item \in ckConvs => count' = count
        /\ batch[w].item \notin ckConvs /\ batch[w].how = "skipped" =>
               count'.threads = count.threads /\ count'.skipped = count.skipped + 1
        /\ batch[w].item \notin ckConvs /\ batch[w].how # "skipped" =>
               count'.threads = count.threads + 1 /\ count'.skipped = count.skipped
    BY <1>1, <1>4, <1>5, ConversationCredit DEF Types
  <2>3. Types'
    BY <1>1, <1>2, <1>4, <1>5, <2>1, <2>2 DEF Types
  <2>4. BatchOK' /\ MetaOK'
    BY <1>3, <1>2, <1>4, <1>5, <2>1 DEF BatchOK, MetaOK
  <2>5. DoneOK'
    BY <1>3, <1>2, <1>4, <1>5, <2>1 DEF DoneOK
  <2>6. HandOK'
    BY <1>3, <1>2, <2>1 DEF HandOK, Importing
  <2>7. CoverOK' /\ StoreOK'
    BY <1>2, <1>5 DEF CoverOK, StoreOK
  <2>8. CountOK'
    <3>1. CASE batch[w].item \in ckConvs
      BY <1>3, <1>2, <1>5, <2>2, <3>1 DEF CountOK
    <3>2. CASE batch[w].item \notin ckConvs /\ batch[w].item \in empty
      <4>1. /\ ckConvs' \ empty' = ckConvs \ empty
            /\ ckConvs' \cap empty' = (ckConvs \cap empty) \cup {batch[w].item}
        BY <1>2, <1>5, <3>2
      <4>2. Cardinality(ckConvs' \cap empty') = Cardinality(ckConvs \cap empty) + 1
        BY <1>1, <3>2, <4>1, FiniteParts, FS_AddElement
      <4>3. count.skipped \in Nat /\ Cardinality(ckConvs \cap empty) \in Nat
        BY <1>1, FiniteParts DEF Types, CountRecord
      <4>4. count'.skipped >= Cardinality(ckConvs' \cap empty')
        BY <1>4, <2>2, <3>2, <4>2, <4>3 DEF CountOK
      <4>5. QED
        BY <1>3, <1>2, <1>4, <2>2, <3>2, <4>1, <4>4 DEF CountOK
    <3>3. CASE batch[w].item \notin ckConvs /\ batch[w].item \notin empty
      <4>1. /\ ckConvs' \ empty' = (ckConvs \ empty) \cup {batch[w].item}
            /\ ckConvs' \cap empty' = ckConvs \cap empty
        BY <1>2, <1>5, <3>3
      <4>2. Cardinality(ckConvs' \ empty') = Cardinality(ckConvs \ empty) + 1
        BY <1>1, <3>3, <4>1, FiniteParts, FS_AddElement
      <4>3. QED
        BY <1>3, <1>2, <1>4, <2>2, <3>3, <4>1, <4>2 DEF CountOK
    <3>4. QED
      BY <3>1, <3>2, <3>3
  <2>9. QED
    BY <2>3, <2>4, <2>5, <2>6, <2>7, <2>8, TypesAreTypeOK
<1>6. CASE Outage /\ Goto(w, "fail") /\ UNCHANGED <<count, ckConvs>>
  <2>1. pc' = [pc EXCEPT ![w] = "fail"] /\ outages' \in 0..MaxOutages
    BY <1>1, <1>6 DEF Goto, Outage, Types
  <2>2. \A v \in Workers : Quiet(v)
    BY <1>1, <1>2, <2>1 DEF Types, Importing, Quiet
  <2>3. Types'
    BY <1>1, <1>2, <1>6, <2>1 DEF Types, WorkerPcs
  <2>4. CoverOK'
    BY <1>2, <1>6 DEF CoverOK
  <2>5. QED
    BY <1>2, <1>6, <2>2, <2>3, <2>4, QuietStep, TypesAreTypeOK
<1>7. QED
  BY <1>5, <1>6 DEF RecordConversationBatch

\* What a worker adds to the conversations it skips is handed off.
LEMMA HandoffBatchInv ==
    ASSUME Inv, NEW w \in Workers, HandoffBatch(w)
    PROVE Inv'
<1> USE AccountImportAssumption DEF Inv, jobVars, canonVars
<1>1. Types
  BY TypesAreTypeOK
<1>2. /\ UNCHANGED <<status, ckConvs, ckMedia, count, empty, rows, assets, embed, vectors,
                     embedder, staged, queue, req, lost, doneMedia>>
      /\ pc[w] = "handoff" /\ done' = [done EXCEPT ![w] = @ \cup {batch[w].item}]
      /\ batch' = [batch EXCEPT ![w] = Nil] /\ Nil \in BatchRecord
  BY DEF HandoffBatch, EnqueuePendingEmbeddings, Nil, Batch, BatchRecord, EmbedStatus
<1>3. Written' = Written /\ Stored' = Stored
  BY <1>2, SameTables
<1>4. PICK i \in ckConvs : i = batch[w].item
  BY <1>2 DEF BatchOK
<1>5. PICK P \in SUBSET Pending({i}), s \in {"convs", "mark"} :
          /\ PushEmbeddings(P) /\ pc' = [pc EXCEPT ![w] = s]
          /\ s = "convs" => P = Pending({i})
          /\ outages' \in 0..MaxOutages
  <2>1. outages \in 0..MaxOutages
    BY <1>1 DEF Types
  <2>2. CASE PushEmbeddings(Pending({i})) /\ Goto(w, "convs") /\ UNCHANGED outages
    BY <2>1, <2>2 DEF Goto
  <2>3. CASE /\ Outage /\ Goto(w, "mark")
             /\ \E P \in SUBSET Pending({i}) : PushEmbeddings(P)
    BY <2>1, <2>3 DEF Goto, Outage
  <2>4. QED
    BY <1>4, <2>2, <2>3 DEF HandoffBatch, EnqueuePendingEmbeddings
<1>6. P \in SUBSET Convs /\ i \in Convs
  BY <1>1, <1>4 DEF Pending, Types
<1>7. /\ embedQueue' \in [Convs -> Nat] /\ handed' = handed \cup P
      /\ \A c \in Convs : embedQueue'[c] > 0 => embedQueue[c] > 0 \/ c \in P
  BY <1>1, <1>5, <1>6, Pushed
<1>8. /\ pc'[w] = s /\ pc' \in [Workers -> WorkerPcs]
      /\ \A v \in Workers : v # w => pc'[v] = pc[v]
  BY <1>1, <1>5 DEF Types, WorkerPcs
<1>9. /\ done' \in [Workers -> SUBSET Convs] /\ done'[w] = done[w] \cup {i}
      /\ \A v \in Workers : v # w => done'[v] = done[v]
  BY <1>1, <1>2, <1>4, <1>6 DEF Types
<1>10. Types'
  BY <1>1, <1>2, <1>5, <1>6, <1>7, <1>8, <1>9 DEF Types
<1>11. BatchOK' /\ MetaOK'
  <2>1. \A v \in Workers : v # w => batch'[v] = batch[v]
    BY <1>1, <1>2 DEF Types
  <2>2. QED
    BY <1>3, <1>2, <1>5, <1>7, <1>8, <2>1 DEF BatchOK, MetaOK
<1>12. DoneOK'
  BY <1>3, <1>2, <1>4, <1>5, <1>8, <1>9 DEF DoneOK
<1>13. HandOK'
  <2>1. s = "convs" => {i} \ empty \subseteq handed'
    BY <1>4, <1>5, <1>7, HandedAfter
  <2>2. done[w] \ empty \subseteq handed
    BY <1>2 DEF HandOK, Importing
  <2>3. \A v \in Workers : pc'[v] \in Importing => done'[v] \ empty' \subseteq handed'
    BY <1>2, <1>5, <1>7, <1>8, <1>9, <2>1, <2>2 DEF HandOK, Importing
  <2>4. \A c \in Convs : \/ embed'[c] \notin {"none", "pending"} \/ embedQueue'[c] > 0
                         \/ embedder' = c
                         => c \in handed'
    BY <1>2, <1>7 DEF HandOK
  <2>5. QED
    BY <1>3, <1>2, <2>3, <2>4 DEF HandOK
<1>14. CoverOK' /\ CountOK' /\ StoreOK'
  BY <1>3, <1>2, <1>7 DEF CoverOK, CountOK, StoreOK
<1>15. QED
  BY <1>10, <1>11, <1>12, <1>13, <1>14, TypesAreTypeOK

\* The importer goes on to the media when it skips every conversation.
LEMMA ConversationsDoneInv ==
    ASSUME Inv, NEW w \in Workers, ConversationsDone(w)
    PROVE Inv'
<1> USE AccountImportAssumption DEF Inv, jobVars, canonVars, embedVars, localVars
<1>1. Types
  BY TypesAreTypeOK
<1>2. /\ UNCHANGED <<status, ckConvs, ckMedia, count, empty, rows, assets, embed, embedQueue,
                     vectors,
                     embedder, handed, staged, queue, req, outages, lost, done, doneMedia, batch>>
      /\ pc[w] = "convs" /\ Convs \subseteq done[w]
  BY DEF ConversationsDone
<1>3. Written' = Written /\ Stored' = Stored
  BY <1>2, SameTables
<1>4. /\ pc'[w] = "media" /\ pc' \in [Workers -> WorkerPcs]
      /\ \A v \in Workers : v # w => pc'[v] = pc[v]
  BY <1>1 DEF ConversationsDone, Goto, Types, WorkerPcs
<1>5. Types'
  BY <1>1, <1>2, <1>4 DEF Types
<1>6. BatchOK' /\ MetaOK'
  BY <1>3, <1>2, <1>4 DEF BatchOK, MetaOK
<1>7. DoneOK'
  BY <1>3, <1>2, <1>4 DEF DoneOK
<1>8. HandOK'
  BY <1>3, <1>2, <1>4 DEF HandOK, Importing
<1>9. CoverOK' /\ CountOK' /\ StoreOK'
  BY <1>3, <1>2 DEF CoverOK, CountOK, StoreOK
<1>10. QED
  BY <1>5, <1>6, <1>7, <1>8, <1>9, TypesAreTypeOK

\* The lookup of a media file only fills the worker's hand.
LEMMA FindExistingAssetInv ==
    ASSUME Inv, NEW w \in Workers, FindExistingAsset(w)
    PROVE Inv'
<1> USE AccountImportAssumption DEF Inv, jobVars, canonVars, embedVars
<1>1. Types
  BY TypesAreTypeOK
<1>2. /\ UNCHANGED <<status, ckConvs, ckMedia, count, empty, rows, assets, embed, embedQueue,
                     vectors, embedder, handed, staged, queue, req, lost, done, doneMedia>>
      /\ pc[w] = "media"
  BY DEF FindExistingAsset
<1>3. Written' = Written /\ Stored' = Stored
  BY <1>2, SameTables
<1>4. PICK m \in Media, h \in {"skipped", "duplicate", "created"}, s \in {"insert", "recordMedia"} :
          /\ h = "skipped" <=> s = "recordMedia"
          /\ batch' = [batch EXCEPT ![w] = Batch(m, h, "none")]
          /\ pc' = [pc EXCEPT ![w] = s] /\ outages' \in 0..MaxOutages
  <2>1. outages \in 0..MaxOutages
    BY <1>1 DEF Types
  <2>2. PICK m \in Media :
         \/ /\ batch' = [batch EXCEPT ![w] =
                   Batch(m, IF m \in Stored THEN "duplicate" ELSE "created", "none")]
            /\ Goto(w, "insert") /\ UNCHANGED outages
         \/ /\ Outage /\ batch' = [batch EXCEPT ![w] = Batch(m, "skipped", "none")]
            /\ Goto(w, "recordMedia")
    BY DEF FindExistingAsset
  <2>3. QED
    BY <2>1, <2>2 DEF Goto, Outage
<1>5. /\ pc'[w] = s /\ pc' \in [Workers -> WorkerPcs]
      /\ \A v \in Workers : v # w => pc'[v] = pc[v]
  BY <1>1, <1>4 DEF Types, WorkerPcs
<1>6. /\ batch' \in [Workers -> BatchRecord] /\ batch'[w].item = m /\ batch'[w].how = h
      /\ \A v \in Workers : v # w => batch'[v] = batch[v]
  BY <1>1, <1>4 DEF Types, Batch, BatchRecord, EmbedStatus
<1>7. Types'
  BY <1>1, <1>2, <1>4, <1>5, <1>6 DEF Types
<1>8. BatchOK'
  BY <1>2, <1>3, <1>4, <1>5, <1>6 DEF BatchOK
<1>9. MetaOK'
  BY <1>2, <1>4, <1>5, <1>6 DEF MetaOK
<1>10. DoneOK'
  BY <1>2, <1>3, <1>4, <1>5 DEF DoneOK
<1>11. HandOK'
  BY <1>2, <1>3, <1>4, <1>5 DEF HandOK, Importing
<1>12. CoverOK' /\ CountOK' /\ StoreOK'
  BY <1>2, <1>3 DEF CoverOK, CountOK, StoreOK
<1>13. QED
  BY <1>7, <1>8, <1>9, <1>10, <1>11, <1>12, TypesAreTypeOK

\* A media file that is called created is in the tables, once.
LEMMA ImportMediaRecordInv ==
    ASSUME Inv, NEW w \in Workers, ImportMediaRecord(w)
    PROVE Inv'
<1> USE AccountImportAssumption DEF Inv, jobVars, embedVars
<1>1. Types
  BY TypesAreTypeOK
<1>2. /\ UNCHANGED <<status, ckConvs, ckMedia, count, empty, rows, embed, embedQueue, vectors,
                     embedder, handed, staged, queue, req, lost, done, doneMedia>>
      /\ pc[w] = "insert" /\ pc' = [pc EXCEPT ![w] = "recordMedia"]
  BY DEF ImportMediaRecord, Goto
<1>3. PICK m \in Media : m = batch[w].item
  BY <1>2 DEF BatchOK
<1>4. batch[w].how \in {"created", "duplicate"} /\ assets[m] \in Nat /\ batch[w] \in BatchRecord
  BY <1>1, <1>2, <1>3 DEF BatchOK, Types
<1>5. PICK h \in {"skipped", "duplicate", "created"} :
          /\ batch' = [batch EXCEPT ![w].how = h] \/ (batch' = batch /\ h = batch[w].how)
          /\ \/ assets' = assets
             \/ assets[m] = 0 /\ assets' = [assets EXCEPT ![m] = 1]
          /\ h = "created" => assets[m] = 0 /\ assets' = [assets EXCEPT ![m] = 1]
          /\ outages' \in 0..MaxOutages
  <2>1. outages \in 0..MaxOutages
    BY <1>1 DEF Types
  <2>2. assets[m] = 0 /\ assets' = [assets EXCEPT ![m] = @ + 1] =>
            assets' = [assets EXCEPT ![m] = 1]
    BY <1>4
  <2>3. \/ /\ batch[w].how = "duplicate" /\ UNCHANGED <<assets, batch, outages>>
        \/ /\ batch[w].how = "created" /\ assets[m] = 0 /\ assets' = [assets EXCEPT ![m] = @ + 1]
           /\ UNCHANGED <<batch, outages>>
        \/ /\ batch[w].how = "created" /\ assets[m] = 0 /\ assets' = [assets EXCEPT ![m] = @ + 1]
           /\ batch' = [batch EXCEPT ![w].how = "skipped"] /\ Outage
        \/ /\ batch' = [batch EXCEPT ![w].how = "skipped"] /\ UNCHANGED <<assets, outages>>
        \/ /\ batch' = [batch EXCEPT ![w].how = "skipped"] /\ Outage /\ UNCHANGED assets
    BY <1>3 DEF ImportMediaRecord, AssetFree
  <2>4. QED
    BY <2>1, <2>2, <2>3 DEF Outage
<1>6. /\ batch' \in [Workers -> BatchRecord] /\ batch'[w].item = m /\ batch'[w].how = h
      /\ \A v \in Workers : v # w => batch'[v] = batch[v]
  <2>1. CASE batch' = batch /\ h = batch[w].how
    BY <1>1, <1>3, <2>1 DEF Types
  <2>2. CASE batch' = [batch EXCEPT ![w].how = h]
    <3>1. /\ batch'[w] = [batch[w] EXCEPT !.how = h]
          /\ batch' \in [Workers -> {batch'[v] : v \in Workers}]
          /\ \A v \in Workers : v # w => batch'[v] = batch[v]
      BY <1>1, <2>2 DEF Types
    <3>2. batch'[w] \in BatchRecord /\ batch'[w].item = m /\ batch'[w].how = h
      BY <1>3, <1>4, <3>1 DEF BatchRecord
    <3>3. QED
      BY <1>1, <3>1, <3>2 DEF Types
  <2>3. QED
    BY <1>5, <2>1, <2>2
<1>7. /\ pc'[w] = "recordMedia" /\ pc' \in [Workers -> WorkerPcs]
      /\ \A v \in Workers : v # w => pc'[v] = pc[v]
  BY <1>1, <1>2 DEF Types, WorkerPcs
<1>8. /\ assets' \in [Media -> Nat] /\ \A e \in Media : assets'[e] <= 1
      /\ \A e \in Media : assets[e] > 0 => assets'[e] > 0
      /\ h = "created" => assets'[m] > 0
  BY <1>1, <1>5 DEF Types, StoreOK
<1>9. Written' = Written /\ Stored \subseteq Stored' /\ Stored' \subseteq Media
      /\ (h = "created" => m \in Stored')
  BY <1>2, <1>8, SameTables DEF Stored
<1>10. Types'
  BY <1>1, <1>2, <1>5, <1>6, <1>7, <1>8 DEF Types
<1>11. BatchOK'
  BY <1>2, <1>6, <1>7, <1>9 DEF BatchOK
<1>12. MetaOK'
  BY <1>2, <1>6, <1>7 DEF MetaOK
<1>13. DoneOK'
  BY <1>2, <1>7, <1>9 DEF DoneOK
<1>14. HandOK'
  BY <1>2, <1>7, <1>9 DEF HandOK, Importing
<1>15. CoverOK' /\ StoreOK'
  BY <1>2, <1>8 DEF CoverOK, StoreOK
<1>16. CountOK'
  <2>1. Stored \cap ckMedia \subseteq Stored' \cap ckMedia' /\ IsFiniteSet(Stored' \cap ckMedia')
    <3>1. Stored' \cap ckMedia' \subseteq Media
      BY <1>9
    <3>2. QED
      BY <1>2, <1>9, <3>1, FS_Subset
  <2>2. /\ Cardinality(Stored \cap ckMedia) <= Cardinality(Stored' \cap ckMedia')
        /\ Cardinality(Stored' \cap ckMedia') \in Nat
    BY <2>1, FS_Subset, FS_CardinalityType
  <2>3. count.media \in Nat
    BY <1>1 DEF Types, CountRecord
  <2>4. QED
    BY <1>1, <1>2, <2>2, <2>3, FiniteParts DEF CountOK
<1>17. QED
  BY <1>10, <1>11, <1>12, <1>13, <1>14, <1>15, <1>16, TypesAreTypeOK

\* The checkpoint names a media file, and counts a created one once.
LEMMA RecordMediaBatchInv ==
    ASSUME Inv, NEW w \in Workers, RecordMediaBatch(w)
    PROVE Inv'
<1> USE AccountImportAssumption DEF Inv, canonVars, embedVars, localVars
<1>1. Types
  BY TypesAreTypeOK
<1>2. /\ UNCHANGED <<status, ckConvs, empty, rows, assets, embed, embedQueue, vectors, handed,
                     embedder, staged, queue, req, lost, done>>
      /\ pc[w] = "recordMedia"
  BY DEF RecordMediaBatch
<1>3. Written' = Written /\ Stored' = Stored
  BY <1>2, SameTables
<1>4. PICK i \in Media : i = batch[w].item
  BY <1>2 DEF BatchOK
<1>5. /\ batch[w].how \in {"created", "duplicate", "skipped"}
      /\ batch[w].how = "created" => i \in Stored
  BY <1>1, <1>2, <1>4 DEF BatchOK, Types, BatchRecord
<1>6. CASE /\ count' = Credit(w, "media", ckMedia) /\ UNCHANGED outages
           /\ ckMedia' = ckMedia \cup {i} /\ Goto(w, "media")
           /\ doneMedia' = [doneMedia EXCEPT ![w] = @ \cup {i}]
           /\ batch' = [batch EXCEPT ![w] = Nil]
  <2>1. /\ pc'[w] = "media" /\ pc' \in [Workers -> WorkerPcs]
        /\ \A v \in Workers : v # w => pc'[v] = pc[v]
    BY <1>1, <1>6 DEF Types, WorkerPcs, Goto
  <2>0. /\ batch' \in [Workers -> BatchRecord] /\ \A v \in Workers : v # w => batch'[v] = batch[v]
    BY <1>1, <1>6 DEF Types, Nil, Batch, BatchRecord, EmbedStatus
  <2>2. /\ doneMedia' \in [Workers -> SUBSET Media] /\ doneMedia'[w] = doneMedia[w] \cup {i}
        /\ \A v \in Workers : v # w => doneMedia'[v] = doneMedia[v]
    BY <1>1, <1>6 DEF Types
  <2>3. /\ count' \in CountRecord /\ count'.threads = count.threads
        /\ count'.skipped >= count.skipped
        /\ count'.media = count.media \/ /\ i \notin ckMedia /\ batch[w].how = "created"
                                         /\ count'.media = count.media + 1
    BY <1>1, <1>4, <1>5, <1>6, MediaCredit DEF Types
  <2>4. Types'
    BY <1>1, <1>2, <1>6, <2>0, <2>1, <2>2, <2>3 DEF Types
  <2>5. BatchOK' /\ MetaOK'
    BY <1>3, <1>2, <2>0, <2>1 DEF BatchOK, MetaOK
  <2>6. DoneOK'
    BY <1>3, <1>2, <1>6, <2>1, <2>2 DEF DoneOK
  <2>7. HandOK'
    BY <1>3, <1>2, <2>1 DEF HandOK, Importing
  <2>8. CoverOK' /\ StoreOK'
    BY <1>2, <1>6 DEF CoverOK, StoreOK
  <2>9. CountOK'
    <3>1. /\ count.media \in Nat /\ count.skipped \in Nat /\ count'.media \in Nat
          /\ count'.skipped \in Nat
      BY <1>1, <2>3 DEF Types, CountRecord
    <3>2. count'.media <= Cardinality(Stored' \cap ckMedia')
      <4>1. CASE i \in Stored /\ i \notin ckMedia
        <5>1. Stored' \cap ckMedia' = (Stored \cap ckMedia) \cup {i}
          BY <1>3, <1>2, <1>6, <4>1
        <5>2. Cardinality(Stored' \cap ckMedia') = Cardinality(Stored \cap ckMedia) + 1
          BY <1>1, <4>1, <5>1, FiniteParts, FS_AddElement
        <5>3. QED
          BY <1>1, <2>3, <3>1, <5>2, FiniteParts DEF CountOK
      <4>2. CASE ~ (i \in Stored /\ i \notin ckMedia)
        <5>1. Stored' \cap ckMedia' = Stored \cap ckMedia
          BY <1>3, <1>2, <1>6, <4>2
        <5>2. QED
          BY <1>5, <2>3, <4>2, <5>1 DEF CountOK
      <4>3. QED
        BY <4>1, <4>2
    <3>3. QED
      BY <1>1, <1>2, <2>3, <3>1, <3>2, FiniteParts DEF CountOK
  <2>10. QED
    BY <2>4, <2>5, <2>6, <2>7, <2>8, <2>9, TypesAreTypeOK
<1>7. CASE Outage /\ Goto(w, "fail") /\ UNCHANGED <<count, ckMedia, doneMedia, batch>>
  <2>1. pc' = [pc EXCEPT ![w] = "fail"] /\ outages' \in 0..MaxOutages
    BY <1>1, <1>7 DEF Goto, Outage, Types
  <2>2. \A v \in Workers : Quiet(v)
    BY <1>1, <1>2, <1>7, <2>1 DEF Types, Importing, Quiet
  <2>3. Types'
    BY <1>1, <1>2, <1>7, <2>1 DEF Types, WorkerPcs
  <2>4. CoverOK'
    BY <1>2, <1>7 DEF CoverOK
  <2>5. QED
    BY <1>2, <1>7, <2>2, <2>3, <2>4, QuietStep, TypesAreTypeOK
<1>8. QED
  BY <1>4, <1>6, <1>7 DEF RecordMediaBatch

\* The embedding worker takes what was handed off.
LEMMA TakeEmbedTaskInv ==
    ASSUME Inv, NEW c \in Convs, TakeEmbedTask(c)
    PROVE Inv'
<1> USE AccountImportAssumption DEF Inv, jobVars, canonVars, localVars
<1>1. Types
  BY TypesAreTypeOK
<1>2. /\ UNCHANGED <<status, ckConvs, ckMedia, count, empty, rows, assets, vectors, handed, pc,
                     staged, queue, req, outages, lost, done, doneMedia, batch>>
      /\ embedQueue[c] > 0 /\ embedQueue' = [embedQueue EXCEPT ![c] = @ - 1]
  BY DEF TakeEmbedTask
<1>3. Written' = Written /\ Stored' = Stored
  BY <1>2, SameTables
<1>4. /\ embedQueue' \in [Convs -> Nat]
      /\ \A e \in Convs : embedQueue'[e] > 0 => embedQueue[e] > 0
  BY <1>1, <1>2 DEF Types
<1>5. /\ embed' \in [Convs -> EmbedStatus]
      /\ \A e \in Convs : embed'[e] = embed[e] \/ (e = c /\ embed'[e] = "processing")
      /\ embedder' \in {embedder, c}
  BY <1>1 DEF TakeEmbedTask, Types, EmbedStatus
<1>6. c \in handed
  BY <1>2 DEF HandOK
<1>7. Types'
  BY <1>1, <1>2, <1>4, <1>5 DEF Types
<1>8. BatchOK' /\ MetaOK'
  BY <1>3, <1>2 DEF BatchOK, MetaOK
<1>9. DoneOK' /\ CoverOK' /\ CountOK'
  BY <1>3, <1>2 DEF DoneOK, CoverOK, CountOK
<1>10. HandOK'
  <2>1. \A e \in Convs : \/ embed'[e] \notin {"none", "pending"} \/ embedQueue'[e] > 0
                         \/ embedder' = e
                         => e \in handed'
    BY <1>2, <1>4, <1>5, <1>6 DEF HandOK
  <2>2. \A e \in Written' : embed'[e] # "none"
    BY <1>3, <1>1, <1>2, <1>5 DEF HandOK, Written
  <2>3. QED
    BY <1>2, <2>1, <2>2 DEF HandOK
<1>11. StoreOK'
  BY <1>2, <1>5 DEF StoreOK
<1>12. QED
  BY <1>7, <1>8, <1>9, <1>10, <1>11, TypesAreTypeOK

\* A stored record replaces the one before it.
LEMMA StoreEmbeddingInv ==
    ASSUME Inv, StoreEmbedding
    PROVE Inv'
<1> USE AccountImportAssumption DEF Inv, jobVars, canonVars, localVars
<1>1. Types
  BY TypesAreTypeOK
<1>2. /\ UNCHANGED <<status, ckConvs, ckMedia, count, empty, rows, assets, embedQueue, handed, pc,
                     staged, queue, req, lost, done, doneMedia, batch>>
      /\ embedder' = Nothing
  BY DEF StoreEmbedding
<1>3. Written' = Written /\ Stored' = Stored
  BY <1>2, SameTables
<1>4. PICK c \in Convs : c = embedder
  BY <1>1 DEF StoreEmbedding, Types
<1>5. 1..rows[c] \subseteq {1} /\ vectors[c] \subseteq {1}
  BY <1>1 DEF StoreOK, Types
<1>6. StoreRecord => vectors' = [vectors EXCEPT ![c] = {1}]
  BY <1>1, <1>4, <1>5 DEF StoreRecord, UpsertRecord, Types
<1>7. /\ \/ embed' = [embed EXCEPT ![c] = "ready"] /\ vectors' = [vectors EXCEPT ![c] = {1}]
         \/ /\ embed' = embed \/ embed' = [embed EXCEPT ![c] = "failed"]
            /\ vectors' = vectors \/ vectors' = [vectors EXCEPT ![c] = {1}]
      /\ outages' \in 0..MaxOutages
  BY <1>1, <1>4, <1>6 DEF StoreEmbedding, Outage, Types
<1>8. c \in handed
  BY <1>4 DEF HandOK
<1>9. /\ embed' \in [Convs -> EmbedStatus]
      /\ \A e \in Convs : embed'[e] = embed[e] \/ (e = c /\ embed'[e] \in {"ready", "failed"})
  BY <1>1, <1>7 DEF Types, EmbedStatus
<1>10. /\ vectors' \in [Convs -> SUBSET Nat] /\ \A e \in Convs : vectors[e] # {} => vectors'[e] # {}
       /\ \A e \in Convs : vectors'[e] = vectors[e] \/ vectors'[e] = {1}
       /\ embed'[c] = "ready" => vectors'[c] # {}
  <2>1. vectors \in [Convs -> SUBSET Nat] /\ {1} \in SUBSET Nat /\ {1} # {}
    BY <1>1 DEF Types
  <2>2. vectors' = vectors \/ vectors' = [vectors EXCEPT ![c] = {1}]
    BY <1>7
  <2>3. /\ vectors' \in [Convs -> SUBSET Nat]
        /\ \A e \in Convs : vectors'[e] = vectors[e] \/ vectors'[e] = {1}
    BY <2>1, <2>2
  <2>4. embed \in [Convs -> EmbedStatus]
    BY <1>1 DEF Types
  <2>5. embed' = [embed EXCEPT ![c] = "failed"] => embed'[c] # "ready"
    BY <2>4
  <2>6. vectors' = [vectors EXCEPT ![c] = {1}] => vectors'[c] = {1}
    BY <2>1
  <2>7. embed[c] = "ready" => vectors[c] # {}
    BY DEF StoreOK
  <2>8. embed'[c] = "ready" => vectors'[c] # {}
    BY <1>7, <2>1, <2>3, <2>5, <2>6, <2>7
  <2>9. QED
    BY <2>1, <2>3, <2>8
<1>11. Types'
  BY <1>1, <1>2, <1>7, <1>9, <1>10 DEF Types
<1>12. BatchOK' /\ MetaOK'
  BY <1>3, <1>2, <1>10 DEF BatchOK, MetaOK
<1>13. DoneOK' /\ CoverOK' /\ CountOK'
  BY <1>3, <1>2 DEF DoneOK, CoverOK, CountOK
<1>14. HandOK'
  <2>1. \A e \in Convs : \/ embed'[e] \notin {"none", "pending"} \/ embedQueue'[e] > 0
                         \/ embedder' = e
                         => e \in handed'
    BY <1>2, <1>8, <1>9 DEF HandOK
  <2>2. \A e \in Written' : embed'[e] # "none"
    BY <1>3, <1>1, <1>2, <1>9 DEF HandOK, Written
  <2>3. QED
    BY <1>2, <2>1, <2>2 DEF HandOK
<1>15. StoreOK'
  <2>1. \A e \in Convs : vectors'[e] \subseteq {1}
    <3>1. SUFFICES ASSUME NEW e \in Convs PROVE vectors'[e] \subseteq {1}
      OBVIOUS
    <3>2. vectors[e] \subseteq {1}
      BY DEF StoreOK
    <3>3. vectors'[e] = vectors[e] \/ vectors'[e] = {1}
      BY <1>10
    <3>4. QED
      BY ONLY <3>2, <3>3
  <2>2. \A e \in Convs : embed'[e] = "ready" => vectors'[e] # {}
    <3>1. SUFFICES ASSUME NEW e \in Convs, embed'[e] = "ready" PROVE vectors'[e] # {}
      OBVIOUS
    <3>2. CASE e = c
      BY <1>10, <3>1, <3>2
    <3>3. CASE e # c
      <4>1. embed[e] = "ready"
        BY <1>9, <3>1, <3>3
      <4>2. vectors[e] # {}
        BY <4>1 DEF StoreOK
      <4>3. QED
        BY <1>10, <4>2
    <3>4. QED
      BY <3>2, <3>3
  <2>3. UNCHANGED <<rows, assets>>
    BY <1>2
  <2>4. QED
    BY <2>1, <2>2, <2>3 DEF StoreOK
<1>16. QED
  BY <1>11, <1>12, <1>13, <1>14, <1>15, TypesAreTypeOK

-----------------------------------------------------------------------------
\* Every step preserves the invariant.
LEMMA NextInv == Inv /\ [Next]_vars => Inv'
<1> SUFFICES ASSUME Inv, [Next]_vars PROVE Inv'
  OBVIOUS
<1>1. CASE StageFiles
  BY <1>1, StageFilesInv
<1>2. CASE \E r \in Requests : FinalizeJob(r)
  BY <1>2, FinalizeJobInv
<1>3. CASE \E r \in Requests : RetryFailedImport(r)
  BY <1>3, RetryFailedImportInv
<1>4. CASE \E r \in Requests : EnqueueTask(r)
  BY <1>4, EnqueueTaskInv
<1>5. CASE \E r \in Requests : RevertJob(r)
  BY <1>5, RevertJobInv
<1>6. CASE \E r \in Requests : RequestDies(r)
  BY <1>6, RequestDiesInv
<1>7. CASE \E w \in Workers : PopTask(w)
  BY <1>7, PopTaskInv
<1>8. CASE \E w \in Workers : MarkRunning(w)
  BY <1>8, MarkRunningInv
<1>9. CASE \E w \in Workers : MaterializeStagedExport(w)
  BY <1>9, MaterializeStagedExportInv
<1>10. CASE \E w \in Workers : ReconcileHandoff(w)
  BY <1>10, ReconcileHandoffInv
<1>11. CASE \E w \in Workers : FindExistingThread(w)
  BY <1>11, FindExistingThreadInv
<1>12. CASE \E w \in Workers : WriteCanonicalMessages(w)
  BY <1>12, WriteCanonicalMessagesInv
<1>13. CASE \E w \in Workers : ImportRaises(w)
  BY <1>13, ImportRaisesInv
<1>14. CASE \E w \in Workers : RecordConversationBatch(w)
  BY <1>14, RecordConversationBatchInv
<1>15. CASE \E w \in Workers : HandoffBatch(w)
  BY <1>15, HandoffBatchInv
<1>16. CASE \E w \in Workers : ConversationsDone(w)
  BY <1>16, ConversationsDoneInv
<1>17. CASE \E w \in Workers : FindExistingAsset(w)
  BY <1>17, FindExistingAssetInv
<1>18. CASE \E w \in Workers : ImportMediaRecord(w)
  BY <1>18, ImportMediaRecordInv
<1>19. CASE \E w \in Workers : RecordMediaBatch(w)
  BY <1>19, RecordMediaBatchInv
<1>20. CASE \E w \in Workers : CompleteJob(w)
  BY <1>20, CompleteJobInv
<1>21. CASE \E w \in Workers : FailJob(w)
  BY <1>21, FailJobInv
<1>22. CASE \E w \in Workers : RestartWorker(w)
  BY <1>22, RestartWorkerInv
<1>23. CASE \E w \in Workers : KillWorker(w)
  BY <1>23, KillWorkerInv
<1>24. CASE \E c \in Convs : TakeEmbedTask(c)
  BY <1>24, TakeEmbedTaskInv
<1>25. CASE StoreEmbedding
  BY <1>25, StoreEmbeddingInv
<1>26. CASE UNCHANGED vars
  BY <1>26 DEF vars, jobVars, canonVars, embedVars, localVars, Inv, TypeOK, BatchOK, MetaOK, DoneOK,
     HandOK, CoverOK, CountOK, StoreOK, Written, Stored
<1>27. QED
  BY <1>1, <1>2, <1>3, <1>4, <1>5, <1>6, <1>7, <1>8, <1>9, <1>10, <1>11, <1>12, <1>13, <1>14,
     <1>15, <1>16,
     <1>17, <1>18, <1>19, <1>20, <1>21, <1>22, <1>23, <1>24, <1>25, <1>26 DEF Next, ApiStep,
     WorkerStep, EmbedStep

\* The invariant holds of every reachable state.
LEMMA Invariance == Spec => []Inv
<1>1. QED
  BY InitInv, NextInv, PTL DEF Spec

-----------------------------------------------------------------------------
\* The job, its checkpoint, the tables and the queues keep their types.
THEOREM TypeCorrect == Spec => []TypeOK
<1>1. Inv => TypeOK
  BY DEF Inv
<1>2. QED
  BY <1>1, Invariance, PTL

\* A completed job has lost nothing: every importable conversation is in the
\* canonical tables and the checkpoint names every item.
THEOREM CoverSafety == Spec => []CompletedCovers
<1>1. Inv => CompletedCovers
  BY DEF Inv, CoverOK, DoneOK, CompletedCovers
<1>2. QED
  BY <1>1, Invariance, PTL

\* The conversations of a completed job were all handed to the embedding queue.
THEOREM HandoffSafety == Spec => []CompletedHandedOff
<1>1. Inv => CompletedHandedOff
  BY DEF Inv, CoverOK, DoneOK, CompletedHandedOff
<1>2. QED
  BY <1>1, Invariance, PTL

\* Replays and overlapping runs count an item once.
THEOREM CountSafety == Spec => []CountedOnce
<1>1. Inv => CountedOnce
  BY DEF Inv, CountOK, CountedOnce
<1>2. QED
  BY <1>1, Invariance, PTL

\* Overlapping runs that each found nothing leave one copy of a conversation and
\* of a file, and one record of it in the vector store.
THEOREM StoreSafety == Spec => []StoredOnce
<1>1. Inv => StoredOnce
  <2> SUFFICES ASSUME Inv PROVE StoredOnce
    OBVIOUS
  <2>1. \A S : S \subseteq {1} => Cardinality(S) <= 1
    <3>1. SUFFICES ASSUME NEW S, S \subseteq {1} PROVE Cardinality(S) <= 1
      OBVIOUS
    <3>2. S = {} \/ S = {1}
      BY <3>1
    <3>3. Cardinality({}) = 0 /\ Cardinality({1}) = 1
      BY FS_EmptySet, FS_Singleton
    <3>4. QED
      BY <3>2, <3>3
  <2>2. QED
    BY <2>1 DEF Inv, StoreOK, StoredOnce
<1>2. QED
  BY <1>1, Invariance, PTL

-----------------------------------------------------------------------------
(* AccountImport implements ImportLedger                                    *)

Phase == IF status \in Terminal THEN status ELSE "open"

\* Only rows are ever handed off.
OfferedOK == handed \subseteq Written

\* The counters of a job are zero only while no importable conversation is
\* checkpointed, so that is when a retry is allowed.
LEMMA ZeroWriteMeansNothing ==
    ASSUME Inv, ZeroWrite
    PROVE (Convs \ empty) \cap ckConvs = {}
<1>1. Types
  BY TypesAreTypeOK DEF Inv
<1>2. Cardinality(ckConvs \ empty) = 0 /\ IsFiniteSet(ckConvs \ empty)
  BY <1>1, FiniteParts DEF Inv, CountOK, ZeroWrite
<1>3. ckConvs \ empty = {}
  BY <1>2, FS_EmptySet
<1>4. QED
  BY <1>3

\* What a hand-off offers is checkpointed, importable and in the tables.
LEMMA HandoffOffers ==
    ASSUME Inv, NEW w \in Workers, NEW S \in SUBSET ckConvs, NEW next,
           EnqueuePendingEmbeddings(w, S, next)
    PROVE \E P \in SUBSET ((Convs \ empty) \cap ckConvs \cap Written) : handed' = handed \cup P
<1>1. Pending(S) \subseteq (Convs \ empty) \cap ckConvs \cap Written
  BY DEF Inv, DoneOK, Pending
<1>2. PICK P \in SUBSET Pending(S) : PushEmbeddings(P)
  BY DEF EnqueuePendingEmbeddings
<1>3. QED
  BY <1>1, <1>2 DEF PushEmbeddings

\* The kinds of steps, as far as the ledger sees them.
Records == /\ \/ \E c \in Convs : ckConvs' = ckConvs \cup {c} /\ UNCHANGED ckMedia
              \/ \E m \in Media : ckMedia' = ckMedia \cup {m} /\ UNCHANGED ckConvs
           /\ UNCHANGED <<status, empty, handed, rows>>
Offers == /\ \E P \in SUBSET ((Convs \ empty) \cap ckConvs \cap Written) : handed' = handed \cup P
          /\ UNCHANGED <<status, empty, ckConvs, ckMedia, rows>>
Moves == /\ \/ Phase' = Phase
            \/ Phase = "open" /\ Phase' \in Terminal
            \/ Phase = "failed" /\ Phase' = "open" /\ ZeroWrite
         /\ UNCHANGED <<empty, ckConvs, ckMedia, handed, rows>>
Ingests == /\ Written \subseteq Written'
           /\ UNCHANGED <<status, empty, ckConvs, ckMedia, handed>>

LEMMA StepKinds ==
    ASSUME Inv, [Next]_vars
    PROVE Records \/ Offers \/ Moves \/ Ingests
<1> USE DEF jobVars, canonVars, embedVars, localVars
<1>1. ASSUME NEW r \in Requests, FinalizeJob(r) \/ RetryFailedImport(r) \/ RevertJob(r) PROVE Moves
  BY <1>1 DEF FinalizeJob, RetryFailedImport, RevertJob, Moves, Phase, Terminal
<1>2. ASSUME NEW w \in Workers, MarkRunning(w) \/ CompleteJob(w) \/ FailJob(w) PROVE Moves
  BY <1>2 DEF MarkRunning, CompleteJob, FailJob, Moves, Phase, Terminal, Completed
<1>3. ASSUME NEW w \in Workers, RecordConversationBatch(w) \/ RecordMediaBatch(w)
      PROVE Records \/ Ingests
  BY <1>3 DEF RecordConversationBatch, RecordMediaBatch, Records, Ingests, Inv, BatchOK, Written
<1>4. ASSUME NEW w \in Workers, ReconcileHandoff(w) \/ HandoffBatch(w) PROVE Offers
  <2>1. CASE ReconcileHandoff(w)
    BY <2>1, HandoffOffers DEF ReconcileHandoff, Offers
  <2>2. CASE HandoffBatch(w)
    <3>1. {batch[w].item} \in SUBSET ckConvs
      BY <2>2 DEF HandoffBatch, Inv, BatchOK
    <3>2. QED
      BY <2>2, <3>1, HandoffOffers DEF HandoffBatch, Offers
  <2>3. QED
    BY <1>4, <2>1, <2>2
<1>5. ASSUME NEW w \in Workers, WriteCanonicalMessages(w) PROVE Ingests
  <2>1. \A c \in Convs : rows[c] > 0 => rows'[c] > 0
    BY <1>5, TypesAreTypeOK DEF WriteCanonicalMessages, Inv, Types
  <2>2. QED
    BY <1>5, <2>1 DEF WriteCanonicalMessages, Ingests, Written
<1>6. CASE UNCHANGED <<status, empty, ckConvs, ckMedia, handed, rows>>
  BY <1>6, SameTables DEF Ingests
<1>7. ASSUME NEW w \in Workers,
             \/ PopTask(w) \/ MaterializeStagedExport(w) \/ FindExistingThread(w)
             \/ ImportRaises(w) \/ ConversationsDone(w) \/ FindExistingAsset(w)
             \/ ImportMediaRecord(w) \/ RestartWorker(w) \/ KillWorker(w)
      PROVE UNCHANGED <<status, empty, ckConvs, ckMedia, handed, rows>>
  BY <1>7 DEF PopTask, MaterializeStagedExport, FindExistingThread, ImportRaises, ConversationsDone,
     FindExistingAsset, ImportMediaRecord,
     RestartWorker, KillWorker
<1>8. CASE StageFiles \/ EmbedStep \/ UNCHANGED vars
           \/ \E r \in Requests : EnqueueTask(r) \/ RequestDies(r)
  BY <1>6, <1>8 DEF StageFiles, EmbedStep, TakeEmbedTask, StoreEmbedding, vars, EnqueueTask,
     RequestDies
<1>9. QED
  BY <1>1, <1>2, <1>3, <1>4, <1>5, <1>6, <1>7, <1>8 DEF Next, ApiStep, WorkerStep

\* Each kind is a step of the ledger or none: a job that becomes completed has
\* covered everything, because the invariant holds after the step too.
LEMMA LedgerStep ==
    ASSUME Inv, Inv', OfferedOK, [Next]_vars
    PROVE OfferedOK' /\ [Ledger!Next]_(Ledger!vars)
<1> USE DEF Phase, Ledger!Next, Ledger!vars
<1>1. CASE Records
  BY <1>1, SameTables DEF Records, OfferedOK, Ledger!RecordConversation, Ledger!RecordMedia
<1>2. CASE Offers
  BY <1>2, SameTables DEF Offers, OfferedOK, Ledger!Offer
<1>3. CASE Ingests
  BY <1>3 DEF Ingests, OfferedOK
<1>4. CASE Moves
  <2>0. OfferedOK' /\ UNCHANGED <<empty, ckConvs, ckMedia, handed>>
    BY <1>4, SameTables DEF Moves, OfferedOK
  <2>1. CASE Phase' = Phase
    BY <2>0, <2>1
  <2>2. CASE Phase = "failed" /\ Phase' = "open" /\ ZeroWrite
    <3>1. (Convs \ empty) \cap ckConvs = {}
      BY <2>2, ZeroWriteMeansNothing
    <3>2. Ledger!Retry
      BY <2>0, <2>2, <3>1 DEF Ledger!Retry, Ledger!Move
    <3>3. QED
      BY <2>0, <3>2
  <2>3. CASE Phase = "open" /\ Phase' = "failed"
    <3>1. Ledger!Fail
      BY <2>0, <2>3 DEF Ledger!Fail, Ledger!Move
    <3>2. QED
      BY <2>0, <3>1
  <2>4. CASE Phase = "open" /\ Phase' = "completed"
    <3>1. status' = "completed"
      BY <2>4
    <3>2. Convs \subseteq ckConvs /\ Media \subseteq ckMedia /\ Convs \ empty \subseteq handed
      BY <2>0, <3>1 DEF Inv, CoverOK
    <3>3. ckConvs \subseteq Convs /\ ckMedia \subseteq Media /\ Written \subseteq Convs \ empty
      BY TypesAreTypeOK DEF Inv, Types, DoneOK
    <3>4. ckConvs = Convs /\ ckMedia = Media /\ handed = Convs \ empty
      BY <3>2, <3>3 DEF OfferedOK
    <3>5. Ledger!Complete
      BY <2>0, <2>4, <3>4 DEF Ledger!Complete, Ledger!Move
    <3>6. QED
      BY <2>0, <3>5
  <2>5. QED
    BY <1>4, <2>1, <2>2, <2>3, <2>4 DEF Moves, Terminal
<1>5. QED
  BY <1>1, <1>2, <1>3, <1>4, StepKinds

\* An import job implements its ledger: overlapping runs, repeated batches,
\* crashes and retries never lose a record, offer what is not durable, complete
\* a job that lacks something, or reopen one that has recorded a conversation.
THEOREM ImportImplementsLedger == Spec => ImplementsLedger
<1>1. Init => OfferedOK /\ Ledger!Init
  BY DEF Init, OfferedOK, Ledger!Init, Terminal
<1>2. Inv /\ Inv' /\ OfferedOK /\ [Next]_vars => OfferedOK' /\ [Ledger!Next]_(Ledger!vars)
  BY LedgerStep
<1>3. QED
  BY <1>1, <1>2, Invariance, PTL DEF Spec, ImplementsLedger, Ledger!Spec
=============================================================================
