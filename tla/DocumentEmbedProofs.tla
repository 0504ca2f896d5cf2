------------------------- MODULE DocumentEmbedProofs -------------------------
(***************************************************************************)
(* What the document-embed workers and their sweeper guarantee for any        *)
(* documents, workers, repeated pushes, budgets and kills.                    *)
(***************************************************************************)
EXTENDS DocumentEmbed, FiniteSetTheorems, TLAPS

Live == {"embed", "finish"}

WorkerRecord ==
    [pc : {"idle", "load", "refuse", "claim", "embed", "finish", "sweep", "down"},
     doc : Docs, claim : 0..MaxClaims, child : {"none", "working", "wrote"},
     out : {"ready", "failed"}, found : SUBSET (Docs \X Claims)]

RowRecord == [status : Statuses, claim : 0..MaxClaims, text : {"none", "blank", "body"}]

Types == /\ row \in [Docs -> RowRecord]
         /\ \A d \in Docs : row[d].status = "processing" => row[d].claim # 0
         /\ api \in [Docs -> {"new", "enqueue", "refused", "done"}]
         /\ queue \in [Docs -> 0..MaxCopies]
         /\ pushed \in [Docs -> 0..MaxCopies]
         /\ wk \in [Workers -> WorkerRecord]
         /\ age \in [Claims -> 0..OldAge]
         /\ lastClaim \in 0..MaxClaims
         /\ chunks \in [Docs -> Nat]
         /\ kills \in 0..MaxKills

\* Nothing works on a document whose tasks are not pushed yet.
StartOK == /\ \A d \in Docs : api[d] \in {"new", "enqueue"} =>
                  queue[d] = 0 /\ pushed[d] = 0 /\ chunks[d] = 0
           /\ \A w \in Workers : wk[w].pc \in {"load", "refuse", "claim"} \cup Live =>
                  api[wk[w].doc] \notin {"new", "enqueue"}

\* Only documents with text are claimed, and their text does not change.
TextOK == /\ \A w \in Workers : wk[w].pc \in {"claim"} \cup Live => row[wk[w].doc].text = "body"
          /\ \A d \in Docs : row[d].text # "body" => chunks[d] = 0

\* A child exists while its worker embeds, and success means written chunks.
ChildOK == /\ \A w \in Workers :
                 /\ wk[w].child # "none" => wk[w].pc = "embed"
                 /\ wk[w].child = "wrote" => chunks[wk[w].doc] > 0
                 /\ wk[w].pc = "finish" /\ wk[w].out = "ready" => chunks[wk[w].doc] > 0
           /\ \A d \in Docs : row[d].status = "ready" => chunks[d] > 0

\* A live worker has a claim of its own that is within its budget.
ClaimOK == /\ \A w \in Workers : wk[w].pc \in Live =>
                 /\ wk[w].claim \in 1..lastClaim
                 /\ wk[w].pc = "embed" => age[wk[w].claim] <= Bound
                 /\ wk[w].pc = "finish" => age[wk[w].claim] <= Bound + Margin
           /\ \A v, w \in Workers : /\ wk[v].pc \in Live /\ wk[w].pc \in Live
                                    /\ wk[v].claim = wk[w].claim
                                    => v = w

\* Claims on the rows are claims that were made.
RowOK == \A d \in Docs : row[d].claim <= lastClaim

\* What a sweep has read is stale and stays so.
FoundOK == \A w \in Workers : \A p \in wk[w].found :
               p[2] \in 1..lastClaim /\ age[p[2]] > Stale

\* Workers that popped a task of d and have not written its chunks.
Holders(d) == {w \in Workers : /\ wk[w].doc = d
                               /\ \/ wk[w].pc \in {"load", "refuse", "claim"}
                                  \/ wk[w].child = "working"}

\* Every pushed task is in the queue, in one worker's hands, or used.
CountOK == \A d \in Docs : chunks[d] + queue[d] + Cardinality(Holders(d)) <= pushed[d]

Inv == /\ TypeOK /\ StartOK /\ TextOK /\ ChildOK /\ ClaimOK /\ RowOK /\ FoundOK /\ CountOK

-----------------------------------------------------------------------------
\* The number of holders is a natural number, and does not grow with fewer.
LEMMA HoldersFinite ==
    ASSUME NEW d \in Docs
    PROVE /\ IsFiniteSet(Holders(d)) /\ Cardinality(Holders(d)) \in Nat
          /\ IsFiniteSet(Holders(d)') /\ Cardinality(Holders(d)') \in Nat
<1>1. Holders(d) \subseteq Workers /\ Holders(d)' \subseteq Workers
  BY DEF Holders
<1>2. QED
  BY <1>1, DocumentEmbedAssumption, FS_Subset, FS_CardinalityType

LEMMA FewerHolders ==
    ASSUME NEW d \in Docs, Holders(d)' \subseteq Holders(d)
    PROVE Cardinality(Holders(d)') <= Cardinality(Holders(d))
BY HoldersFinite, FS_Subset

\* A worker that lets go of a task of d frees one place.
LEMMA OneHolderLess ==
    ASSUME NEW d \in Docs, NEW w, w \in Holders(d), Holders(d)' \subseteq Holders(d) \ {w}
    PROVE Cardinality(Holders(d)') <= Cardinality(Holders(d)) - 1
<1>1. IsFiniteSet(Holders(d) \ {w}) /\ Cardinality(Holders(d) \ {w}) = Cardinality(Holders(d)) - 1
  BY HoldersFinite, FS_RemoveElement
<1>2. QED
  BY <1>1, FS_Subset

\* A worker that pops a task of d takes one place more.
LEMMA OneHolderMore ==
    ASSUME NEW d \in Docs, NEW w \in Workers, Holders(d)' \subseteq Holders(d) \cup {w}
    PROVE Cardinality(Holders(d)') <= Cardinality(Holders(d)) + 1
<1>1. /\ IsFiniteSet(Holders(d) \cup {w})
      /\ Cardinality(Holders(d) \cup {w}) \in {Cardinality(Holders(d)), Cardinality(Holders(d)) + 1}
  BY HoldersFinite, FS_AddElement
<1>2. /\ Cardinality(Holders(d)') <= Cardinality(Holders(d) \cup {w})
  BY <1>1, FS_Subset
<1>3. QED
  BY <1>1, <1>2, HoldersFinite

\* The state as the lemmas below use it.
LEMMA TypedState ==
    ASSUME TypeOK
    PROVE /\ wk \in [Workers -> WorkerRecord] /\ row \in [Docs -> RowRecord]
          /\ \A v \in Workers : wk[v].doc \in Docs /\ wk[v].claim \in 0..MaxClaims
          /\ \A d \in Docs : row[d].claim \in Nat
          /\ lastClaim \in Nat /\ lastClaim <= MaxClaims
BY DocumentEmbedAssumption DEF TypeOK, WorkerRecord, RowRecord

\* TypeOK with its records named, before and after a step.
LEMMA TypesAreTypeOK == (TypeOK <=> Types) /\ (TypeOK' <=> Types')
BY DEF TypeOK, Types, RowRecord, WorkerRecord

\* An UPDATE of the status by id changes one row and never its text.
LEMMA StatusUpdate ==
    ASSUME row \in [Docs -> RowRecord], NEW d \in Docs, NEW s \in Statuses,
           NEW c \in 0..MaxClaims, _update_status(d, s, c)
    PROVE /\ row' \in [Docs -> RowRecord]
          /\ row'[d].status = s /\ row'[d].claim = c /\ row'[d].text = row[d].text
          /\ \A e \in Docs : e # d => row'[e] = row[e]
BY DEF _update_status, RowRecord

\* Nothing has happened in an initial state.
LEMMA InitInv == Init => Inv
<1> SUFFICES ASSUME Init PROVE Inv
  OBVIOUS
<1> USE DocumentEmbedAssumption
<1>1. PICK d0 \in Docs : wk = [w \in Workers |-> IdleWorker(d0)]
  BY DEF Init
<1>2. TypeOK
  BY <1>1 DEF Init, TypeOK, IdleWorker, Statuses, OldAge, Claims
<1>3. StartOK /\ TextOK /\ ChildOK /\ ClaimOK /\ RowOK /\ FoundOK
  BY <1>1 DEF Init, StartOK, TextOK, ChildOK, ClaimOK, RowOK, FoundOK, IdleWorker, Live
<1>4. CountOK
  <2>1. \A d \in Docs : Holders(d) = {}
    BY <1>1 DEF Holders, IdleWorker
  <2>2. QED
    BY <2>1, FS_EmptySet DEF Init, CountOK
<1>5. QED
  BY <1>2, <1>3, <1>4 DEF Inv

-----------------------------------------------------------------------------
(* Every action preserves the invariant                                     *)

\* The row is created before anything can work on it.
LEMMA UploadDocumentInv ==
    ASSUME Inv, NEW d \in Docs, UploadDocument(d)
    PROVE Inv'
<1> USE DocumentEmbedAssumption DEF Inv
<1>0. /\ wk \in [Workers -> WorkerRecord] /\ row \in [Docs -> RowRecord]
      /\ \A v \in Workers : wk[v].doc \in Docs /\ wk[v].claim \in 0..MaxClaims
      /\ \A e \in Docs : row[e].claim \in Nat
      /\ lastClaim \in Nat /\ lastClaim <= MaxClaims
  BY TypedState
<1>1. UNCHANGED <<queue, pushed, wk, age, lastClaim, chunks, kills>>
  BY DEF UploadDocument, upVars, timeVars
<1>2. api[d] = "new"
  BY DEF UploadDocument
<1>3. /\ row' \in [Docs -> RowRecord]
      /\ row'[d].status \in {"failed", "pending"} /\ row'[d].claim = 0
      /\ \A e \in Docs : e # d => row'[e] = row[e]
  BY <1>0 DEF UploadDocument, RowRecord, Statuses
<1>4. /\ api' \in [Docs -> {"new", "enqueue", "refused", "done"}]
      /\ \A e \in Docs : e # d => api'[e] = api[e]
  BY DEF UploadDocument, TypeOK
<1>5. wk \in [Workers -> WorkerRecord] /\ \A v \in Workers : wk[v].doc \in Docs 
  BY TypedState DEF WorkerRecord
<1>6. \A v \in Workers : wk[v].pc \in {"load", "refuse", "claim"} \cup Live => wk[v].doc # d
  BY <1>2 DEF StartOK
<1>7. TypeOK'
  BY <1>0, <1>1, <1>2, <1>3, <1>4, <1>5, <1>6, TypesAreTypeOK DEF Types
<1>8. StartOK'
  BY <1>0, <1>1, <1>2, <1>3, <1>4, <1>5, <1>6 DEF StartOK
<1>9. TextOK'
  BY <1>0, <1>1, <1>2, <1>3, <1>4, <1>5, <1>6 DEF TextOK, StartOK, Live
<1>10. ChildOK'
  BY <1>0, <1>1, <1>2, <1>3, <1>4, <1>5, <1>6 DEF ChildOK
<1>11. ClaimOK'
  BY <1>0, <1>1, <1>2, <1>3, <1>4, <1>5, <1>6 DEF ClaimOK, Live
<1>12. RowOK'
  BY <1>0, <1>1, <1>3 DEF RowOK
<1>13. FoundOK'
  BY <1>0, <1>1, <1>2, <1>3, <1>4, <1>5, <1>6 DEF FoundOK
<1>14. CountOK'
  <2>1. \A e \in Docs : Holders(e)' \subseteq Holders(e)
    BY <1>0, <1>1, <1>2, <1>3, <1>4, <1>5, <1>6 DEF Holders
  <2>2. QED
    BY <1>1, <2>1, FewerHolders, HoldersFinite DEF CountOK, TypeOK
<1>15. QED
  BY <1>7, <1>8, <1>9, <1>10, <1>11, <1>12, <1>13, <1>14

\* The tasks are pushed once.
LEMMA EnqueueDocumentEmbedInv ==
    ASSUME Inv, NEW d \in Docs, EnqueueDocumentEmbed(d)
    PROVE Inv'
<1> USE DocumentEmbedAssumption DEF Inv
<1>0. /\ wk \in [Workers -> WorkerRecord] /\ row \in [Docs -> RowRecord]
      /\ \A v \in Workers : wk[v].doc \in Docs /\ wk[v].claim \in 0..MaxClaims
      /\ \A e \in Docs : row[e].claim \in Nat
      /\ lastClaim \in Nat /\ lastClaim <= MaxClaims
  BY TypedState
<1>1. UNCHANGED <<row, wk, age, lastClaim, chunks, kills>>
  BY DEF EnqueueDocumentEmbed, upVars, timeVars
<1>2. api[d] = "enqueue"
  BY DEF EnqueueDocumentEmbed
<1>3. PICK n \in 0..MaxCopies : /\ queue' = [queue EXCEPT ![d] = n]
                              /\ pushed' = [pushed EXCEPT ![d] = n]
                              /\ \E s \in {"done", "refused"} : api' = [api EXCEPT ![d] = s]
  BY DEF EnqueueDocumentEmbed
<1>4. wk \in [Workers -> WorkerRecord] /\ \A v \in Workers : wk[v].doc \in Docs
  BY TypedState DEF WorkerRecord
<1>5. \A v \in Workers : wk[v].pc \in {"load", "refuse", "claim"} \cup Live => wk[v].doc # d
  BY <1>2 DEF StartOK
<1>6. TypeOK'
  BY <1>0, <1>1, <1>2, <1>3, <1>4, <1>5, TypesAreTypeOK DEF Types
<1>7. StartOK'
  BY <1>0, <1>1, <1>2, <1>3, <1>4, <1>5 DEF StartOK, TypeOK
<1>8. TextOK'
  BY <1>0, <1>1, <1>2, <1>3, <1>4, <1>5 DEF TextOK, Live
<1>9. ChildOK'
  BY <1>0, <1>1, <1>2, <1>3, <1>4, <1>5 DEF ChildOK
<1>10. ClaimOK'
  BY <1>0, <1>1, <1>2, <1>3, <1>4, <1>5 DEF ClaimOK, Live
<1>11. RowOK'
  BY <1>0, <1>1, <1>2, <1>3, <1>4, <1>5 DEF RowOK
<1>12. FoundOK'
  BY <1>0, <1>1, <1>2, <1>3, <1>4, <1>5 DEF FoundOK
<1>13. CountOK'
  <2>1. \A e \in Docs : Holders(e)' = Holders(e)
    BY <1>1 DEF Holders
  <2>2. Holders(d) = {} /\ chunks[d] = 0
    BY <1>2, <1>5 DEF Holders, StartOK, ChildOK, Live
  <2>3. Cardinality(Holders(d)) = 0
    BY <2>2, FS_EmptySet
  <2>4. \A e \in Docs : e # d => queue'[e] = queue[e] /\ pushed'[e] = pushed[e]
    BY <1>3 DEF TypeOK
  <2>5. queue'[d] = n /\ pushed'[d] = n
    BY <1>3 DEF TypeOK
  <2>6. QED
    BY <1>1, <2>1, <2>2, <2>3, <2>4, <2>5 DEF CountOK
<1>14. QED
  BY <1>6, <1>7, <1>8, <1>9, <1>10, <1>11, <1>12, <1>13

\* The failed push only rewrites the status.
LEMMA MarkEnqueueFailedInv ==
    ASSUME Inv, NEW d \in Docs, MarkEnqueueFailed(d)
    PROVE Inv'
<1> USE DocumentEmbedAssumption DEF Inv
<1>0. /\ wk \in [Workers -> WorkerRecord] /\ row \in [Docs -> RowRecord]
      /\ \A v \in Workers : wk[v].doc \in Docs /\ wk[v].claim \in 0..MaxClaims
      /\ \A e \in Docs : row[e].claim \in Nat
      /\ lastClaim \in Nat /\ lastClaim <= MaxClaims
  BY TypedState
<1>1. UNCHANGED <<queue, pushed, wk, age, lastClaim, chunks, kills>>
  BY DEF MarkEnqueueFailed, upVars, timeVars
<1>2. api[d] = "refused"
  BY DEF MarkEnqueueFailed
<1>3. /\ row' \in [Docs -> RowRecord]
      /\ row'[d].status = "failed" /\ row'[d].claim = 0 /\ row'[d].text = row[d].text
      /\ \A e \in Docs : e # d => row'[e] = row[e]
  <2>1. _update_status(d, "failed", 0)
    BY DEF MarkEnqueueFailed, _update_status
  <2>2. QED
    BY <1>0, <2>1, StatusUpdate DEF Statuses
<1>4. /\ api' \in [Docs -> {"new", "enqueue", "refused", "done"}] /\ api'[d] = "done"
      /\ \A e \in Docs : e # d => api'[e] = api[e]
  BY DEF MarkEnqueueFailed, TypeOK
<1>5. wk \in [Workers -> WorkerRecord] /\ \A v \in Workers : wk[v].doc \in Docs
  BY TypedState DEF WorkerRecord
<1>6. TypeOK'
  BY <1>0, <1>1, <1>2, <1>3, <1>4, <1>5, TypesAreTypeOK DEF Types
<1>7. StartOK'
  BY <1>0, <1>1, <1>2, <1>3, <1>4, <1>5 DEF StartOK
<1>8. TextOK'
  BY <1>0, <1>1, <1>2, <1>3, <1>4, <1>5 DEF TextOK, Live
<1>9. ChildOK'
  BY <1>0, <1>1, <1>2, <1>3, <1>4, <1>5 DEF ChildOK
<1>10. ClaimOK'
  BY <1>0, <1>1, <1>2, <1>3, <1>4, <1>5 DEF ClaimOK, Live
<1>11. RowOK'
  BY <1>0, <1>1, <1>2, <1>3, <1>4, <1>5 DEF RowOK
<1>12. FoundOK'
  BY <1>0, <1>1, <1>2, <1>3, <1>4, <1>5 DEF FoundOK
<1>13. CountOK'
  <2>1. \A e \in Docs : Holders(e)' \subseteq Holders(e)
    BY <1>0, <1>1, <1>2, <1>3, <1>4, <1>5 DEF Holders
  <2>2. QED
    BY <1>1, <2>1, FewerHolders, HoldersFinite DEF CountOK, TypeOK
<1>14. QED
  BY <1>6, <1>7, <1>8, <1>9, <1>10, <1>11, <1>12, <1>13

\* A popped task is in one worker's hands.
LEMMA DequeueDocumentEmbedInv ==
    ASSUME Inv, NEW w \in Workers, NEW d \in Docs, DequeueDocumentEmbed(w, d)
    PROVE Inv'
<1> USE DocumentEmbedAssumption DEF Inv
<1>0. /\ wk \in [Workers -> WorkerRecord] /\ row \in [Docs -> RowRecord]
      /\ \A v \in Workers : wk[v].doc \in Docs /\ wk[v].claim \in 0..MaxClaims
      /\ \A e \in Docs : row[e].claim \in Nat
      /\ lastClaim \in Nat /\ lastClaim <= MaxClaims
  BY TypedState
<1>1. UNCHANGED <<row, api, pushed, age, lastClaim, chunks, kills>>
  BY DEF DequeueDocumentEmbed, upVars, timeVars
<1>2. /\ wk[w].pc = "idle" /\ queue[d] > 0 /\ wk \in [Workers -> WorkerRecord]
      /\ \A v \in Workers : wk[v].doc \in Docs
  BY TypedState DEF DequeueDocumentEmbed, WorkerRecord
<1>3. /\ wk' \in [Workers -> WorkerRecord]
      /\ wk'[w].pc = "load" /\ wk'[w].doc = d /\ wk'[w].child = "none" /\ wk'[w].found = {}
      /\ \A v \in Workers : v # w => wk'[v] = wk[v]
  BY <1>0, <1>2 DEF DequeueDocumentEmbed, Goto, WorkerRecord, IdleWorker, Claims
<1>4. queue' = [queue EXCEPT ![d] = @ - 1]
  BY DEF DequeueDocumentEmbed
<1>5. TypeOK'
  BY <1>0, <1>1, <1>2, <1>3, <1>4, TypesAreTypeOK DEF Types
<1>6. StartOK'
  BY <1>0, <1>1, <1>2, <1>3, <1>4 DEF StartOK, TypeOK, Live
<1>7. TextOK'
  BY <1>0, <1>1, <1>2, <1>3, <1>4 DEF TextOK, Live
<1>8. ChildOK'
  BY <1>0, <1>1, <1>2, <1>3, <1>4 DEF ChildOK
<1>9. ClaimOK'
  BY <1>0, <1>1, <1>2, <1>3, <1>4 DEF ClaimOK, Live
<1>10. RowOK'
  BY <1>0, <1>1, <1>2, <1>3, <1>4 DEF RowOK
<1>11. FoundOK'
  BY <1>0, <1>1, <1>2, <1>3, <1>4 DEF FoundOK
<1>12. CountOK'
  <2>1. Holders(d)' \subseteq Holders(d) \cup {w}
    BY <1>2, <1>3 DEF Holders
  <2>2. \A e \in Docs : e # d => Holders(e)' \subseteq Holders(e)
    BY <1>2, <1>3 DEF Holders
  <2>3. \A e \in Docs : e # d => queue'[e] = queue[e]
    BY <1>4 DEF TypeOK
  <2>4. /\ queue'[d] = queue[d] - 1 /\ queue[d] \in Nat
        /\ \A e \in Docs : queue[e] \in Nat /\ chunks[e] \in Nat /\ pushed[e] \in Nat
    BY <1>4 DEF TypeOK
  <2>5. Cardinality(Holders(d)') <= Cardinality(Holders(d)) + 1
    BY <2>1, OneHolderMore
  <2>6. \A e \in Docs : e # d => Cardinality(Holders(e)') <= Cardinality(Holders(e))
    BY <2>2, FewerHolders
  <2>7. QED
    BY <1>1, <2>3, <2>4, <2>5, <2>6, HoldersFinite DEF CountOK
<1>13. QED
  BY <1>5, <1>6, <1>7, <1>8, <1>9, <1>10, <1>11, <1>12

\* A document without text is not claimed.
LEMMA load_documentInv ==
    ASSUME Inv, NEW w \in Workers, _load_document(w)
    PROVE Inv'
<1> USE DocumentEmbedAssumption DEF Inv
<1>0. /\ wk \in [Workers -> WorkerRecord] /\ row \in [Docs -> RowRecord]
      /\ \A v \in Workers : wk[v].doc \in Docs /\ wk[v].claim \in 0..MaxClaims
      /\ \A e \in Docs : row[e].claim \in Nat
      /\ lastClaim \in Nat /\ lastClaim <= MaxClaims
  BY TypedState
<1>1. UNCHANGED <<row, api, queue, pushed, age, lastClaim, chunks, kills>>
  BY DEF _load_document, upVars, timeVars
<1>2. wk[w].pc = "load" /\ wk \in [Workers -> WorkerRecord] /\ wk[w].doc \in Docs
  BY TypedState DEF _load_document, WorkerRecord
<1>3. PICK s \in {"idle", "refuse", "claim"} :
          wk' = [wk EXCEPT ![w].pc = s] /\ (s = "claim" => row[wk[w].doc].text = "body")
  BY DEF _load_document, Goto
<1>4. /\ wk' \in [Workers -> WorkerRecord]
      /\ wk'[w].pc = s /\ wk'[w].doc = wk[w].doc /\ wk'[w].claim = wk[w].claim
      /\ wk'[w].child = wk[w].child /\ wk'[w].out = wk[w].out /\ wk'[w].found = wk[w].found
      /\ \A v \in Workers : v # w => wk'[v] = wk[v]
  BY <1>2, <1>3 DEF WorkerRecord
<1>5. TypeOK'
  BY <1>0, <1>1, <1>2, <1>3, <1>4, TypesAreTypeOK DEF Types
<1>6. StartOK'
  BY <1>0, <1>1, <1>2, <1>3, <1>4 DEF StartOK, Live
<1>7. TextOK'
  BY <1>0, <1>1, <1>2, <1>3, <1>4 DEF TextOK, Live
<1>8. ChildOK'
  BY <1>0, <1>1, <1>2, <1>3, <1>4 DEF ChildOK
<1>9. ClaimOK'
  BY <1>0, <1>1, <1>2, <1>3, <1>4 DEF ClaimOK, Live
<1>10. RowOK'
  BY <1>0, <1>1, <1>2, <1>3, <1>4 DEF RowOK
<1>11. FoundOK'
  BY <1>0, <1>1, <1>2, <1>3, <1>4 DEF FoundOK
<1>12. CountOK'
  <2>1. \A e \in Docs : Holders(e)' \subseteq Holders(e)
    BY <1>0, <1>1, <1>2, <1>3, <1>4 DEF Holders, ChildOK
  <2>2. QED
    BY <1>1, <2>1, FewerHolders, HoldersFinite DEF CountOK, TypeOK
<1>13. QED
  BY <1>5, <1>6, <1>7, <1>8, <1>9, <1>10, <1>11, <1>12

\* A refusal ends the task.
LEMMA RefuseWithoutTextInv ==
    ASSUME Inv, NEW w \in Workers, RefuseWithoutText(w)
    PROVE Inv'
<1> USE DocumentEmbedAssumption DEF Inv
<1>0. /\ wk \in [Workers -> WorkerRecord] /\ row \in [Docs -> RowRecord]
      /\ \A v \in Workers : wk[v].doc \in Docs /\ wk[v].claim \in 0..MaxClaims
      /\ \A e \in Docs : row[e].claim \in Nat
      /\ lastClaim \in Nat /\ lastClaim <= MaxClaims
  BY TypedState
<1>1. UNCHANGED <<api, queue, pushed, age, lastClaim, chunks, kills>>
  BY DEF RefuseWithoutText, upVars, timeVars
<1>2. wk[w].pc = "refuse" /\ wk \in [Workers -> WorkerRecord] /\ wk[w].doc \in Docs
  BY TypedState DEF RefuseWithoutText, WorkerRecord
<1>3. /\ row' \in [Docs -> RowRecord]
      /\ row'[wk[w].doc].status = "failed" /\ row'[wk[w].doc].claim = 0
      /\ row'[wk[w].doc].text = row[wk[w].doc].text
      /\ \A e \in Docs : e # wk[w].doc => row'[e] = row[e]
  <2>1. "failed" \in Statuses /\ 0 \in 0..MaxClaims /\ wk[w].doc \in Docs
    BY <1>0, <1>2 DEF Statuses, WorkerRecord
  <2>2. _update_status(wk[w].doc, "failed", 0)
    BY DEF RefuseWithoutText
  <2>3. QED
    BY <1>0, <2>1, <2>2, StatusUpdate
<1>4. /\ wk' \in [Workers -> WorkerRecord]
      /\ wk'[w].pc = "idle" /\ wk'[w].doc = wk[w].doc /\ wk'[w].claim = wk[w].claim
      /\ wk'[w].child = wk[w].child /\ wk'[w].out = wk[w].out /\ wk'[w].found = wk[w].found
      /\ \A v \in Workers : v # w => wk'[v] = wk[v]
  BY <1>0, <1>2 DEF RefuseWithoutText, Goto, WorkerRecord, IdleWorker, Claims
<1>5. TypeOK'
  BY <1>0, <1>1, <1>2, <1>3, <1>4, TypesAreTypeOK DEF Types
<1>6. StartOK'
  BY <1>0, <1>1, <1>2, <1>3, <1>4 DEF StartOK, Live
<1>7. TextOK'
  BY <1>0, <1>1, <1>2, <1>3, <1>4 DEF TextOK, Live
<1>8. ChildOK'
  BY <1>0, <1>1, <1>2, <1>3, <1>4 DEF ChildOK
<1>9. ClaimOK'
  BY <1>0, <1>1, <1>2, <1>3, <1>4 DEF ClaimOK, Live
<1>10. RowOK'
  BY <1>0, <1>1, <1>2, <1>3, <1>4 DEF RowOK
<1>11. FoundOK'
  BY <1>0, <1>1, <1>2, <1>3, <1>4 DEF FoundOK
<1>12. CountOK'
  <2>1. \A e \in Docs : Holders(e)' \subseteq Holders(e)
    BY <1>0, <1>1, <1>2, <1>3, <1>4 DEF Holders, ChildOK
  <2>2. QED
    BY <1>1, <2>1, FewerHolders, HoldersFinite DEF CountOK, TypeOK
<1>13. QED
  BY <1>5, <1>6, <1>7, <1>8, <1>9, <1>10, <1>11, <1>12

\* A claim is new, so nobody else has it.
LEMMA ClaimDocumentInv ==
    ASSUME Inv, NEW w \in Workers, ClaimDocument(w)
    PROVE Inv'
<1> USE DocumentEmbedAssumption DEF Inv
<1>0. /\ wk \in [Workers -> WorkerRecord] /\ row \in [Docs -> RowRecord]
      /\ \A v \in Workers : wk[v].doc \in Docs /\ wk[v].claim \in 0..MaxClaims
      /\ \A e \in Docs : row[e].claim \in Nat
      /\ lastClaim \in Nat /\ lastClaim <= MaxClaims
  BY TypedState
<1>1. UNCHANGED <<api, queue, pushed, chunks, kills>>
  BY DEF ClaimDocument, upVars, timeVars
<1>2. /\ wk[w].pc = "claim" /\ wk \in [Workers -> WorkerRecord] /\ wk[w].doc \in Docs
      /\ lastClaim < MaxClaims
  BY TypedState DEF ClaimDocument, WorkerRecord
<1>3. /\ row' \in [Docs -> RowRecord]
      /\ row'[wk[w].doc].status = "processing" /\ row'[wk[w].doc].claim = lastClaim + 1
      /\ row'[wk[w].doc].text = row[wk[w].doc].text
      /\ \A e \in Docs : e # wk[w].doc => row'[e] = row[e]
  <2>1. "processing" \in Statuses /\ lastClaim + 1 \in 0..MaxClaims /\ wk[w].doc \in Docs
    BY <1>0, <1>2 DEF Statuses, WorkerRecord
  <2>2. _update_status(wk[w].doc, "processing", lastClaim + 1)
    BY DEF ClaimDocument
  <2>3. QED
    BY <1>0, <2>1, <2>2, StatusUpdate
<1>4. /\ wk' \in [Workers -> WorkerRecord]
      /\ wk'[w].pc = "embed" /\ wk'[w].claim = lastClaim + 1 /\ wk'[w].child = "working"
      /\ wk'[w].doc = wk[w].doc /\ wk'[w].out = wk[w].out /\ wk'[w].found = wk[w].found
      /\ \A v \in Workers : v # w => wk'[v] = wk[v]
  <2>1. lastClaim + 1 \in 0..MaxClaims
    BY <1>0, <1>2
  <2>2. wk' = [wk EXCEPT ![w] = [@ EXCEPT !.pc = "embed", !.claim = lastClaim + 1, !.child = "working"]]
    BY DEF ClaimDocument
  <2>3. QED
    BY <1>0, <1>2, <2>1, <2>2, ZenonT(30) DEF WorkerRecord
<1>5. lastClaim \in Nat /\ lastClaim' = lastClaim + 1 /\ age' = [age EXCEPT ![lastClaim + 1] = 0]
  BY DEF ClaimDocument, TypeOK
<1>6. /\ age' \in [Claims -> 0..OldAge] /\ age'[lastClaim + 1] = 0
      /\ \A c \in 1..lastClaim : c \in Claims /\ age'[c] = age[c]
  BY <1>2, <1>5 DEF TypeOK, Claims, OldAge
<1>7. TypeOK'
  BY <1>0, <1>1, <1>2, <1>3, <1>4, <1>5, <1>6, TypesAreTypeOK DEF Types
<1>8. StartOK'
  BY <1>0, <1>1, <1>2, <1>3, <1>4, <1>5, <1>6 DEF StartOK, Live
<1>9. TextOK'
  BY <1>0, <1>1, <1>2, <1>3, <1>4, <1>5, <1>6 DEF TextOK, Live
<1>10. ChildOK'
  BY <1>0, <1>1, <1>2, <1>3, <1>4, <1>5, <1>6 DEF ChildOK
<1>11. ClaimOK'
  BY <1>0, <1>1, <1>2, <1>3, <1>4, <1>5, <1>6 DEF ClaimOK, Live
<1>12. RowOK'
  BY <1>0, <1>1, <1>2, <1>3, <1>4, <1>5, <1>6 DEF RowOK
<1>13. FoundOK'
  BY <1>0, <1>1, <1>2, <1>3, <1>4, <1>5, <1>6 DEF FoundOK, TypeOK
<1>14. CountOK'
  <2>1. \A e \in Docs : Holders(e)' \subseteq Holders(e)
    BY <1>0, <1>1, <1>2, <1>3, <1>4, <1>5, <1>6 DEF Holders, ChildOK
  <2>2. QED
    BY <1>1, <2>1, FewerHolders, HoldersFinite DEF CountOK, TypeOK
<1>15. QED
  BY <1>7, <1>8, <1>9, <1>10, <1>11, <1>12, <1>13, <1>14

\* The child writes the chunks of the task in hand.
LEMMA WriteDocumentChunksInv ==
    ASSUME Inv, NEW w \in Workers, WriteDocumentChunks(w)
    PROVE Inv'
<1> USE DocumentEmbedAssumption DEF Inv
<1>0. /\ wk \in [Workers -> WorkerRecord] /\ row \in [Docs -> RowRecord]
      /\ \A v \in Workers : wk[v].doc \in Docs /\ wk[v].claim \in 0..MaxClaims
      /\ \A e \in Docs : row[e].claim \in Nat
      /\ lastClaim \in Nat /\ lastClaim <= MaxClaims
  BY TypedState
<1>1. UNCHANGED <<row, api, queue, pushed, age, lastClaim, kills>>
  BY DEF WriteDocumentChunks, upVars, timeVars
<1>2. /\ wk[w].child = "working" /\ wk \in [Workers -> WorkerRecord] /\ wk[w].doc \in Docs
      /\ wk[w].pc = "embed"
  BY TypedState DEF WriteDocumentChunks, WorkerRecord, ChildOK
<1>3. /\ wk' \in [Workers -> WorkerRecord]
      /\ wk'[w].child = "wrote" /\ wk'[w].pc = wk[w].pc /\ wk'[w].doc = wk[w].doc
      /\ wk'[w].claim = wk[w].claim /\ wk'[w].out = wk[w].out /\ wk'[w].found = wk[w].found
      /\ \A v \in Workers : v # w => wk'[v] = wk[v]
  BY <1>0, <1>2 DEF WriteDocumentChunks, Goto, WorkerRecord, IdleWorker, Claims
<1>4. /\ chunks' \in [Docs -> Nat] /\ chunks'[wk[w].doc] = chunks[wk[w].doc] + 1
      /\ \A e \in Docs : e # wk[w].doc => chunks'[e] = chunks[e]
  BY <1>2 DEF WriteDocumentChunks, TypeOK
<1>5. /\ row[wk[w].doc].text = "body" /\ api[wk[w].doc] \notin {"new", "enqueue"}
      /\ \A e \in Docs : chunks[e] \in Nat
  BY <1>2 DEF TextOK, StartOK, Live, TypeOK
<1>6. \A v \in Workers : wk[v].doc \in Docs
  BY <1>2 DEF WorkerRecord
<1>7. TypeOK'
  BY <1>0, <1>1, <1>2, <1>3, <1>4, <1>5, <1>6, TypesAreTypeOK DEF Types
<1>8. StartOK'
  BY <1>0, <1>1, <1>2, <1>3, <1>4, <1>5, <1>6 DEF StartOK, Live
<1>9. TextOK'
  BY <1>0, <1>1, <1>2, <1>3, <1>4, <1>5, <1>6 DEF TextOK, Live
<1>10. ChildOK'
  BY <1>0, <1>1, <1>2, <1>3, <1>4, <1>5, <1>6 DEF ChildOK
<1>11. ClaimOK'
  BY <1>0, <1>1, <1>2, <1>3, <1>4, <1>5, <1>6 DEF ClaimOK, Live
<1>12. RowOK'
  BY <1>0, <1>1, <1>2, <1>3, <1>4, <1>5, <1>6 DEF RowOK
<1>13. FoundOK'
  BY <1>0, <1>1, <1>2, <1>3, <1>4, <1>5, <1>6 DEF FoundOK
<1>14. CountOK'
  <2>1. \A e \in Docs : Holders(e)' \subseteq Holders(e)
    BY <1>2, <1>3 DEF Holders
  <2>2. PICK d \in Docs : d = wk[w].doc
    BY <1>0
  <2>3. w \in Holders(d) /\ Holders(d)' \subseteq Holders(d) \ {w}
    BY <1>2, <1>3, <2>2 DEF Holders
  <2>4. Cardinality(Holders(d)') <= Cardinality(Holders(d)) - 1
    BY <2>3, OneHolderLess
  <2>5. \A e \in Docs : Cardinality(Holders(e)') <= Cardinality(Holders(e))
    BY <2>1, FewerHolders
  <2>6. \A e \in Docs : queue[e] \in Nat /\ pushed[e] \in Nat
    BY DEF TypeOK
  <2>7. chunks'[d] = chunks[d] + 1 /\ \A e \in Docs : e # d => chunks'[e] = chunks[e]
    BY <1>4, <2>2
  <2>8. QED
    BY <1>1, <1>5, <2>4, <2>5, <2>6, <2>7, HoldersFinite DEF CountOK
<1>15. QED
  BY <1>7, <1>8, <1>9, <1>10, <1>11, <1>12, <1>13, <1>14

\* Success is only reported of written chunks.
LEMMA ChildAnswersInv ==
    ASSUME Inv, NEW w \in Workers, ChildAnswers(w)
    PROVE Inv'
<1> USE DocumentEmbedAssumption DEF Inv
<1>0. /\ wk \in [Workers -> WorkerRecord] /\ row \in [Docs -> RowRecord]
      /\ \A v \in Workers : wk[v].doc \in Docs /\ wk[v].claim \in 0..MaxClaims
      /\ \A e \in Docs : row[e].claim \in Nat
      /\ lastClaim \in Nat /\ lastClaim <= MaxClaims
  BY TypedState
<1>1. UNCHANGED <<row, api, queue, pushed, age, lastClaim, chunks, kills>>
  BY DEF ChildAnswers, upVars, timeVars
<1>2. wk[w].pc = "embed" /\ wk \in [Workers -> WorkerRecord] /\ wk[w].doc \in Docs
  BY TypedState DEF ChildAnswers, WorkerRecord
<1>3. /\ wk' \in [Workers -> WorkerRecord]
      /\ wk'[w].pc = "finish" /\ wk'[w].child = "none"
      /\ wk'[w].doc = wk[w].doc /\ wk'[w].claim = wk[w].claim /\ wk'[w].found = wk[w].found
      /\ \A v \in Workers : v # w => wk'[v] = wk[v]
      /\ wk'[w].out = "ready" => wk[w].child = "wrote"
  <2>1. PICK o \in {"ready", "failed"} :
             /\ o = "ready" => wk[w].child = "wrote"
             /\ wk' = [wk EXCEPT ![w] = [@ EXCEPT !.pc = "finish", !.out = o, !.child = "none"]]
    BY DEF ChildAnswers
  <2>2. QED
    BY <1>0, <1>2, <2>1, ZenonT(30) DEF WorkerRecord
<1>4. age[wk[w].claim] \in Nat
  BY <1>2 DEF TypeOK, ClaimOK, Claims, Live
<1>5. TypeOK'
  BY <1>0, <1>1, <1>2, <1>3, <1>4, TypesAreTypeOK DEF Types
<1>6. StartOK'
  BY <1>0, <1>1, <1>2, <1>3, <1>4 DEF StartOK, Live
<1>7. TextOK'
  BY <1>0, <1>1, <1>2, <1>3, <1>4 DEF TextOK, Live
<1>8. ChildOK'
  BY <1>0, <1>1, <1>2, <1>3, <1>4 DEF ChildOK
<1>9. ClaimOK'
  BY <1>0, <1>1, <1>2, <1>3, <1>4 DEF ClaimOK, Live
<1>10. RowOK'
  BY <1>0, <1>1, <1>2, <1>3, <1>4 DEF RowOK
<1>11. FoundOK'
  BY <1>0, <1>1, <1>2, <1>3, <1>4 DEF FoundOK
<1>12. CountOK'
  <2>1. \A e \in Docs : Holders(e)' \subseteq Holders(e)
    BY <1>0, <1>1, <1>2, <1>3, <1>4 DEF Holders, ChildOK
  <2>2. QED
    BY <1>1, <2>1, FewerHolders, HoldersFinite DEF CountOK, TypeOK
<1>13. QED
  BY <1>5, <1>6, <1>7, <1>8, <1>9, <1>10, <1>11, <1>12

\* The child is gone when the bound has passed.
LEMMA ExecutionTimeoutInv ==
    ASSUME Inv, NEW w \in Workers, ExecutionTimeout(w)
    PROVE Inv'
<1> USE DocumentEmbedAssumption DEF Inv
<1>0. /\ wk \in [Workers -> WorkerRecord] /\ row \in [Docs -> RowRecord]
      /\ \A v \in Workers : wk[v].doc \in Docs /\ wk[v].claim \in 0..MaxClaims
      /\ \A e \in Docs : row[e].claim \in Nat
      /\ lastClaim \in Nat /\ lastClaim <= MaxClaims
  BY TypedState
<1>1. UNCHANGED <<row, api, queue, pushed, age, lastClaim, chunks, kills>>
  BY DEF ExecutionTimeout, upVars, timeVars
<1>2. wk[w].pc = "embed" /\ wk \in [Workers -> WorkerRecord] /\ wk[w].doc \in Docs
  BY TypedState DEF ExecutionTimeout, WorkerRecord
<1>3. /\ wk' \in [Workers -> WorkerRecord]
      /\ wk'[w].pc = "finish" /\ wk'[w].child = "none"
      /\ wk'[w].doc = wk[w].doc /\ wk'[w].claim = wk[w].claim /\ wk'[w].found = wk[w].found
      /\ \A v \in Workers : v # w => wk'[v] = wk[v]
      /\ wk'[w].out = "failed"
  BY <1>0, <1>2, ZenonT(30) DEF ExecutionTimeout, Goto, WorkerRecord, IdleWorker, Claims
<1>4. age[wk[w].claim] \in Nat
  BY <1>2 DEF TypeOK, ClaimOK, Claims, Live
<1>5. TypeOK'
  BY <1>0, <1>1, <1>2, <1>3, <1>4, TypesAreTypeOK DEF Types
<1>6. StartOK'
  BY <1>0, <1>1, <1>2, <1>3, <1>4 DEF StartOK, Live
<1>7. TextOK'
  BY <1>0, <1>1, <1>2, <1>3, <1>4 DEF TextOK, Live
<1>8. ChildOK'
  BY <1>0, <1>1, <1>2, <1>3, <1>4 DEF ChildOK
<1>9. ClaimOK'
  BY <1>0, <1>1, <1>2, <1>3, <1>4 DEF ClaimOK, Live
<1>10. RowOK'
  BY <1>0, <1>1, <1>2, <1>3, <1>4 DEF RowOK
<1>11. FoundOK'
  BY <1>0, <1>1, <1>2, <1>3, <1>4 DEF FoundOK
<1>12. CountOK'
  <2>1. \A e \in Docs : Holders(e)' \subseteq Holders(e)
    BY <1>0, <1>1, <1>2, <1>3, <1>4 DEF Holders, ChildOK
  <2>2. QED
    BY <1>1, <2>1, FewerHolders, HoldersFinite DEF CountOK, TypeOK
<1>13. QED
  BY <1>5, <1>6, <1>7, <1>8, <1>9, <1>10, <1>11, <1>12

\* A worker writes the outcome of its own claim.
LEMMA FinishDocumentInv ==
    ASSUME Inv, NEW w \in Workers, FinishDocument(w)
    PROVE Inv'
<1> USE DocumentEmbedAssumption DEF Inv
<1>0. /\ wk \in [Workers -> WorkerRecord] /\ row \in [Docs -> RowRecord]
      /\ \A v \in Workers : wk[v].doc \in Docs /\ wk[v].claim \in 0..MaxClaims
      /\ \A e \in Docs : row[e].claim \in Nat
      /\ lastClaim \in Nat /\ lastClaim <= MaxClaims
  BY TypedState
<1>1. UNCHANGED <<api, queue, pushed, age, lastClaim, chunks, kills>>
  BY DEF FinishDocument, upVars, timeVars
<1>2. wk[w].pc = "finish" /\ wk \in [Workers -> WorkerRecord] /\ wk[w].doc \in Docs
  BY TypedState DEF FinishDocument, WorkerRecord
<1>3. /\ row' \in [Docs -> RowRecord]
      /\ row'[wk[w].doc].status = wk[w].out /\ row'[wk[w].doc].claim = wk[w].claim
      /\ row'[wk[w].doc].text = row[wk[w].doc].text
      /\ \A e \in Docs : e # wk[w].doc => row'[e] = row[e]
  <2>1. wk[w].out \in Statuses /\ wk[w].claim \in 0..MaxClaims /\ wk[w].doc \in Docs
    BY <1>0, <1>2 DEF Statuses, WorkerRecord
  <2>2. _update_status(wk[w].doc, wk[w].out, wk[w].claim)
    BY DEF FinishDocument
  <2>3. QED
    BY <1>0, <2>1, <2>2, StatusUpdate
<1>4. /\ wk' \in [Workers -> WorkerRecord]
      /\ wk'[w].pc = "idle" /\ wk'[w].doc = wk[w].doc /\ wk'[w].claim = wk[w].claim
      /\ wk'[w].child = wk[w].child /\ wk'[w].out = wk[w].out /\ wk'[w].found = wk[w].found
      /\ \A v \in Workers : v # w => wk'[v] = wk[v]
  BY <1>0, <1>2 DEF FinishDocument, Goto, WorkerRecord, IdleWorker, Claims
<1>5. TypeOK'
  BY <1>0, <1>1, <1>2, <1>3, <1>4, TypesAreTypeOK DEF Types, RowOK, ClaimOK, Live
<1>6. StartOK'
  BY <1>0, <1>1, <1>2, <1>3, <1>4 DEF StartOK, Live
<1>7. TextOK'
  BY <1>0, <1>1, <1>2, <1>3, <1>4 DEF TextOK, Live
<1>8. ChildOK'
  BY <1>0, <1>1, <1>2, <1>3, <1>4 DEF ChildOK
<1>9. ClaimOK'
  BY <1>0, <1>1, <1>2, <1>3, <1>4 DEF ClaimOK, Live
<1>10. RowOK'
  BY <1>0, <1>1, <1>2, <1>3, <1>4 DEF RowOK, ClaimOK, Live
<1>11. FoundOK'
  BY <1>0, <1>1, <1>2, <1>3, <1>4 DEF FoundOK
<1>12. CountOK'
  <2>1. \A e \in Docs : Holders(e)' \subseteq Holders(e)
    BY <1>0, <1>1, <1>2, <1>3, <1>4 DEF Holders, ChildOK
  <2>2. QED
    BY <1>1, <2>1, FewerHolders, HoldersFinite DEF CountOK, TypeOK
<1>13. QED
  BY <1>5, <1>6, <1>7, <1>8, <1>9, <1>10, <1>11, <1>12

\* A killed worker takes its task and its child along.
LEMMA KillWorkerInv ==
    ASSUME Inv, NEW w \in Workers, KillWorker(w)
    PROVE Inv'
<1> USE DocumentEmbedAssumption DEF Inv
<1>0. /\ wk \in [Workers -> WorkerRecord] /\ row \in [Docs -> RowRecord]
      /\ \A v \in Workers : wk[v].doc \in Docs /\ wk[v].claim \in 0..MaxClaims
      /\ \A e \in Docs : row[e].claim \in Nat
      /\ lastClaim \in Nat /\ lastClaim <= MaxClaims
  BY TypedState
<1>1. UNCHANGED <<row, api, queue, pushed, age, lastClaim, chunks>>
  BY DEF KillWorker, upVars, timeVars
<1>2. wk \in [Workers -> WorkerRecord] /\ wk[w].doc \in Docs
  BY TypedState DEF WorkerRecord
<1>3. /\ wk' \in [Workers -> WorkerRecord]
      /\ wk'[w].pc = "down" /\ wk'[w].child = "none" /\ wk'[w].found = {} /\ wk'[w].doc = wk[w].doc
      /\ \A v \in Workers : v # w => wk'[v] = wk[v]
  BY <1>0, <1>2 DEF KillWorker, Goto, WorkerRecord, IdleWorker, Claims
<1>4. kills' \in 0..MaxKills
  BY DEF KillWorker, TypeOK
<1>5. TypeOK'
  BY <1>0, <1>1, <1>2, <1>3, <1>4, TypesAreTypeOK DEF Types
<1>6. StartOK'
  BY <1>0, <1>1, <1>2, <1>3, <1>4 DEF StartOK, Live
<1>7. TextOK'
  BY <1>0, <1>1, <1>2, <1>3, <1>4 DEF TextOK, Live
<1>8. ChildOK'
  BY <1>0, <1>1, <1>2, <1>3, <1>4 DEF ChildOK
<1>9. ClaimOK'
  BY <1>0, <1>1, <1>2, <1>3, <1>4 DEF ClaimOK, Live
<1>10. RowOK'
  BY <1>0, <1>1, <1>2, <1>3, <1>4 DEF RowOK
<1>11. FoundOK'
  BY <1>0, <1>1, <1>2, <1>3, <1>4 DEF FoundOK
<1>12. CountOK'
  <2>1. \A e \in Docs : Holders(e)' \subseteq Holders(e)
    BY <1>0, <1>1, <1>2, <1>3, <1>4 DEF Holders, ChildOK
  <2>2. QED
    BY <1>1, <2>1, FewerHolders, HoldersFinite DEF CountOK, TypeOK
<1>13. QED
  BY <1>5, <1>6, <1>7, <1>8, <1>9, <1>10, <1>11, <1>12

\* A worker comes back with nothing in hand.
LEMMA RestartWorkerInv ==
    ASSUME Inv, NEW w \in Workers, RestartWorker(w)
    PROVE Inv'
<1> USE DocumentEmbedAssumption DEF Inv
<1>0. /\ wk \in [Workers -> WorkerRecord] /\ row \in [Docs -> RowRecord]
      /\ \A v \in Workers : wk[v].doc \in Docs /\ wk[v].claim \in 0..MaxClaims
      /\ \A e \in Docs : row[e].claim \in Nat
      /\ lastClaim \in Nat /\ lastClaim <= MaxClaims
  BY TypedState
<1>1. UNCHANGED <<row, api, queue, pushed, age, lastClaim, chunks, kills>>
  BY DEF RestartWorker, upVars, timeVars
<1>2. wk[w].pc = "down" /\ wk \in [Workers -> WorkerRecord] /\ wk[w].doc \in Docs
  BY TypedState DEF RestartWorker, WorkerRecord
<1>3. /\ wk' \in [Workers -> WorkerRecord]
      /\ wk'[w].pc = "idle" /\ wk'[w].doc = wk[w].doc /\ wk'[w].claim = wk[w].claim
      /\ wk'[w].child = wk[w].child /\ wk'[w].out = wk[w].out /\ wk'[w].found = wk[w].found
      /\ \A v \in Workers : v # w => wk'[v] = wk[v]
  BY <1>0, <1>2 DEF RestartWorker, Goto, WorkerRecord, IdleWorker, Claims
<1>4. TypeOK'
  BY <1>0, <1>1, <1>2, <1>3, TypesAreTypeOK DEF Types
<1>5. StartOK'
  BY <1>0, <1>1, <1>2, <1>3 DEF StartOK, Live
<1>6. TextOK'
  BY <1>0, <1>1, <1>2, <1>3 DEF TextOK, Live
<1>7. ChildOK'
  BY <1>0, <1>1, <1>2, <1>3 DEF ChildOK
<1>8. ClaimOK'
  BY <1>0, <1>1, <1>2, <1>3 DEF ClaimOK, Live
<1>9. RowOK'
  BY <1>0, <1>1, <1>2, <1>3 DEF RowOK
<1>10. FoundOK'
  BY <1>0, <1>1, <1>2, <1>3 DEF FoundOK
<1>11. CountOK'
  <2>1. \A e \in Docs : Holders(e)' \subseteq Holders(e)
    BY <1>0, <1>1, <1>2, <1>3 DEF Holders, ChildOK
  <2>2. QED
    BY <1>1, <2>1, FewerHolders, HoldersFinite DEF CountOK, TypeOK
<1>12. QED
  BY <1>4, <1>5, <1>6, <1>7, <1>8, <1>9, <1>10, <1>11

\* What is read is older than the stale age.
LEMMA SweepCandidatesInv ==
    ASSUME Inv, NEW w \in Workers, SweepCandidates(w)
    PROVE Inv'
<1> USE DocumentEmbedAssumption DEF Inv
<1>0. /\ wk \in [Workers -> WorkerRecord] /\ row \in [Docs -> RowRecord]
      /\ \A v \in Workers : wk[v].doc \in Docs /\ wk[v].claim \in 0..MaxClaims
      /\ \A e \in Docs : row[e].claim \in Nat
      /\ lastClaim \in Nat /\ lastClaim <= MaxClaims
  BY TypedState
<1>1. UNCHANGED <<row, api, queue, pushed, age, lastClaim, chunks, kills>>
  BY DEF SweepCandidates, upVars, timeVars
<1>2. wk[w].pc = "idle" /\ wk \in [Workers -> WorkerRecord] /\ wk[w].doc \in Docs
  BY TypedState DEF SweepCandidates, WorkerRecord
<1>3. PICK S \in SUBSET Abandoned :
          wk' = [wk EXCEPT ![w].pc = "sweep", ![w].found = {<<d, row[d].claim>> : d \in S}]
  BY DEF SweepCandidates
<1>4. \A d \in S : /\ d \in Docs /\ row[d].claim \in 1..lastClaim
                  /\ row[d].claim \in Claims /\ age[row[d].claim] > Stale
  BY SMTT(30) DEF Abandoned, TypeOK, RowOK, Claims
<1>5. {<<d, row[d].claim>> : d \in S} \in SUBSET (Docs \X Claims)
  BY <1>4
<1>6. /\ wk' \in [Workers -> WorkerRecord]
      /\ wk'[w].pc = "sweep" /\ wk'[w].found = {<<d, row[d].claim>> : d \in S}
      /\ wk'[w].doc = wk[w].doc /\ wk'[w].claim = wk[w].claim /\ wk'[w].child = wk[w].child
      /\ wk'[w].out = wk[w].out
      /\ \A v \in Workers : v # w => wk'[v] = wk[v]
  BY <1>2, <1>3, <1>5, ZenonT(30) DEF WorkerRecord
<1>7. TypeOK'
  BY <1>0, <1>1, <1>2, <1>3, <1>4, <1>5, <1>6, TypesAreTypeOK DEF Types
<1>8. StartOK'
  BY <1>0, <1>1, <1>2, <1>3, <1>4, <1>5, <1>6 DEF StartOK, Live
<1>9. TextOK'
  BY <1>0, <1>1, <1>2, <1>3, <1>4, <1>5, <1>6 DEF TextOK, Live
<1>10. ChildOK'
  BY <1>0, <1>1, <1>2, <1>3, <1>4, <1>5, <1>6 DEF ChildOK
<1>11. ClaimOK'
  BY <1>0, <1>1, <1>2, <1>3, <1>4, <1>5, <1>6 DEF ClaimOK, Live
<1>12. RowOK'
  BY <1>0, <1>1, <1>2, <1>3, <1>4, <1>5, <1>6 DEF RowOK
<1>13. FoundOK'
  BY <1>1, <1>4, <1>6 DEF FoundOK
<1>14. CountOK'
  <2>1. \A e \in Docs : Holders(e)' \subseteq Holders(e)
    BY <1>0, <1>1, <1>2, <1>3, <1>4, <1>5, <1>6 DEF Holders, ChildOK
  <2>2. QED
    BY <1>1, <2>1, FewerHolders, HoldersFinite DEF CountOK, TypeOK
<1>15. QED
  BY <1>7, <1>8, <1>9, <1>10, <1>11, <1>12, <1>13, <1>14

\* A sweep only fails rows.
LEMMA SweepUpdateInv ==
    ASSUME Inv, NEW w \in Workers, SweepUpdate(w)
    PROVE Inv'
<1> USE DocumentEmbedAssumption DEF Inv
<1>0. /\ wk \in [Workers -> WorkerRecord] /\ row \in [Docs -> RowRecord]
      /\ \A v \in Workers : wk[v].doc \in Docs /\ wk[v].claim \in 0..MaxClaims
      /\ \A e \in Docs : row[e].claim \in Nat
      /\ lastClaim \in Nat /\ lastClaim <= MaxClaims
  BY TypedState
<1>1. UNCHANGED <<api, queue, pushed, age, lastClaim, chunks, kills>>
  BY DEF SweepUpdate, upVars, timeVars
<1>2. wk[w].pc = "sweep" /\ wk \in [Workers -> WorkerRecord] /\ wk[w].doc \in Docs
  BY TypedState DEF SweepUpdate, WorkerRecord
<1>3. /\ row' \in [Docs -> RowRecord]
      /\ \A d \in Docs : /\ row'[d].claim = row[d].claim /\ row'[d].text = row[d].text
                         /\ row'[d].status \in {row[d].status, "failed"}
  BY <1>0 DEF SweepUpdate, RowRecord, Statuses
<1>4. /\ wk' \in [Workers -> WorkerRecord]
      /\ wk'[w].pc = "idle" /\ wk'[w].found = {} /\ wk'[w].doc = wk[w].doc
      /\ wk'[w].claim = wk[w].claim /\ wk'[w].child = wk[w].child /\ wk'[w].out = wk[w].out
      /\ \A v \in Workers : v # w => wk'[v] = wk[v]
  BY <1>0, <1>2, ZenonT(30) DEF SweepUpdate, Goto, WorkerRecord, IdleWorker, Claims
<1>5. TypeOK'
  BY <1>0, <1>1, <1>2, <1>3, <1>4, TypesAreTypeOK DEF Types
<1>6. StartOK'
  BY <1>0, <1>1, <1>2, <1>3, <1>4 DEF StartOK, Live
<1>7. TextOK'
  BY <1>0, <1>1, <1>2, <1>3, <1>4 DEF TextOK, Live
<1>8. ChildOK'
  BY <1>0, <1>1, <1>2, <1>3, <1>4 DEF ChildOK
<1>9. ClaimOK'
  BY <1>0, <1>1, <1>2, <1>3, <1>4 DEF ClaimOK, Live
<1>10. RowOK'
  BY <1>0, <1>1, <1>2, <1>3, <1>4 DEF RowOK
<1>11. FoundOK'
  BY <1>0, <1>1, <1>2, <1>3, <1>4 DEF FoundOK
<1>12. CountOK'
  <2>1. \A e \in Docs : Holders(e)' \subseteq Holders(e)
    BY <1>0, <1>1, <1>2, <1>3, <1>4 DEF Holders, ChildOK
  <2>2. QED
    BY <1>1, <2>1, FewerHolders, HoldersFinite DEF CountOK, TypeOK
<1>13. QED
  BY <1>5, <1>6, <1>7, <1>8, <1>9, <1>10, <1>11, <1>12

\* A failed sweep forgets what it has read.
LEMMA SweepFailsInv ==
    ASSUME Inv, NEW w \in Workers, SweepFails(w)
    PROVE Inv'
<1> USE DocumentEmbedAssumption DEF Inv
<1>0. /\ wk \in [Workers -> WorkerRecord] /\ row \in [Docs -> RowRecord]
      /\ \A v \in Workers : wk[v].doc \in Docs /\ wk[v].claim \in 0..MaxClaims
      /\ \A e \in Docs : row[e].claim \in Nat
      /\ lastClaim \in Nat /\ lastClaim <= MaxClaims
  BY TypedState
<1>1. UNCHANGED <<row, api, queue, pushed, age, lastClaim, chunks>>
  BY DEF SweepFails, upVars, timeVars
<1>2. wk[w].pc = "sweep" /\ wk \in [Workers -> WorkerRecord] /\ wk[w].doc \in Docs
  BY TypedState DEF SweepFails, WorkerRecord
<1>3. /\ wk' \in [Workers -> WorkerRecord]
      /\ wk'[w].pc = "idle" /\ wk'[w].found = {} /\ wk'[w].doc = wk[w].doc
      /\ wk'[w].claim = wk[w].claim /\ wk'[w].child = wk[w].child /\ wk'[w].out = wk[w].out
      /\ \A v \in Workers : v # w => wk'[v] = wk[v]
  BY <1>0, <1>2, ZenonT(30) DEF SweepFails, Goto, WorkerRecord, IdleWorker, Claims
<1>4. kills' \in 0..MaxKills
  BY DEF SweepFails, TypeOK
<1>5. TypeOK'
  BY <1>0, <1>1, <1>2, <1>3, <1>4, TypesAreTypeOK DEF Types
<1>6. StartOK'
  BY <1>0, <1>1, <1>2, <1>3, <1>4 DEF StartOK, Live
<1>7. TextOK'
  BY <1>0, <1>1, <1>2, <1>3, <1>4 DEF TextOK, Live
<1>8. ChildOK'
  BY <1>0, <1>1, <1>2, <1>3, <1>4 DEF ChildOK
<1>9. ClaimOK'
  BY <1>0, <1>1, <1>2, <1>3, <1>4 DEF ClaimOK, Live
<1>10. RowOK'
  BY <1>0, <1>1, <1>2, <1>3, <1>4 DEF RowOK
<1>11. FoundOK'
  BY <1>0, <1>1, <1>2, <1>3, <1>4 DEF FoundOK
<1>12. CountOK'
  <2>1. \A e \in Docs : Holders(e)' \subseteq Holders(e)
    BY <1>0, <1>1, <1>2, <1>3, <1>4 DEF Holders, ChildOK
  <2>2. QED
    BY <1>1, <2>1, FewerHolders, HoldersFinite DEF CountOK, TypeOK
<1>13. QED
  BY <1>5, <1>6, <1>7, <1>8, <1>9, <1>10, <1>11, <1>12

\* Time stops at the budget of a live worker.
LEMMA TickInv ==
    ASSUME Inv, Tick
    PROVE Inv'
<1> USE DocumentEmbedAssumption DEF Inv
<1>0. /\ wk \in [Workers -> WorkerRecord] /\ row \in [Docs -> RowRecord]
      /\ \A v \in Workers : wk[v].doc \in Docs /\ wk[v].claim \in 0..MaxClaims
      /\ \A e \in Docs : row[e].claim \in Nat
      /\ lastClaim \in Nat /\ lastClaim <= MaxClaims
  BY TypedState
<1>1. UNCHANGED <<row, api, queue, pushed, wk, lastClaim, chunks, kills>>
  BY DEF Tick, upVars, timeVars
<1>2. /\ age' \in [Claims -> 0..OldAge]
      /\ \A c \in Claims : /\ age'[c] \in {age[c], age[c] + 1} /\ age[c] \in Nat
                           /\ age[c] > Stale => age'[c] > Stale
  BY DEF Tick, TypeOK, Claims, OldAge
<1>3. \A v \in Workers : WithinBudget(v)
  BY DEF Tick
<1>4. \A v \in Workers : wk[v].pc \in Live => wk[v].claim \in Claims
  BY DEF ClaimOK, TypeOK, Claims
<1>5. \A c \in 1..lastClaim : c \in Claims
  BY DEF TypeOK, Claims
<1>6. TypeOK'
  BY <1>0, <1>1, <1>2, <1>3, <1>4, <1>5, TypesAreTypeOK DEF Types
<1>7. StartOK'
  BY <1>0, <1>1, <1>2, <1>3, <1>4, <1>5 DEF StartOK, Live
<1>8. TextOK'
  BY <1>0, <1>1, <1>2, <1>3, <1>4, <1>5 DEF TextOK, Live
<1>9. ChildOK'
  BY <1>0, <1>1, <1>2, <1>3, <1>4, <1>5 DEF ChildOK
<1>10. ClaimOK'
  BY <1>0, <1>1, <1>2, <1>3, <1>4, <1>5 DEF ClaimOK, WithinBudget, Live
<1>11. RowOK'
  BY <1>0, <1>1, <1>2, <1>3, <1>4, <1>5 DEF RowOK
<1>12. FoundOK'
  BY <1>0, <1>1, <1>2, <1>3, <1>4, <1>5 DEF FoundOK
<1>13. CountOK'
  <2>1. \A e \in Docs : Holders(e)' \subseteq Holders(e)
    BY <1>1 DEF Holders
  <2>2. QED
    BY <1>1, <2>1, FewerHolders, HoldersFinite DEF CountOK, TypeOK
<1>14. QED
  BY <1>6, <1>7, <1>8, <1>9, <1>10, <1>11, <1>12, <1>13

-----------------------------------------------------------------------------
\* Every step preserves the invariant.
LEMMA NextInv == Inv /\ [Next]_vars => Inv'
<1> SUFFICES ASSUME Inv, [Next]_vars PROVE Inv'
  OBVIOUS
<1>1. CASE \E d \in Docs : UploadDocument(d)
  BY <1>1, UploadDocumentInv
<1>2. CASE \E d \in Docs : EnqueueDocumentEmbed(d)
  BY <1>2, EnqueueDocumentEmbedInv
<1>3. CASE \E d \in Docs : MarkEnqueueFailed(d)
  BY <1>3, MarkEnqueueFailedInv
<1>4. CASE \E w \in Workers, d \in Docs : DequeueDocumentEmbed(w, d)
  BY <1>4, DequeueDocumentEmbedInv
<1>5. CASE \E w \in Workers : _load_document(w)
  BY <1>5, load_documentInv
<1>6. CASE \E w \in Workers : RefuseWithoutText(w)
  BY <1>6, RefuseWithoutTextInv
<1>7. CASE \E w \in Workers : ClaimDocument(w)
  BY <1>7, ClaimDocumentInv
<1>8. CASE \E w \in Workers : WriteDocumentChunks(w)
  BY <1>8, WriteDocumentChunksInv
<1>9. CASE \E w \in Workers : ChildAnswers(w)
  BY <1>9, ChildAnswersInv
<1>10. CASE \E w \in Workers : ExecutionTimeout(w)
  BY <1>10, ExecutionTimeoutInv
<1>11. CASE \E w \in Workers : FinishDocument(w)
  BY <1>11, FinishDocumentInv
<1>12. CASE \E w \in Workers : KillWorker(w)
  BY <1>12, KillWorkerInv
<1>13. CASE \E w \in Workers : RestartWorker(w)
  BY <1>13, RestartWorkerInv
<1>14. CASE \E w \in Workers : SweepCandidates(w)
  BY <1>14, SweepCandidatesInv
<1>15. CASE \E w \in Workers : SweepUpdate(w)
  BY <1>15, SweepUpdateInv
<1>16. CASE \E w \in Workers : SweepFails(w)
  BY <1>16, SweepFailsInv
<1>17. CASE Tick
  BY <1>17, TickInv
<1>18. CASE UNCHANGED vars
  BY <1>18 DEF vars, Inv, TypeOK, StartOK, TextOK, ChildOK, ClaimOK, RowOK, FoundOK, CountOK,
     Holders
<1>19. QED
  BY <1>1, <1>2, <1>3, <1>4, <1>5, <1>6, <1>7, <1>8, <1>9, <1>10, <1>11, <1>12, <1>13, <1>14,
     <1>15, <1>16, <1>17, <1>18 DEF Next, WorkerStep

\* The invariant holds of every reachable state.
LEMMA Invariance == Spec => []Inv
<1>1. QED
  BY InitInv, NextInv, PTL DEF Spec

-----------------------------------------------------------------------------
\* Rows, tasks, workers and claims keep their types.
THEOREM TypeCorrect == Spec => []TypeOK
<1>1. Inv => TypeOK
  BY DEF Inv
<1>2. QED
  BY <1>1, Invariance, PTL

\* Recovery is not a re-embed: at most one write of the chunks for each pushed
\* task, none without text, and none missing of a document that is ready.
THEOREM EmbedSafety == Spec => []OneEmbedPerTask
<1>1. Inv => OneEmbedPerTask
  <2> SUFFICES ASSUME Inv PROVE OneEmbedPerTask
    OBVIOUS
  <2>1. \A d \in Docs : chunks[d] \in Nat /\ queue[d] \in Nat /\ pushed[d] \in Nat
    BY DocumentEmbedAssumption DEF Inv, TypeOK
  <2>2. QED
    BY <2>1, HoldersFinite DEF Inv, CountOK, TextOK, ChildOK, OneEmbedPerTask
<1>2. QED
  BY <1>1, Invariance, PTL

\* Chunks are only written within the execution bound, by the child of a worker
\* that still waits for it.
THEOREM WriterSafety == Spec => NoLateWriter
<1>1. ASSUME Inv, [Next]_vars
      PROVE [\A d \in Docs : chunks'[d] # chunks[d] =>
                \E w \in Workers : /\ wk[w].pc = "embed" /\ wk[w].doc = d
                                   /\ age[wk[w].claim] <= Bound]_vars
  <2> SUFFICES ASSUME NEW d \in Docs, chunks'[d] # chunks[d]
               PROVE \E w \in Workers : /\ wk[w].pc = "embed" /\ wk[w].doc = d
                                        /\ age[wk[w].claim] <= Bound
    OBVIOUS
  <2>1. PICK w \in Workers : WriteDocumentChunks(w)
    <3>1. CASE \E w \in Workers : WriteDocumentChunks(w)
      BY <3>1
    <3>2. CASE ~ \E w \in Workers : WriteDocumentChunks(w)
      <4>1. UNCHANGED chunks
        BY <1>1, <3>2 DEF Next, WorkerStep, vars, UploadDocument, EnqueueDocumentEmbed,
             MarkEnqueueFailed, DequeueDocumentEmbed, _load_document, RefuseWithoutText,
             ClaimDocument, ChildAnswers, ExecutionTimeout, FinishDocument, KillWorker,
             RestartWorker, SweepCandidates, SweepUpdate, SweepFails, Tick
      <4>2. QED
        BY <4>1
    <3>3. QED
      BY <3>1, <3>2
  <2>2. wk[w].doc = d /\ wk[w].child = "working"
    BY <1>1, <2>1 DEF WriteDocumentChunks, Inv, TypeOK
  <2>3. wk[w].pc = "embed"
    BY <1>1, <2>2 DEF Inv, ChildOK
  <2>4. QED
    BY <1>1, <2>2, <2>3 DEF Inv, ClaimOK, Live
<1>2. QED
  BY <1>1, Invariance, PTL DEF Spec, NoLateWriter

\* With a stale age of at least the worker's whole budget, the sweeper never
\* fails a document whose claim belongs to a live worker.
THEOREM LiveSafety ==
    ASSUME Bound + Margin <= Stale
    PROVE Spec => []LiveNotStolen
<1>1. Init => LiveNotStolen
  BY DEF Init, IdleWorker, LiveNotStolen
<1>2. ASSUME Inv, LiveNotStolen, [Next]_vars PROVE LiveNotStolen'
  <2> USE DocumentEmbedAssumption
  <2>0. /\ wk \in [Workers -> WorkerRecord] /\ row \in [Docs -> RowRecord]
        /\ \A v \in Workers : wk[v].doc \in Docs /\ wk[v].claim \in 0..MaxClaims
        /\ \A e \in Docs : row[e].claim \in Nat
        /\ lastClaim \in Nat /\ lastClaim <= MaxClaims
    BY <1>2, TypedState DEF Inv
  <2>a. ASSUME NEW v \in Workers, wk[v].pc \in Live
        PROVE /\ wk[v].claim \in 1..lastClaim /\ wk[v].claim # 0
              /\ api[wk[v].doc] \notin {"new", "enqueue"}
    BY <1>2, <2>0, <2>a DEF Inv, ClaimOK, StartOK
  <2>1. CASE \E d \in Docs : UploadDocument(d)
    <3>1. PICK d \in Docs : UploadDocument(d)
      BY <2>1
    <3>2. wk' = wk /\ api[d] = "new" /\ \A e \in Docs : e # d => row'[e] = row[e]
      BY <2>0, <3>1 DEF UploadDocument
    <3>3. QED
      BY <1>2, <2>0, <2>a, <3>2 DEF LiveNotStolen, Live
  <2>2. CASE \E d \in Docs : MarkEnqueueFailed(d)
    <3>1. PICK d \in Docs : MarkEnqueueFailed(d)
      BY <2>2
    <3>2. _update_status(d, "failed", 0) /\ wk' = wk
      BY <3>1 DEF MarkEnqueueFailed, _update_status
    <3>3. row'[d].claim = 0 /\ \A e \in Docs : e # d => row'[e] = row[e]
      BY <2>0, <3>2, StatusUpdate DEF Statuses
    <3>4. QED
      BY <1>2, <2>0, <2>a, <3>2, <3>3 DEF LiveNotStolen, Live
  <2>3. CASE \E w \in Workers : RefuseWithoutText(w)
    <3>1. PICK w \in Workers : RefuseWithoutText(w)
      BY <2>3
    <3>2. PICK d \in Docs : d = wk[w].doc
      BY <2>0
    <3>3. _update_status(d, "failed", 0)
      BY <3>1, <3>2 DEF RefuseWithoutText
    <3>4. row'[d].claim = 0 /\ \A e \in Docs : e # d => row'[e] = row[e]
      BY <2>0, <3>3, StatusUpdate DEF Statuses
    <3>5. wk'[w].pc = "idle" /\ \A v \in Workers : v # w => wk'[v] = wk[v]
      BY <2>0, <3>1 DEF RefuseWithoutText, Goto, WorkerRecord
    <3>6. QED
      BY <1>2, <2>0, <2>a, <3>4, <3>5 DEF LiveNotStolen, Live
  <2>4. CASE \E w \in Workers : ClaimDocument(w)
    <3>1. PICK w \in Workers : ClaimDocument(w)
      BY <2>4
    <3>2. PICK d \in Docs : d = wk[w].doc
      BY <2>0
    <3>3. lastClaim + 1 \in 0..MaxClaims /\ _update_status(d, "processing", lastClaim + 1)
      BY <2>0, <3>1, <3>2 DEF ClaimDocument
    <3>4. /\ row'[d].claim = lastClaim + 1 /\ row'[d].status = "processing"
          /\ \A e \in Docs : e # d => row'[e] = row[e]
      BY <2>0, <3>3, StatusUpdate DEF Statuses
    <3>5. wk'[w].doc = d /\ \A v \in Workers : v # w => wk'[v] = wk[v]
      BY <2>0, <3>1, <3>2 DEF ClaimDocument, WorkerRecord
    <3>6. QED
      BY <1>2, <2>0, <2>a, <3>4, <3>5 DEF LiveNotStolen, Live
  <2>5. CASE \E w \in Workers : FinishDocument(w)
    <3>1. PICK w \in Workers : FinishDocument(w)
      BY <2>5
    <3>2. PICK d \in Docs, c \in 0..MaxClaims, s \in Statuses :
              d = wk[w].doc /\ c = wk[w].claim /\ s = wk[w].out
      BY <2>0 DEF WorkerRecord, Statuses
    <3>3. _update_status(d, s, c) /\ wk[w].pc = "finish"
      BY <3>1, <3>2 DEF FinishDocument
    <3>4. row'[d].claim = c /\ \A e \in Docs : e # d => row'[e] = row[e]
      BY <2>0, <3>3, StatusUpdate
    <3>5. wk'[w].pc = "idle" /\ \A v \in Workers : v # w => wk'[v] = wk[v]
      BY <2>0, <3>1 DEF FinishDocument, Goto, WorkerRecord
    <3>6. \A v \in Workers : v # w /\ wk[v].pc \in Live => wk[v].claim # c
      BY <1>2, <3>2, <3>3 DEF Inv, ClaimOK, Live
    <3>7. QED
      BY <1>2, <2>0, <3>4, <3>5, <3>6 DEF LiveNotStolen, Live
  <2>6. CASE \E w \in Workers : SweepUpdate(w)
    <3>1. PICK w \in Workers : SweepUpdate(w)
      BY <2>6
    <3>2. /\ wk'[w].pc = "idle" /\ \A v \in Workers : v # w => wk'[v] = wk[v]
      BY <2>0, <3>1 DEF SweepUpdate, WorkerRecord
    <3>3. \A d \in Docs : row'[d] = row[d] \/ ClaimStillHeld(w, d)
      BY <2>0, <3>1 DEF SweepUpdate
    <3>4. \A d \in Docs : row'[d].claim = row[d].claim
      BY <2>0, <3>1 DEF SweepUpdate, RowRecord
    <3>5. \A d \in Docs : ClaimStillHeld(w, d) => age[row[d].claim] > Stale
      BY <1>2 DEF ClaimStillHeld, Inv, FoundOK
    <3>6. \A v \in Workers : wk[v].pc \in Live => ~ (age[wk[v].claim] > Stale)
      <4> SUFFICES ASSUME NEW v \in Workers, wk[v].pc \in Live
                   PROVE ~ (age[wk[v].claim] > Stale)
        OBVIOUS
      <4>1. wk[v].claim \in Claims
        BY <2>0, <2>a DEF Claims
      <4>2. age[wk[v].claim] \in Nat /\ age[wk[v].claim] <= Bound + Margin
        BY <1>2, <4>1 DEF Inv, TypeOK, ClaimOK, Live
      <4>3. QED
        BY <4>2
    <3>7. QED
      BY <1>2, <2>0, <3>2, <3>3, <3>4, <3>5, <3>6 DEF LiveNotStolen, Live
  <2>7. CASE \E w \in Workers : ChildAnswers(w) \/ ExecutionTimeout(w)
    <3>1. PICK w \in Workers : ChildAnswers(w) \/ ExecutionTimeout(w)
      BY <2>7
    <3>2. wk[w].pc = "embed" /\ row' = row
      BY <3>1 DEF ChildAnswers, ExecutionTimeout
    <3>3. /\ wk'[w].doc = wk[w].doc /\ wk'[w].claim = wk[w].claim
          /\ \A v \in Workers : v # w => wk'[v] = wk[v]
      <4>1. PICK o \in {"ready", "failed"} :
                wk' = [wk EXCEPT ![w] = [@ EXCEPT !.pc = "finish", !.out = o, !.child = "none"]]
        BY <3>1 DEF ChildAnswers, ExecutionTimeout
      <4>2. QED
        BY <2>0, <4>1 DEF WorkerRecord
    <3>4. QED
      BY <1>2, <2>0, <3>2, <3>3 DEF LiveNotStolen
  <2>8. CASE \E w \in Workers : WriteDocumentChunks(w)
    <3>1. PICK w \in Workers : WriteDocumentChunks(w)
      BY <2>8
    <3>2. /\ wk'[w].doc = wk[w].doc /\ wk'[w].claim = wk[w].claim /\ wk'[w].pc = wk[w].pc
          /\ row' = row /\ \A v \in Workers : v # w => wk'[v] = wk[v]
      BY <2>0, <3>1 DEF WriteDocumentChunks, WorkerRecord, upVars
    <3>3. QED
      BY <1>2, <2>0, <3>2 DEF LiveNotStolen
  <2>9. CASE \E w \in Workers : \/ \E d \in Docs : DequeueDocumentEmbed(w, d)
                                \/ _load_document(w) \/ KillWorker(w) \/ RestartWorker(w)
                                \/ SweepCandidates(w) \/ SweepFails(w)
    <3>1. PICK w \in Workers : \/ \E d \in Docs : DequeueDocumentEmbed(w, d)
                               \/ _load_document(w) \/ KillWorker(w) \/ RestartWorker(w)
                               \/ SweepCandidates(w) \/ SweepFails(w)
      BY <2>9
    <3>2. row' = row
      BY <3>1 DEF DequeueDocumentEmbed, _load_document, KillWorker, RestartWorker,
                  SweepCandidates, SweepFails
    <3>3. wk'[w].pc \notin Live /\ \A v \in Workers : v # w => wk'[v] = wk[v]
      <4>1. CASE \E d \in Docs : DequeueDocumentEmbed(w, d)
        BY <2>0, <4>1 DEF DequeueDocumentEmbed, IdleWorker, Live
      <4>2. CASE _load_document(w) \/ RestartWorker(w) \/ SweepFails(w)
        BY <2>0, <4>2 DEF _load_document, RestartWorker, SweepFails, Goto, Live, WorkerRecord
      <4>3. CASE KillWorker(w)
        BY <2>0, <4>3 DEF KillWorker, IdleWorker, Live
      <4>4. CASE SweepCandidates(w)
        <5>1. PICK f : wk' = [wk EXCEPT ![w].pc = "sweep", ![w].found = f]
          BY <4>4 DEF SweepCandidates
        <5>2. QED
          BY <2>0, <5>1 DEF Live, WorkerRecord
      <4>5. QED
        BY <3>1, <4>1, <4>2, <4>3, <4>4
    <3>4. QED
      BY <1>2, <2>0, <3>2, <3>3 DEF LiveNotStolen, Live
  <2>10. CASE (\E d \in Docs : EnqueueDocumentEmbed(d)) \/ Tick \/ UNCHANGED vars
    BY <1>2, <2>10 DEF EnqueueDocumentEmbed, Tick, vars, LiveNotStolen
  <2>11. QED
    BY <1>2, <2>1, <2>2, <2>3, <2>4, <2>5, <2>6, <2>7, <2>8, <2>9, <2>10 DEF Next, WorkerStep
<1>3. QED
  BY <1>1, <1>2, Invariance, PTL DEF Spec
=============================================================================
