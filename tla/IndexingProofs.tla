-------------------------- MODULE IndexingProofs ---------------------------
(***************************************************************************)
(* Proofs about Indexing, for any documents, chunks, threads, users,       *)
(* failures and number of restarts: its type invariant, one attempt per    *)
(* document, nothing left behind by a run that failed, everything stored   *)
(* by one that returned, no row left behind a removed document, what READY *)
(* and FAILED mean where clients and failures leave a run alone, and that  *)
(* the catalog keeps its atomic lifecycle where clients only delete.       *)
(***************************************************************************)
EXTENDS Indexing, FiniteSetTheorems, TLAPS

Empty(d) ==
  ChunksOf(d) \cap (chunkRows \cup embeddingRows \cup vectorIndex \cup lexicalIndex) = {}

\* The run has not claimed its document yet.
BeforeClaim == {"idle", "check", "claim_read", "claim"}

\* A request in flight carries an operation of the clients; none removes rows.
RequestsOK == \A t \in Threads : req[t].pc # "idle" => req[t].op \in AdminOps

\* A document that was not claimed was not attempted, and nobody can take the
\* status of a claimed document back to UPLOADED.
AttemptsOK ==
  /\ \A d \in Docs : catalog[d].status \in {"unregistered", "UPLOADED"} => attempts[d] = 0
  /\ run.pc \in {"claim", "start"} => attempts[run.doc] = 0
  /\ run.pc \notin BeforeClaim \cup {"start"} => attempts[run.doc] = 1
  /\ run.pc # "idle" => catalog[run.doc].status # "unregistered"
  /\ run.pc \notin BeforeClaim => catalog[run.doc].status # "UPLOADED"

\* What a run holds while it works: its document is "running", and the ids it
\* stores are all of its document's or none.
RunOK ==
  /\ run.pc \notin BeforeClaim => outcome[run.doc] = "running"
  /\ run.ids \in {{}, ChunksOf(run.doc)}
  /\ run.pc \in {"undo_embeddings", "undo_chunks"} => run.todo \subseteq run.ids

\* Only a run that knows its ids has stored anything.
StoresOK ==
  /\ ~durable => chunkRows = {} /\ embeddingRows = {}
  /\ \A d \in Docs : attempts[d] = 0 => Empty(d)
  /\ run.pc \notin BeforeClaim /\ run.ids = {} => Empty(run.doc)

\* How far a rollback has come.
UndoOK ==
  "undo" \notin Failures =>
    /\ run.pc \in {"fail_read", "fail_state", "failed_read", "failed"} => Empty(run.doc)
    /\ run.pc \in {"undo_embeddings", "undo_chunks"} =>
         ChunksOf(run.doc) \cap (vectorIndex \cup lexicalIndex) = {}
    /\ run.pc = "undo_embeddings" => ChunksOf(run.doc) \cap embeddingRows \subseteq run.todo
    /\ run.pc = "undo_chunks" => /\ ChunksOf(run.doc) \cap embeddingRows = {}
                                 /\ ChunksOf(run.doc) \cap chunkRows \subseteq run.todo

IndexingInv ==
  /\ IndexingTypeOK
  /\ RequestsOK
  /\ AttemptsOK
  /\ RunOK
  /\ StoresOK
  /\ UndoOK
  /\ AtMostOneAttempt
  /\ FailedRunLeavesNothing
  /\ RemovedLeavesNoRows

-----------------------------------------------------------------------------
(* Types.                                                                  *)

RunRecord == [pc : RunPcs, doc : Docs, by : Owners, seen : Row,
              ids : SUBSET Chunks, todo : SUBSET Chunks]
DeleteRecord == [pc : DelPcs, doc : Docs, by : Owners,
                 ids : SUBSET Chunks, todo : SUBSET Chunks]

\* What a call, a run or a thread starts from has the right type.
LEMMA InitialTypes ==
  /\ BlankRow \in Row
  /\ Idle \in Request
  /\ NoRun \in RunRecord
  /\ NoDelete \in DeleteRecord
<1>1. (CHOOSE d \in Docs : TRUE) \in Docs
  BY CatalogAssumption
<1>2. BlankRow \in Row
  BY DEF BlankRow, Row, Owners
<1>3. Idle \in Request
  BY <1>1, <1>2 DEF Idle, Request, Owners
<1>4. NoRun \in RunRecord
  BY <1>1, <1>2 DEF NoRun, RunRecord, RunPcs, Owners
<1>5. NoDelete \in DeleteRecord
  BY <1>1 DEF NoDelete, DeleteRecord, DelPcs, Owners
<1>6. QED
  BY <1>2, <1>3, <1>4, <1>5

\* Rewriting a row that is there, or removing it, keeps the table's type.
LEMMA RowTypes ==
  ASSUME catalog \in [Docs -> Row], NEW d \in Docs
  PROVE  /\ \A row \in Row : UpdateRow(d, row) => catalog' \in [Docs -> Row]
         /\ RemoveRow(d) => catalog' \in [Docs -> Row]
BY DEF UpdateRow, RemoveRow, Row

\* The five statuses spelled out, and the ones a client may ask for.
LEMMA StatusTypes ==
  /\ {"UPLOADED", "INGESTING", "READY", "FAILED", "DELETED"} = Statuses
  /\ AdminOps \subseteq {"INGESTING", "READY", "FAILED", "DELETED"}
BY CatalogAssumption, IndexingAssumption DEF Statuses, Lifecycle!Statuses

\* Every step of a run leaves a run record.
LEMMA RunTypes ==
  ASSUME IndexingTypeOK, RunStep
  PROVE  run' \in RunRecord
<1> USE DEF RunRecord, RunPcs
<1>1. run \in RunRecord /\ run.doc \in Docs /\ catalog[run.doc] \in Row
  BY DEF IndexingTypeOK, CatalogTypeOK
<1>2. ChunksOf(run.doc) \subseteq Chunks
  BY <1>1 DEF ChunksOf, Chunks
<1>3. \A pc \in RunPcs : Goto(pc) => run' \in RunRecord
  BY <1>1 DEF Goto
<1>4. Handle => run' \in RunRecord
  BY <1>1 DEF Handle
<1>5. \A result : EndRun(result) => run' \in RunRecord
  BY InitialTypes DEF EndRun
<1>6. CASE ValidateBeforeIndexing
  BY <1>3, <1>6, InitialTypes DEF ValidateBeforeIndexing
<1>7. CASE ReadForIngesting
  BY <1>1, <1>7, InitialTypes DEF ReadForIngesting
<1>8. CASE MarkIngesting
  BY <1>3, <1>8, InitialTypes DEF MarkIngesting
<1>9. CASE StartIndexingState
  BY <1>3, <1>5, <1>9 DEF StartIndexingState
<1>10. CASE Ingest
  BY <1>1, <1>2, <1>4, <1>10 DEF Ingest
<1>11. CASE PersistChunks
  BY <1>3, <1>4, <1>11 DEF PersistChunks
<1>12. CASE EmbedChunks
  BY <1>3, <1>4, <1>12 DEF EmbedChunks
<1>13. CASE PersistEmbeddings
  BY <1>3, <1>4, <1>13 DEF PersistEmbeddings
<1>14. CASE VectorAdd \/ LexicalAdd
  BY <1>3, <1>4, <1>14 DEF VectorAdd, LexicalAdd
<1>15. CASE ReadForReady
  BY <1>1, <1>4, <1>15 DEF ReadForReady
<1>16. CASE MarkReady
  BY <1>3, <1>4, <1>16 DEF MarkReady
<1>17. CASE ReadForComplete \/ CompleteIndexingState
  BY <1>3, <1>4, <1>5, <1>17 DEF ReadForComplete, CompleteIndexingState
<1>18. CASE RollbackIndexes
  BY <1>1, <1>18 DEF RollbackIndexes
<1>19. ASSUME NEW c \in Chunks, RollbackEmbedding(c) \/ RollbackChunk(c)
       PROVE  run' \in RunRecord
  BY <1>1, <1>19 DEF RollbackEmbedding, RollbackChunk, NextId
<1>20. CASE ReadForFailState \/ FailIndexingState
  BY <1>3, <1>5, <1>20 DEF ReadForFailState, FailIndexingState
<1>21. CASE ReadForFailed
  BY <1>1, <1>5, <1>21 DEF ReadForFailed
<1>22. CASE MarkFailed
  BY <1>5, <1>22 DEF MarkFailed
<1>23. QED
  BY <1>6, <1>7, <1>8, <1>9, <1>10, <1>11, <1>12, <1>13, <1>14, <1>15, <1>16, <1>17,
     <1>18, <1>19, <1>20, <1>21, <1>22 DEF RunStep, Rollback

\* The tables and indexes a run writes.
StoreTypes ==
  /\ stateRow \in [Docs -> {"none", "STARTED", "SUCCEEDED", "FAILED"}]
  /\ chunkRows \subseteq Chunks
  /\ chunkOwner \in [Docs -> Owners]
  /\ embeddingRows \subseteq Chunks
  /\ vectorIndex \subseteq Chunks
  /\ lexicalIndex \subseteq Chunks

HistoryTypes ==
  /\ attempts \in [Docs -> Nat]
  /\ outcome \in [Docs -> {"none", "running", "returned", "raised", "escaped", "crashed"}]
  /\ deleting \subseteq Docs
  /\ restarts \in Nat

\* The type invariant in the parts the steps below work with.
LEMMA TypeParts ==
  IndexingTypeOK <=> /\ catalog \in [Docs -> Row]
                     /\ req \in [Threads -> Request]
                     /\ durable \in BOOLEAN
                     /\ run \in RunRecord
                     /\ del \in [Deleters -> DeleteRecord]
                     /\ StoreTypes
                     /\ HistoryTypes
BY DEF IndexingTypeOK, CatalogTypeOK, RunRecord, DeleteRecord, StoreTypes, HistoryTypes

\* A run leaves tables, indexes and history in their types.
LEMMA RunStoreTypes ==
  ASSUME IndexingTypeOK, RunStep
  PROVE  StoreTypes' /\ HistoryTypes'
<1>1. run \in RunRecord /\ run.doc \in Docs /\ run.ids \subseteq Chunks /\ run.by \in Owners
  BY TypeParts DEF RunRecord
<1>2. StoreTypes /\ HistoryTypes
  BY TypeParts
<1>3. \A result \in {"returned", "raised", "escaped"} :
        EndRun(result) /\ UNCHANGED <<attempts, deleting, restarts>> => HistoryTypes'
  BY <1>1, <1>2 DEF EndRun, HistoryTypes
<1>4. UNCHANGED stores => StoreTypes'
  BY <1>2 DEF stores, StoreTypes
<1>5. UNCHANGED history => HistoryTypes'
  BY <1>2 DEF history, HistoryTypes
<1>6. CASE ValidateBeforeIndexing \/ ReadForIngesting \/ Ingest \/ EmbedChunks
             \/ ReadForReady \/ MarkReady
  BY <1>4, <1>5, <1>6
     DEF ValidateBeforeIndexing, ReadForIngesting, Ingest, EmbedChunks, ReadForReady, MarkReady
<1>7. CASE MarkIngesting
  BY <1>1, <1>2, <1>4, <1>7 DEF MarkIngesting, HistoryTypes
<1>8. CASE StartIndexingState
  BY <1>1, <1>2, <1>8 DEF StartIndexingState, StoreTypes, HistoryTypes, EndRun
<1>9. CASE PersistChunks \/ PersistEmbeddings \/ VectorAdd \/ LexicalAdd
  <2>1. StoreTypes'
    BY <1>1, <1>2, <1>9 DEF PersistChunks, PersistEmbeddings, VectorAdd, LexicalAdd, StoreTypes
  <2>2. QED
    BY <1>5, <1>9, <2>1 DEF PersistChunks, PersistEmbeddings, VectorAdd, LexicalAdd
<1>10. CASE ReadForComplete \/ ReadForFailState \/ ReadForFailed \/ MarkFailed
  <2>1. StoreTypes'
    BY <1>4, <1>10 DEF ReadForComplete, ReadForFailState, ReadForFailed, MarkFailed
  <2>2. HistoryTypes'
    BY <1>2, <1>3, <1>10
       DEF ReadForComplete, ReadForFailState, ReadForFailed, MarkFailed, HistoryTypes
  <2>3. QED
    BY <2>1, <2>2
<1>11. CASE CompleteIndexingState \/ FailIndexingState
  <2>1. StoreTypes'
    BY <1>1, <1>2, <1>11 DEF CompleteIndexingState, FailIndexingState, StoreTypes
  <2>2. HistoryTypes'
    BY <1>2, <1>3, <1>5, <1>11
       DEF CompleteIndexingState, FailIndexingState, HistoryTypes
  <2>3. QED
    BY <2>1, <2>2
<1>12. CASE RollbackIndexes
  BY <1>2, <1>5, <1>12 DEF RollbackIndexes, StoreTypes
<1>13. ASSUME NEW c \in Chunks, RollbackEmbedding(c) \/ RollbackChunk(c)
       PROVE  StoreTypes' /\ HistoryTypes'
  BY <1>2, <1>5, <1>13 DEF RollbackEmbedding, RollbackChunk, StoreTypes
<1>14. QED
  BY <1>6, <1>7, <1>8, <1>9, <1>10, <1>11, <1>12, <1>13 DEF RunStep, Rollback

\* The only rows a run writes to the catalog are its document's; what it
\* leaves alone.
LEMMA RunFrame ==
  ASSUME IndexingTypeOK, RunStep
  PROVE  /\ catalog' \in [Docs -> Row]
         /\ UNCHANGED <<req, durable, del, restarts, deleting>>
         /\ \A d \in Docs : catalog'[d] # catalog[d] =>
              /\ d = run.doc /\ Present(d) /\ run.pc \in {"claim", "ready", "failed"}
              /\ catalog'[d].status \in {"INGESTING", "READY", "FAILED"}
<1>1. catalog \in [Docs -> Row] /\ run.doc \in Docs /\ run.seen \in Row
  BY TypeParts DEF RunRecord
<1>2. Cardinality(Pieces) \in Nat
  BY FS_CardinalityType, IndexingAssumption
<1> DEFINE ing == [run.seen EXCEPT !.status = "INGESTING"]
           rdy == [run.seen EXCEPT !.status = "READY", !.chunks = Cardinality(Pieces)]
           fld == [run.seen EXCEPT !.status = "FAILED"]
<1>3. /\ ing \in Row /\ rdy \in Row /\ fld \in Row
      /\ ing.status = "INGESTING" /\ rdy.status = "READY" /\ fld.status = "FAILED"
  BY <1>1, <1>2, StatusTypes DEF Row
<1>4. ASSUME NEW row \in {ing, rdy, fld}, UpdateRow(run.doc, row)
      PROVE  /\ catalog' \in [Docs -> Row]
             /\ \A d \in Docs : catalog'[d] # catalog[d] =>
                  /\ d = run.doc /\ Present(d)
                  /\ catalog'[d].status \in {"INGESTING", "READY", "FAILED"}
  BY <1>1, <1>3, <1>4 DEF UpdateRow
<1>5. CASE MarkIngesting
  BY <1>4, <1>5 DEF MarkIngesting
<1>6. CASE MarkReady
  BY <1>1, <1>4, <1>6 DEF MarkReady, history
<1>7. CASE MarkFailed
  BY <1>1, <1>4, <1>7 DEF MarkFailed
<1>8. CASE ~(MarkIngesting \/ MarkReady \/ MarkFailed)
  <2>1. UNCHANGED <<catalogVars, durable, del, restarts, deleting>>
    BY <1>8 DEF RunStep, Rollback, history, catalogVars, ValidateBeforeIndexing,
      ReadForIngesting, StartIndexingState, Ingest, PersistChunks, EmbedChunks,
      PersistEmbeddings, VectorAdd, LexicalAdd, ReadForReady, ReadForComplete,
      CompleteIndexingState, RollbackIndexes, RollbackEmbedding, RollbackChunk,
      ReadForFailState, FailIndexingState, ReadForFailed
  <2>2. QED
    BY <1>1, <2>1 DEF catalogVars
<1>9. QED
  BY <1>5, <1>6, <1>7, <1>8

\* delete_document only ever takes away; the row it removes is the one row of
\* the catalog it changes, and in a database its dependent rows go with it.
LEMMA DeleteFrame ==
  ASSUME IndexingTypeOK, NEW x \in Deleters, DeleteStep(x)
  PROVE  /\ catalog' \in [Docs -> Row]
         /\ UNCHANGED <<req, durable, run, attempts, outcome, restarts, chunkOwner>>
         /\ chunkRows' \subseteq chunkRows /\ embeddingRows' \subseteq embeddingRows
         /\ vectorIndex' \subseteq vectorIndex /\ lexicalIndex' \subseteq lexicalIndex
         /\ \A d \in Docs : stateRow'[d] \in {stateRow[d], "none"}
         /\ \A d \in Docs : catalog'[d] # catalog[d] =>
              /\ Present(d)
              /\ catalog'[d].status = "removed"
              /\ durable => /\ ChunksOf(d) \cap (chunkRows' \cup embeddingRows') = {}
                            /\ stateRow'[d] = "none"
<1>1. /\ catalog \in [Docs -> Row] /\ del[x].doc \in Docs
      /\ StoreTypes
  BY TypeParts DEF DeleteRecord
<1>2. CASE RemoveFromCatalog(x)
  <2> DEFINE d0 == del[x].doc
  <2>1. /\ catalog' \in [Docs -> Row]
        /\ \A d \in Docs : catalog'[d] # catalog[d] =>
             d = d0 /\ Present(d) /\ catalog'[d].status = "removed"
    BY <1>1, <1>2 DEF RemoveFromCatalog, RemoveRow, Row
  <2>2. UNCHANGED <<req, durable, run, attempts, outcome, restarts, chunkOwner,
                    vectorIndex, lexicalIndex>>
    BY <1>2 DEF RemoveFromCatalog, history
  <2>3. durable => /\ chunkRows' = chunkRows \ ChunksOf(d0)
                   /\ embeddingRows' = embeddingRows \ ChunksOf(d0)
                   /\ stateRow' = [stateRow EXCEPT ![d0] = "none"]
    BY <1>2 DEF RemoveFromCatalog
  <2>4. ~durable => UNCHANGED <<chunkRows, embeddingRows, stateRow>>
    BY <1>2 DEF RemoveFromCatalog
  <2>5. QED
    BY <1>1, <2>1, <2>2, <2>3, <2>4 DEF StoreTypes
<1>3. CASE LookUpForDelete(x) \/ ListChunkIds(x) \/ RequireEntryForRemove(x) \/ DeleteFails(x)
  BY <1>1, <1>3 DEF LookUpForDelete, ListChunkIds, RequireEntryForRemove, DeleteFails,
                    catalogVars, stores, history
<1>4. CASE RemoveRuntimeIndexes(x) \/ RemoveRuntimeIndexesRaises(x)
  BY <1>1, <1>4 DEF RemoveRuntimeIndexes, RemoveRuntimeIndexesRaises, catalogVars, history
<1>5. CASE RemoveIndexingStates(x)
  BY <1>1, <1>5 DEF RemoveIndexingStates, catalogVars, history, StoreTypes
<1>6. ASSUME NEW c \in Chunks, RemoveEmbedding(x, c) \/ RemoveChunk(x, c)
      PROVE  /\ catalog' = catalog /\ stateRow' = stateRow
             /\ UNCHANGED <<req, durable, run, attempts, outcome, restarts, chunkOwner>>
             /\ chunkRows' \subseteq chunkRows /\ embeddingRows' \subseteq embeddingRows
             /\ vectorIndex' \subseteq vectorIndex /\ lexicalIndex' \subseteq lexicalIndex
  BY <1>6 DEF RemoveEmbedding, RemoveChunk, catalogVars, history
<1>7. QED
  BY <1>1, <1>2, <1>3, <1>4, <1>5, <1>6 DEF DeleteStep

\* Every step of delete_document leaves a call's record.
LEMMA DeleteTypes ==
  ASSUME IndexingTypeOK, NEW x \in Deleters, DeleteStep(x)
  PROVE  del' \in [Deleters -> DeleteRecord] /\ deleting' \subseteq Docs
<1> USE DEF DeleteRecord, DelPcs
<1>1. /\ del \in [Deleters -> DeleteRecord] /\ del[x].doc \in Docs /\ deleting \subseteq Docs
      /\ ChunksOf(del[x].doc) \subseteq Chunks
  BY TypeParts DEF HistoryTypes, ChunksOf, Chunks
<1>2. EndDelete(x) => del' \in [Deleters -> DeleteRecord]
  BY <1>1, InitialTypes DEF EndDelete
<1>3. \A pc \in DelPcs : DelGoto(x, pc) => del' \in [Deleters -> DeleteRecord]
  BY <1>1 DEF DelGoto
<1>4. CASE LookUpForDelete(x) \/ RequireEntryForRemove(x) \/ DeleteFails(x)
  BY <1>1, <1>2, <1>3, <1>4 DEF LookUpForDelete, RequireEntryForRemove, DeleteFails, history
<1>5. CASE ListChunkIds(x)
  <2> DEFINE ids == ChunksOf(del[x].doc) \cap (IF durable THEN chunkRows ELSE lexicalIndex)
             next == [del[x] EXCEPT !.pc = "runtime", !.ids = ids]
  <2>1. ids \in SUBSET Chunks
    BY <1>1
  <2>2. del' = [del EXCEPT ![x].pc = "runtime", ![x].ids = ids] /\ deleting' = deleting
    BY <1>5 DEF ListChunkIds, history
  <2> HIDE DEF ids
  <2>3. next \in DeleteRecord
    BY <1>1, <2>1
  <2>4. del' = [del EXCEPT ![x] = next]
    BY <1>1, <2>2
  <2> HIDE DEF next, DeleteRecord
  <2>5. QED
    BY <1>1, <2>2, <2>3, <2>4
<1>6. CASE RemoveRuntimeIndexes(x)
  <2> DEFINE ids == del[x].ids \cup (ChunksOf(del[x].doc) \cap (vectorIndex \cup lexicalIndex))
             pc == IF durable /\ ids # {} THEN "embeddings" ELSE "states"
  <2>1. ids \in SUBSET Chunks /\ pc \in DelPcs
    BY <1>1
  <2>2. del' = [del EXCEPT ![x].pc = pc, ![x].ids = ids, ![x].todo = ids]
    BY <1>6 DEF RemoveRuntimeIndexes
  <2>3. deleting' = deleting
    BY <1>6 DEF RemoveRuntimeIndexes, history
  <2> DEFINE next == [del[x] EXCEPT !.pc = pc, !.ids = ids, !.todo = ids]
  <2> HIDE DEF ids, pc
  <2>4. next \in DeleteRecord
    BY <1>1, <2>1
  <2>5. del' = [del EXCEPT ![x] = next]
    BY <1>1, <2>2
  <2> HIDE DEF next, DeleteRecord
  <2>6. QED
    BY <1>1, <2>3, <2>4, <2>5
<1>7. CASE RemoveRuntimeIndexesRaises(x) \/ RemoveFromCatalog(x)
  <2>1. EndDelete(x) /\ deleting' = deleting
    BY <1>7 DEF RemoveRuntimeIndexesRaises, RemoveFromCatalog, history
  <2>2. QED
    BY <1>1, <1>2, <2>1
<1>10. CASE RemoveIndexingStates(x)
  <2>1. DelGoto(x, "entry") /\ deleting' = deleting
    BY <1>10 DEF RemoveIndexingStates, history
  <2>2. QED
    BY <1>1, <1>3, <2>1
<1>8. ASSUME NEW c \in Chunks, RemoveEmbedding(x, c) \/ RemoveChunk(x, c)
      PROVE  del' \in [Deleters -> DeleteRecord] /\ deleting' \subseteq Docs
  <2>1. \A pc \in DelPcs : NextId(del[x], c, pc) \in DeleteRecord
    BY <1>1 DEF NextId
  <2>2. \E pc \in DelPcs : del' = [del EXCEPT ![x] = NextId(@, c, pc)]
    BY <1>8 DEF RemoveEmbedding, RemoveChunk
  <2>3. deleting' = deleting
    BY <1>8 DEF RemoveEmbedding, RemoveChunk, history
  <2> HIDE DEF DeleteRecord
  <2>4. QED
    BY <1>1, <2>1, <2>2, <2>3
<1> HIDE DEF DeleteRecord, DelPcs
<1>9. QED
  BY <1>4, <1>5, <1>6, <1>7, <1>8, <1>10 DEF DeleteStep

\* The admin requests change the catalog alone; they register a fresh
\* document or move a present one to a status other than UPLOADED.
LEMMA AdminFrame ==
  ASSUME IndexingTypeOK, RequestsOK, AdminStep
  PROVE  /\ catalog' \in [Docs -> Row]
         /\ req' \in [Threads -> Request]
         /\ RequestsOK'
         /\ UNCHANGED <<durable, run, del, stores, history>>
         /\ \A d \in Docs : catalog'[d] # catalog[d] =>
              \/ /\ catalog[d].status = "unregistered" /\ catalog'[d].status = "UPLOADED"
              \/ /\ Present(d)
                 /\ catalog'[d].status \in {"INGESTING", "READY", "FAILED", "DELETED"}
<1>1. /\ catalog \in [Docs -> Row] /\ req \in [Threads -> Request]
      /\ UNCHANGED <<durable, run, del, stores, history>>
  BY TypeParts DEF AdminStep
<1>2. ASSUME NEW d \in Docs, NEW p \in Principals, CreateDocument(d, p)
      PROVE  /\ catalog' \in [Docs -> Row] /\ req' = req
             /\ \A e \in Docs : catalog'[e] # catalog[e] =>
                  catalog[e].status = "unregistered" /\ catalog'[e].status = "UPLOADED"
  BY <1>1, <1>2, StatusTypes DEF CreateDocument, AddRow, Row, Owners
<1>3. ASSUME NEW t \in Threads, NEW op \in AdminOps, NEW d \in Docs, NEW p \in Principals,
             NEW n \in ChunkCounts \cup {0}, Dispatch(t, op, d, p, n)
      PROVE  catalog' = catalog /\ req' \in [Threads -> Request] /\ RequestsOK'
  <2> DEFINE new == [pc |-> IF p = NoUser THEN "read" ELSE "owner",
                     op |-> op, doc |-> d, by |-> p, count |-> n, seen |-> BlankRow]
  <2>1. new \in Request /\ new.op \in AdminOps
    BY CatalogAssumption, InitialTypes DEF Request, Owners
  <2>2. catalog' = catalog /\ req' = [req EXCEPT ![t] = new]
    BY <1>3 DEF Dispatch
  <2>3. QED
    BY <1>1, <2>1, <2>2 DEF RequestsOK
<1>4. ASSUME NEW t \in Threads, Finish(t)
      PROVE  req' \in [Threads -> Request] /\ RequestsOK'
  BY <1>1, <1>4, InitialTypes DEF Finish, RequestsOK, Idle
<1>5. ASSUME NEW t \in Threads, RequireOwner(t) \/ ReadEntry(t)
      PROVE  catalog' = catalog /\ req' \in [Threads -> Request] /\ RequestsOK'
  <2>1. req[t] \in Request /\ catalog[req[t].doc] \in Row /\ req[t].pc # "idle"
    BY <1>1, <1>5 DEF RequireOwner, ReadEntry, Request
  <2>2. CASE RequireOwner(t)
    BY <1>1, <1>4, <2>1, <2>2 DEF RequireOwner, Request, RequestsOK
  <2>3. CASE ReadEntry(t)
    <3>1. catalog' = catalog
      BY <2>3 DEF ReadEntry
    <3>2. \/ Finish(t)
          \/ req' = [req EXCEPT ![t].pc = "write", ![t].seen = catalog[req[t].doc]]
      BY <2>3 DEF ReadEntry
    <3>3. ASSUME req' = [req EXCEPT ![t].pc = "write", ![t].seen = catalog[req[t].doc]]
          PROVE  req' \in [Threads -> Request] /\ RequestsOK'
      BY <1>1, <2>1, <3>3 DEF Request, RequestsOK
    <3>4. QED
      BY <1>4, <3>1, <3>2, <3>3
  <2>4. QED
    BY <1>5, <2>2, <2>3
<1>6. ASSUME NEW t \in Threads, WriteEntry(t)
      PROVE  /\ catalog' \in [Docs -> Row]
             /\ \A d \in Docs : catalog'[d] # catalog[d] =>
                  /\ Present(d)
                  /\ catalog'[d].status \in {"INGESTING", "READY", "FAILED", "DELETED"}
  <2> DEFINE r == req[t]
  <2>1. r \in Request /\ r.doc \in Docs /\ r.seen \in Row /\ r.op \in AdminOps
    BY <1>1, <1>6 DEF WriteEntry, Request, RequestsOK
  <2>2. r.op \in {"INGESTING", "READY", "FAILED", "DELETED"}
    BY <2>1, StatusTypes
  <2>3. Replacement(r) \in Row /\ Replacement(r).status = r.op
    BY <2>1, <2>2, StatusTypes DEF Replacement, Row, Request
  <2>4. UpdateRow(r.doc, Replacement(r))
    BY <1>6, <2>2 DEF WriteEntry
  <2>5. QED
    BY <1>1, <2>1, <2>2, <2>3, <2>4 DEF UpdateRow
<1>7. \A t \in Threads : WriteEntry(t) => Finish(t)
  BY DEF WriteEntry
<1>8. QED
  BY <1>1, <1>2, <1>3, <1>4, <1>5, <1>6, <1>7 DEF AdminStep, Serve, RequestsOK

-----------------------------------------------------------------------------
(* The invariant, one kind of step at a time.                              *)

\* A new process on an empty database satisfies the invariant.
LEMMA InitEstablishes ==
  ASSUME IndexingInit
  PROVE  IndexingInv
<1> USE DEF IndexingInit, CatalogInit
<1>1. IndexingTypeOK
  <2>1. catalog \in [Docs -> Row] /\ req \in [Threads -> Request]
    BY InitialTypes
  <2>2. durable \in BOOLEAN /\ run \in RunRecord /\ del \in [Deleters -> DeleteRecord]
    BY InitialTypes, IndexingAssumption
  <2>3. StoreTypes /\ HistoryTypes
    BY DEF StoreTypes, HistoryTypes, Owners
  <2>4. QED
    BY <2>1, <2>2, <2>3, TypeParts
<1>2. RequestsOK
  BY DEF RequestsOK, Idle
<1>3. run.pc = "idle" /\ run.ids = {}
  BY DEF NoRun
<1>4. AttemptsOK
  BY <1>3 DEF AttemptsOK, BeforeClaim
<1>5. RunOK /\ UndoOK
  BY <1>3 DEF RunOK, UndoOK, BeforeClaim
<1>6. StoresOK
  BY <1>3 DEF StoresOK, BeforeClaim, Empty
<1>7. AtMostOneAttempt /\ FailedRunLeavesNothing
  BY DEF AtMostOneAttempt, FailedRunLeavesNothing
<1>8. RemovedLeavesNoRows
  BY DEF RemovedLeavesNoRows, BlankRow
<1>9. QED
  BY <1>1, <1>2, <1>4, <1>5, <1>6, <1>7, <1>8 DEF IndexingInv

\* The catalog requests: a document they touch was never attempted before it
\* was registered, and is never taken back to UPLOADED.
LEMMA AdminPreserves ==
  ASSUME IndexingInv, AdminStep
  PROVE  IndexingInv'
<1>1. IndexingTypeOK /\ RequestsOK
  BY DEF IndexingInv
<1> DEFINE Moved(d) ==
      \/ catalog[d].status = "unregistered" /\ catalog'[d].status = "UPLOADED"
      \/ /\ Present(d)
         /\ catalog'[d].status \in {"INGESTING", "READY", "FAILED", "DELETED"}
<1>2. /\ catalog' \in [Docs -> Row] /\ req' \in [Threads -> Request] /\ RequestsOK'
      /\ UNCHANGED <<durable, run, del, stores, history>>
      /\ \A d \in Docs : catalog'[d] # catalog[d] => Moved(d)
  BY <1>1, AdminFrame
<1>3. IndexingTypeOK'
  BY <1>1, <1>2, TypeParts DEF StoreTypes, HistoryTypes, IndexingTypeOK, CatalogTypeOK,
     stores, history
<1>4. run.doc \in Docs
  BY <1>1, TypeParts DEF RunRecord
<1>5. AttemptsOK'
  BY <1>2, <1>4 DEF AttemptsOK, IndexingInv, history
<1>6. RunOK' /\ StoresOK' /\ UndoOK' /\ AtMostOneAttempt' /\ FailedRunLeavesNothing'
  BY <1>2 DEF IndexingInv, RunOK, StoresOK, UndoOK, AtMostOneAttempt,
     FailedRunLeavesNothing, Empty, stores, history
<1>7. RemovedLeavesNoRows'
  BY <1>2 DEF IndexingInv, RemovedLeavesNoRows, stores
<1>8. QED
  BY <1>2, <1>3, <1>5, <1>6, <1>7 DEF IndexingInv

\* A request reaches index_pdf or delete_document: nothing but the call's
\* record changes.
LEMMA RequestPreserves ==
  ASSUME IndexingInv, NEW d \in Docs, NEW p \in Principals,
         IndexRequest(d, p) \/ \E x \in Deleters : DeleteRequest(x, d, p)
  PROVE  IndexingInv'
<1>1. IndexingTypeOK
  BY DEF IndexingInv
<1>2. UNCHANGED <<catalog, req, durable, stores, history>>
  BY DEF IndexRequest, DeleteRequest, catalogVars
<1>3. /\ run \in RunRecord /\ del \in [Deleters -> DeleteRecord] /\ p \in Owners
      /\ StoreTypes /\ HistoryTypes
  BY <1>1, TypeParts DEF Owners
<1>4. StoreTypes' /\ HistoryTypes'
  BY <1>2, <1>3 DEF StoreTypes, HistoryTypes, stores, history
<1>5. RequestsOK' /\ AtMostOneAttempt' /\ FailedRunLeavesNothing' /\ RemovedLeavesNoRows'
  BY <1>2 DEF IndexingInv, RequestsOK, AtMostOneAttempt, FailedRunLeavesNothing,
     RemovedLeavesNoRows, stores, history
<1>6. CASE IndexRequest(d, p)
  <2>1. /\ run'.pc = "check" /\ run'.doc = d /\ run'.ids = {} /\ del' = del
        /\ catalog[d].status # "unregistered"
    BY <1>6 DEF IndexRequest, NoRun
  <2>2. run' \in RunRecord
    BY <1>3, <1>6, InitialTypes DEF IndexRequest, RunRecord, RunPcs
  <2>3. IndexingTypeOK'
    BY <1>1, <1>2, <1>3, <1>4, <2>1, <2>2, TypeParts
       DEF IndexingTypeOK, CatalogTypeOK, StoreTypes, HistoryTypes, RunRecord, DeleteRecord
  <2>4. AttemptsOK'
    BY <1>2, <2>1 DEF IndexingInv, AttemptsOK, BeforeClaim, history
  <2>5. RunOK' /\ UndoOK'
    BY <2>1 DEF RunOK, UndoOK, BeforeClaim
  <2>6. StoresOK'
    BY <1>2, <2>1 DEF IndexingInv, StoresOK, BeforeClaim, Empty, stores, history
  <2>7. QED
    BY <1>5, <2>3, <2>4, <2>5, <2>6 DEF IndexingInv
<1>7. ASSUME NEW x \in Deleters, DeleteRequest(x, d, p)
      PROVE  IndexingInv'
  <2>1. run' = run
    BY <1>7 DEF DeleteRequest
  <2> DEFINE call == [NoDelete EXCEPT !.pc = "lookup", !.doc = d, !.by = p]
  <2>2. call \in DeleteRecord
    BY <1>3, InitialTypes DEF DeleteRecord, DelPcs
  <2>3. del' = [del EXCEPT ![x] = call]
    BY <1>7 DEF DeleteRequest
  <2> HIDE DEF call
  <2>4. del' \in [Deleters -> DeleteRecord]
    BY <1>3, <2>2, <2>3
  <2>5. IndexingTypeOK'
    BY <1>1, <1>2, <1>4, <2>1, <2>4, TypeParts
       DEF IndexingTypeOK, CatalogTypeOK, StoreTypes, HistoryTypes, RunRecord, DeleteRecord
  <2>6. AttemptsOK' /\ RunOK' /\ StoresOK' /\ UndoOK'
    BY <1>2, <2>1 DEF IndexingInv, AttemptsOK, RunOK, StoresOK, UndoOK, Empty, stores, history
  <2>7. QED
    BY <1>5, <2>5, <2>6 DEF IndexingInv
<1>8. QED
  BY <1>6, <1>7

\* delete_document takes away and never adds, so what had left nothing still
\* has; where it removes a catalog row the database takes the rest.
LEMMA DeletePreserves ==
  ASSUME IndexingInv, NEW x \in Deleters, DeleteStep(x)
  PROVE  IndexingInv'
<1>1. IndexingTypeOK
  BY DEF IndexingInv
<1>2. /\ catalog' \in [Docs -> Row]
      /\ UNCHANGED <<req, durable, run, attempts, outcome, restarts, chunkOwner>>
      /\ chunkRows' \subseteq chunkRows /\ embeddingRows' \subseteq embeddingRows
      /\ vectorIndex' \subseteq vectorIndex /\ lexicalIndex' \subseteq lexicalIndex
      /\ \A d \in Docs : stateRow'[d] \in {stateRow[d], "none"}
      /\ \A d \in Docs : catalog'[d] # catalog[d] =>
           /\ Present(d)
           /\ catalog'[d].status = "removed"
           /\ durable => /\ ChunksOf(d) \cap (chunkRows' \cup embeddingRows') = {}
                         /\ stateRow'[d] = "none"
  BY <1>1, DeleteFrame
<1>3. del' \in [Deleters -> DeleteRecord] /\ deleting' \subseteq Docs
  BY <1>1, DeleteTypes
<1>4. /\ run \in RunRecord /\ run.doc \in Docs /\ req \in [Threads -> Request]
      /\ durable \in BOOLEAN
      /\ StoreTypes /\ HistoryTypes
  BY <1>1, TypeParts DEF RunRecord
<1>5. stateRow' \in [Docs -> {"none", "STARTED", "SUCCEEDED", "FAILED"}]
  BY <1>4 DEF DeleteStep, LookUpForDelete, ListChunkIds, RemoveRuntimeIndexes,
     RemoveRuntimeIndexesRaises, RemoveEmbedding, RemoveChunk, RemoveIndexingStates,
     RequireEntryForRemove, RemoveFromCatalog, DeleteFails, stores, StoreTypes
<1>6. IndexingTypeOK'
  <2>1. StoreTypes' /\ HistoryTypes'
    BY <1>2, <1>3, <1>4, <1>5 DEF StoreTypes, HistoryTypes
  <2>2. QED
    BY <1>1, <1>2, <1>3, <1>4, <2>1, TypeParts
       DEF IndexingTypeOK, CatalogTypeOK, StoreTypes, HistoryTypes, RunRecord, DeleteRecord
<1>7. \A d \in Docs : Empty(d) => Empty(d)'
  BY <1>2 DEF Empty
<1>8. RequestsOK' /\ RunOK' /\ AtMostOneAttempt'
  BY <1>2 DEF IndexingInv, RequestsOK, RunOK, AtMostOneAttempt
<1>9. AttemptsOK'
  BY <1>2, <1>4 DEF IndexingInv, AttemptsOK
<1>10. StoresOK'
  BY <1>2, <1>4, <1>7 DEF IndexingInv, StoresOK
<1>11. UndoOK'
  <2>1. SUFFICES ASSUME "undo" \notin Failures  PROVE UndoOK'
    BY DEF UndoOK
  <2>2. UndoOK
    BY DEF IndexingInv
  <2>3. QED
    BY <1>2, <1>4, <1>7, <2>1, <2>2 DEF UndoOK
<1>12. FailedRunLeavesNothing'
  BY <1>2, <1>7 DEF IndexingInv, FailedRunLeavesNothing, Empty
<1>13. RemovedLeavesNoRows'
  <2>1. SUFFICES ASSUME durable, NEW d \in Docs, catalog'[d].status = "removed"
                 PROVE  /\ ChunksOf(d) \cap (chunkRows' \cup embeddingRows') = {}
                        /\ stateRow'[d] = "none"
    BY <1>2 DEF RemovedLeavesNoRows
  <2>2. CASE catalog'[d] = catalog[d]
    BY <1>2, <2>1, <2>2 DEF IndexingInv, RemovedLeavesNoRows
  <2>3. QED
    BY <1>2, <2>1, <2>2
<1>14. QED
  BY <1>6, <1>8, <1>9, <1>10, <1>11, <1>12, <1>13 DEF IndexingInv

\* A new process starts with no call in progress and empty indexes.
LEMMA RestartPreserves ==
  ASSUME IndexingInv, Restart
  PROVE  IndexingInv'
<1>1. IndexingTypeOK
  BY DEF IndexingInv
<1>2. /\ UNCHANGED <<catalog, durable, stateRow, chunkRows, chunkOwner, embeddingRows,
                     attempts, deleting>>
      /\ run' = NoRun
      /\ del' = [y \in Deleters |-> NoDelete]
      /\ req' = [t \in Threads |-> Idle]
      /\ vectorIndex' = {} /\ lexicalIndex' = {}
      /\ restarts' = restarts + 1
      /\ outcome' = [d \in Docs |-> IF outcome[d] = "running" THEN "crashed" ELSE outcome[d]]
  BY DEF Restart
<1>3. run'.pc = "idle" /\ run'.ids = {}
  BY <1>2 DEF NoRun
<1>4. StoreTypes /\ HistoryTypes
  BY <1>1, TypeParts
<1>5. StoreTypes' /\ HistoryTypes'
  BY <1>2, <1>4 DEF StoreTypes, HistoryTypes
<1>6. /\ run' \in RunRecord /\ del' \in [Deleters -> DeleteRecord]
      /\ req' \in [Threads -> Request]
  BY <1>2, InitialTypes
<1>7. IndexingTypeOK'
  BY <1>1, <1>2, <1>5, <1>6
     DEF IndexingTypeOK, CatalogTypeOK, StoreTypes, HistoryTypes, RunRecord, DeleteRecord
<1>8. RequestsOK' /\ AttemptsOK'
  BY <1>2, <1>3 DEF IndexingInv, RequestsOK, AttemptsOK, BeforeClaim, Idle
<1>9. RunOK' /\ UndoOK'
  BY <1>3 DEF RunOK, UndoOK, BeforeClaim
<1>10. StoresOK'
  BY <1>2, <1>3 DEF IndexingInv, StoresOK, BeforeClaim, Empty
<1>11. FailedRunLeavesNothing'
  BY <1>2 DEF IndexingInv, FailedRunLeavesNothing
<1>12. AtMostOneAttempt' /\ RemovedLeavesNoRows'
  BY <1>2 DEF IndexingInv, AtMostOneAttempt, RemovedLeavesNoRows
<1>13. QED
  BY <1>7, <1>8, <1>9, <1>10, <1>11, <1>12 DEF IndexingInv

-----------------------------------------------------------------------------
(* The steps of index_pdf.                                                 *)

\* The type invariant, for a step of index_pdf.
LEMMA RunKeepsTypes ==
  ASSUME IndexingTypeOK, RunStep
  PROVE  IndexingTypeOK'
<1>1. catalog' \in [Docs -> Row] /\ UNCHANGED <<req, durable, del>>
  BY RunFrame
<1>2. run' \in RunRecord /\ StoreTypes' /\ HistoryTypes'
  BY RunTypes, RunStoreTypes
<1>3. QED
  BY <1>1, <1>2, TypeParts
     DEF IndexingTypeOK, CatalogTypeOK, StoreTypes, HistoryTypes, RunRecord, DeleteRecord

Working == run.pc \notin BeforeClaim \cup {"start"}

WorkingStep ==
  \/ Ingest \/ PersistChunks \/ EmbedChunks \/ PersistEmbeddings \/ VectorAdd \/ LexicalAdd
  \/ ReadForReady \/ MarkReady \/ ReadForComplete \/ CompleteIndexingState
  \/ Rollback

\* Either the call goes on with its document, or it is over and its outcome is
\* recorded; only a rollback that took all chunks back ends in a failure.
GoesOn ==
  /\ run'.doc = run.doc /\ Working' /\ outcome' = outcome
  /\ run'.ids \in {run.ids, ChunksOf(run.doc)}

IsOver ==
  /\ run' = NoRun
  /\ \E result \in {"returned", "raised", "escaped"} :
       /\ outcome' = [outcome EXCEPT ![run.doc] = result]
       /\ result # "returned" => run.pc \in {"fail_read", "failed_read", "failed"}

\* What a working step does to the call's record and its outcome.
LEMMA WorkingControl ==
  ASSUME IndexingTypeOK, WorkingStep
  PROVE  Working /\ attempts' = attempts /\ (GoesOn \/ IsOver)
<1> USE DEF Working, BeforeClaim, Goto, Handle, GoesOn
<1>1. run \in RunRecord
  BY TypeParts
<1>2. ASSUME NEW result \in {"returned", "raised", "escaped"}, EndRun(result),
             result # "returned" => run.pc \in {"fail_read", "failed_read", "failed"}
      PROVE  IsOver
  BY <1>2 DEF EndRun, IsOver
<1> HIDE DEF RunRecord
<1>3. CASE Ingest
  BY <1>1, <1>3 DEF Ingest, history, RunRecord
<1>4. CASE PersistChunks \/ EmbedChunks \/ PersistEmbeddings
  BY <1>1, <1>4 DEF PersistChunks, EmbedChunks, PersistEmbeddings, history, RunRecord
<1>5. CASE VectorAdd \/ LexicalAdd
  BY <1>1, <1>5 DEF VectorAdd, LexicalAdd, history, RunRecord
<1>6. CASE ReadForReady \/ MarkReady
  BY <1>1, <1>6 DEF ReadForReady, MarkReady, history, RunRecord
<1>7. CASE ReadForComplete
  BY <1>1, <1>2, <1>7 DEF ReadForComplete, RunRecord
<1>8. CASE CompleteIndexingState
  BY <1>1, <1>2, <1>8 DEF CompleteIndexingState, RunRecord
<1>9. CASE RollbackIndexes
  BY <1>1, <1>9 DEF RollbackIndexes, history, RunRecord
<1>10. ASSUME NEW c \in Chunks, RollbackEmbedding(c) \/ RollbackChunk(c)
       PROVE  Working /\ attempts' = attempts /\ GoesOn
  BY <1>1, <1>10 DEF RollbackEmbedding, RollbackChunk, NextId, history, RunRecord
<1>11. CASE ReadForFailState
  BY <1>1, <1>2, <1>11 DEF ReadForFailState, RunRecord
<1>12. CASE FailIndexingState
  BY <1>1, <1>12 DEF FailIndexingState, history, RunRecord
<1>13. CASE ReadForFailed
  BY <1>1, <1>2, <1>13 DEF ReadForFailed, RunRecord
<1>14. CASE MarkFailed
  BY <1>1, <1>2, <1>14 DEF MarkFailed, RunRecord
<1>15. QED
  BY <1>3, <1>4, <1>5, <1>6, <1>7, <1>8, <1>9, <1>10, <1>11, <1>12, <1>13, <1>14
     DEF WorkingStep, Rollback

\* What a working run may add to the stores: its ids; to a table only with a
\* database behind it and while the row it refers to is there.
StoresGrow ==
  /\ chunkRows' \subseteq chunkRows \cup run.ids
  /\ embeddingRows' \subseteq embeddingRows \cup (run.ids \cap chunkRows)
  /\ vectorIndex' \subseteq vectorIndex \cup run.ids
  /\ lexicalIndex' \subseteq lexicalIndex \cup run.ids
  /\ ~durable => chunkRows' \subseteq chunkRows /\ embeddingRows' \subseteq embeddingRows
  /\ ~Present(run.doc) => chunkRows' \subseteq chunkRows
  /\ \A d \in Docs : stateRow[d] = "none" => stateRow'[d] = "none"

\* What a working step may put into, or take out of, tables and indexes.
LEMMA WorkingStores ==
  ASSUME IndexingTypeOK, WorkingStep
  PROVE  StoresGrow
<1>1. StoreTypes /\ run.doc \in Docs
  BY TypeParts DEF RunRecord
<1>2. CASE Ingest \/ EmbedChunks \/ ReadForReady \/ MarkReady \/ ReadForComplete
             \/ ReadForFailState \/ ReadForFailed \/ MarkFailed
  BY <1>2 DEF Ingest, EmbedChunks, ReadForReady, MarkReady, ReadForComplete,
     ReadForFailState, ReadForFailed, MarkFailed, stores, StoresGrow
<1>3. CASE PersistChunks
  BY <1>3 DEF PersistChunks, StoresGrow
<1>4. CASE PersistEmbeddings
  BY <1>4 DEF PersistEmbeddings, StoresGrow
<1>5. CASE VectorAdd \/ LexicalAdd
  BY <1>5 DEF VectorAdd, LexicalAdd, StoresGrow
<1>6. CASE CompleteIndexingState \/ FailIndexingState
  BY <1>1, <1>6 DEF CompleteIndexingState, FailIndexingState, StoresGrow, StoreTypes
<1>7. CASE RollbackIndexes
  BY <1>7 DEF RollbackIndexes, StoresGrow
<1>8. ASSUME NEW c \in Chunks, RollbackEmbedding(c) \/ RollbackChunk(c)
      PROVE  StoresGrow
  BY <1>8 DEF RollbackEmbedding, RollbackChunk, StoresGrow
<1>9. QED
  BY <1>2, <1>3, <1>4, <1>5, <1>6, <1>7, <1>8 DEF WorkingStep, Rollback

\* Working steps: everything but the progress of the rollback.
LEMMA WorkingPreserves ==
  ASSUME IndexingInv, WorkingStep
  PROVE  /\ RequestsOK' /\ AttemptsOK' /\ StoresOK' /\ AtMostOneAttempt'
         /\ FailedRunLeavesNothing' /\ RemovedLeavesNoRows'
<1>1. IndexingTypeOK /\ RunStep
  BY DEF IndexingInv, WorkingStep, RunStep
<1>2. run.doc \in Docs /\ durable \in BOOLEAN /\ HistoryTypes
  BY <1>1, TypeParts DEF RunRecord
<1>18. PICK mine \in Docs : mine = run.doc
  BY <1>2
<1>3. Working /\ attempts' = attempts /\ (GoesOn \/ IsOver)
  BY <1>1, WorkingControl
<1>4. StoresGrow
  BY <1>1, WorkingStores
<1>5. /\ UNCHANGED <<req, durable, del, restarts, deleting>>
      /\ \A d \in Docs : catalog'[d] # catalog[d] =>
           d = run.doc /\ catalog'[d].status \in {"INGESTING", "READY", "FAILED"}
  BY <1>1, RunFrame
<1>6. /\ AttemptsOK /\ RunOK /\ StoresOK /\ UndoOK /\ RequestsOK
      /\ AtMostOneAttempt /\ FailedRunLeavesNothing /\ RemovedLeavesNoRows
  BY DEF IndexingInv
<1>7. /\ attempts[run.doc] = 1 /\ outcome[run.doc] = "running"
      /\ run.ids \subseteq ChunksOf(run.doc)
      /\ catalog[run.doc].status \notin {"unregistered", "UPLOADED"}
  BY <1>3, <1>6 DEF AttemptsOK, RunOK, Working, BeforeClaim
<1>8. \A d \in Docs \ {run.doc} : ChunksOf(d) \cap ChunksOf(run.doc) = {}
  BY DEF ChunksOf
<1>9. IsOver => run'.pc = "idle"
  BY DEF IsOver, NoRun
<1>10. RequestsOK' /\ AtMostOneAttempt'
  BY <1>3, <1>5, <1>6 DEF RequestsOK, AtMostOneAttempt
<1>11. AttemptsOK'
  <2>1. \A d \in Docs : catalog'[d].status \in {"unregistered", "UPLOADED"} => attempts'[d] = 0
    BY <1>3, <1>5, <1>6 DEF AttemptsOK
  <2>2. catalog'[mine].status \notin {"unregistered", "UPLOADED"}
    BY <1>5, <1>7, <1>18
  <2>3. \/ run'.pc = "idle"
        \/ run'.doc = mine /\ run'.pc \notin BeforeClaim \cup {"start"}
    BY <1>3, <1>9, <1>18 DEF GoesOn, Working
  <2>4. QED
    BY <1>3, <1>7, <1>18, <2>1, <2>2, <2>3 DEF AttemptsOK, BeforeClaim
<1>12. \A d \in Docs \ {mine} : Empty(d) => Empty(d)'
  BY <1>4, <1>7, <1>8, <1>18 DEF StoresGrow, Empty
<1>13. run.ids = {} /\ Empty(mine) => Empty(mine)'
  BY <1>4 DEF StoresGrow, Empty
<1>14. StoresOK'
  <2>1. ~durable' => chunkRows' = {} /\ embeddingRows' = {}
    BY <1>2, <1>4, <1>5, <1>6 DEF StoresGrow, StoresOK
  <2>2. \A d \in Docs : attempts'[d] = 0 => Empty(d)'
    BY <1>3, <1>6, <1>7, <1>12, <1>18 DEF StoresOK
  <2>3. ASSUME run'.pc \notin BeforeClaim, run'.ids = {}
        PROVE  run'.doc = mine /\ Empty(mine)'
    <3>1. GoesOn
      BY <1>3, <1>9, <2>3 DEF BeforeClaim
    <3>2. ChunksOf(mine) = {} => Empty(mine)'
      BY DEF Empty
    <3>3. run.ids = {} \/ ChunksOf(mine) = {}
      BY <1>18, <2>3, <3>1 DEF GoesOn
    <3>4. run.ids = {} => Empty(mine)'
      BY <1>3, <1>6, <1>13, <1>18 DEF StoresOK, Working
    <3>5. QED
      BY <1>18, <3>1, <3>2, <3>3, <3>4 DEF GoesOn
  <2>4. QED
    BY <2>1, <2>2, <2>3 DEF StoresOK, Empty
<1>15. FailedRunLeavesNothing'
  <2>1. SUFFICES ASSUME "undo" \notin Failures, NEW d \in Docs,
                        outcome'[d] \in {"raised", "escaped"}
                 PROVE  Empty(d)'
    BY DEF FailedRunLeavesNothing, Empty
  <2>2. CASE d # run.doc
    <3>1. outcome[d] \in {"raised", "escaped"}
      BY <1>2, <1>3, <2>1, <2>2 DEF GoesOn, IsOver, HistoryTypes
    <3>2. QED
      BY <1>6, <1>12, <1>18, <2>1, <2>2, <3>1 DEF FailedRunLeavesNothing, Empty
  <2>3. CASE d = run.doc
    <3>1. IsOver /\ run.pc \in {"fail_read", "failed_read", "failed"}
      BY <1>2, <1>3, <1>7, <2>1, <2>3 DEF GoesOn, IsOver, HistoryTypes
    <3>2. Empty(d)
      BY <1>6, <2>1, <2>3, <3>1 DEF UndoOK
    <3>3. UNCHANGED stores
      BY <3>1 DEF WorkingStep, Rollback, Ingest, PersistChunks, EmbedChunks,
         PersistEmbeddings, VectorAdd, LexicalAdd, ReadForReady, MarkReady,
         ReadForComplete, CompleteIndexingState, RollbackIndexes, RollbackEmbedding,
         RollbackChunk, ReadForFailState, FailIndexingState, ReadForFailed, MarkFailed
    <3>4. QED
      BY <3>2, <3>3 DEF Empty, stores
  <2>4. QED
    BY <2>2, <2>3
<1>16. RemovedLeavesNoRows'
  <2>1. SUFFICES ASSUME durable, NEW d \in Docs, catalog'[d].status = "removed"
                 PROVE  /\ ChunksOf(d) \cap (chunkRows' \cup embeddingRows') = {}
                        /\ stateRow'[d] = "none"
    BY <1>5 DEF RemovedLeavesNoRows
  <2>2. catalog[d].status = "removed"
    BY <1>5, <2>1
  <2>3. ChunksOf(d) \cap (chunkRows \cup embeddingRows) = {} /\ stateRow[d] = "none"
    BY <1>6, <2>1, <2>2 DEF RemovedLeavesNoRows
  <2>4. d = run.doc => ~Present(run.doc)
    BY <2>2, StatusTypes DEF Present
  <2>5. CASE d = run.doc
    BY <1>4, <2>3, <2>4, <2>5 DEF StoresGrow
  <2>6. CASE d # run.doc
    BY <1>4, <1>7, <1>8, <2>3, <2>6 DEF StoresGrow
  <2>7. QED
    BY <2>5, <2>6
<1>17. QED
  BY <1>10, <1>11, <1>14, <1>15, <1>16

\* The call's own record: its outcome stays open and its ids whole.
LEMMA WorkingKeepsRecord ==
  ASSUME IndexingInv, WorkingStep
  PROVE  RunOK'
<1>1. IndexingTypeOK /\ RunOK
  BY DEF IndexingInv
<1>2. Working /\ (GoesOn \/ IsOver)
  BY <1>1, WorkingControl
<1>3. PICK mine \in Docs : mine = run.doc
  BY <1>1, TypeParts DEF RunRecord
<1>4. run \in RunRecord
  BY <1>1, TypeParts
<1>8. \A result : EndRun(result) => run'.pc = "idle"
  BY DEF EndRun, NoRun
<1>9. /\ \A pc : Goto(pc) => run'.pc = pc
      /\ Handle => run'.pc = "undo_runtime"
  BY <1>4 DEF Goto, Handle, RunRecord
<1>10. run' = [run EXCEPT !.pc = "failed", !.seen = catalog[run.doc]] => run'.pc = "failed"
  BY <1>4 DEF RunRecord
<1>5. CASE IsOver
  BY <1>5 DEF IsOver, NoRun, RunOK, BeforeClaim
<1>6. CASE GoesOn
  <2>1. run'.doc = mine /\ outcome'[mine] = "running" /\ run'.ids \in {{}, ChunksOf(mine)}
    BY <1>1, <1>2, <1>3, <1>6 DEF GoesOn, RunOK, Working, BeforeClaim
  <2>2. run'.pc \in {"undo_embeddings", "undo_chunks"} => run'.todo \subseteq run'.ids
    <3>1. CASE RollbackIndexes
      BY <1>4, <3>1 DEF RollbackIndexes, RunRecord
    <3>2. ASSUME NEW c \in Chunks, RollbackEmbedding(c) \/ RollbackChunk(c)
          PROVE  run'.todo \subseteq run'.ids
      BY <1>1, <1>4, <3>2 DEF RollbackEmbedding, RollbackChunk, NextId, RunRecord, RunOK
    <3>3. CASE Ingest \/ PersistChunks \/ EmbedChunks \/ PersistEmbeddings \/ VectorAdd
               \/ LexicalAdd \/ ReadForReady \/ MarkReady
      <4>1. run'.pc \notin {"undo_embeddings", "undo_chunks"}
        BY <1>4, <3>3 DEF Ingest, PersistChunks, EmbedChunks, PersistEmbeddings, VectorAdd,
           LexicalAdd, ReadForReady, MarkReady, Goto, Handle, RunRecord
      <4>2. QED
        BY <4>1
    <3>5. CASE ReadForComplete \/ CompleteIndexingState \/ ReadForFailState
               \/ FailIndexingState \/ ReadForFailed \/ MarkFailed
      <4>1. run'.pc \notin {"undo_embeddings", "undo_chunks"}
        BY <1>8, <1>9, <1>10, <3>5 DEF ReadForComplete, CompleteIndexingState, ReadForFailState,
           FailIndexingState, ReadForFailed, MarkFailed
      <4>2. QED
        BY <4>1
    <3>4. QED
      BY <3>1, <3>2, <3>3, <3>5 DEF WorkingStep, Rollback
  <2>3. QED
    BY <2>1, <2>2 DEF RunOK
<1>7. QED
  BY <1>2, <1>5, <1>6

\* How far the rollback has come: the indexes first, then the embedding rows,
\* one by one, then the chunk rows; a run that had stored nothing skips both.
LEMMA WorkingRollsBack ==
  ASSUME IndexingInv, WorkingStep, "undo" \notin Failures
  PROVE  UndoOK'
<1>1. IndexingTypeOK /\ RunOK /\ StoresOK /\ UndoOK
  BY DEF IndexingInv
<1>2. PICK mine \in Docs : mine = run.doc
  BY <1>1, TypeParts DEF RunRecord
<1>3. run \in RunRecord
  BY <1>1, TypeParts
<1>4. ~MayFail("undo")
  BY DEF MayFail
<1>5. run.ids = {} \/ run.ids = ChunksOf(mine)
  BY <1>1, <1>2 DEF RunOK
<1>6. CASE RollbackIndexes
  <2>1. /\ run.pc = "undo_runtime"
        /\ vectorIndex' = vectorIndex \ run.ids /\ lexicalIndex' = lexicalIndex \ run.ids
        /\ chunkRows' = chunkRows /\ embeddingRows' = embeddingRows
        /\ run'.doc = mine /\ run'.todo = run.ids
        /\ run'.pc = IF durable /\ run.ids # {} THEN "undo_embeddings" ELSE "fail_read"
    BY <1>2, <1>3, <1>6 DEF RollbackIndexes, RunRecord
  <2>2. run.ids = {} => Empty(mine)
    BY <1>1, <1>2, <2>1 DEF StoresOK, BeforeClaim
  <2>3. CASE durable /\ run.ids # {}
    BY <1>5, <2>1, <2>3 DEF UndoOK
  <2>4. CASE ~durable \/ run.ids = {}
    <3>1. Empty(mine)'
      BY <1>1, <1>5, <2>1, <2>2, <2>4 DEF Empty, StoresOK
    <3>2. run'.pc = "fail_read"
      BY <2>1, <2>4
    <3>3. QED
      BY <2>1, <3>1, <3>2 DEF UndoOK
  <2>5. QED
    BY <2>3, <2>4
<1>7. ASSUME NEW c \in Chunks, RollbackEmbedding(c)
      PROVE  UndoOK'
  <2>1. /\ run.pc = "undo_embeddings" /\ c \in run.todo /\ run.todo \subseteq run.ids
        /\ embeddingRows' = embeddingRows \ {c}
        /\ UNCHANGED <<chunkRows, vectorIndex, lexicalIndex>>
        /\ run' = NextId(run, c, "undo_chunks")
    BY <1>1, <1>4, <1>7 DEF RollbackEmbedding, RunOK
  <2>2. /\ ChunksOf(mine) \cap (vectorIndex \cup lexicalIndex) = {}
        /\ ChunksOf(mine) \cap embeddingRows \subseteq run.todo
        /\ run.ids = ChunksOf(mine)
    BY <1>1, <1>2, <1>5, <2>1 DEF UndoOK
  <2>3. CASE run.todo = {c}
    <3>1. run'.pc = "undo_chunks" /\ run'.doc = mine /\ run'.todo = run.ids
      BY <1>2, <1>3, <2>1, <2>3 DEF NextId, RunRecord
    <3>2. QED
      BY <2>1, <2>2, <2>3, <3>1 DEF UndoOK
  <2>4. CASE run.todo # {c}
    <3>1. run'.pc = "undo_embeddings" /\ run'.doc = mine /\ run'.todo = run.todo \ {c}
      BY <1>2, <1>3, <2>1, <2>4 DEF NextId, RunRecord
    <3>2. QED
      BY <2>1, <2>2, <3>1 DEF UndoOK
  <2>5. QED
    BY <2>3, <2>4
<1>8. ASSUME NEW c \in Chunks, RollbackChunk(c)
      PROVE  UndoOK'
  <2>1. /\ run.pc = "undo_chunks" /\ c \in run.todo
        /\ chunkRows' = chunkRows \ {c} /\ embeddingRows' = embeddingRows \ {c}
        /\ UNCHANGED <<vectorIndex, lexicalIndex>>
        /\ run' = NextId(run, c, "fail_read")
    BY <1>4, <1>8 DEF RollbackChunk
  <2>2. /\ ChunksOf(mine) \cap (vectorIndex \cup lexicalIndex) = {}
        /\ ChunksOf(mine) \cap embeddingRows = {}
        /\ ChunksOf(mine) \cap chunkRows \subseteq run.todo
    BY <1>1, <1>2, <2>1 DEF UndoOK
  <2>3. CASE run.todo = {c}
    <3>1. run'.pc = "fail_read" /\ run'.doc = mine
      BY <1>2, <1>3, <2>1, <2>3 DEF NextId, RunRecord
    <3>2. Empty(mine)'
      BY <2>1, <2>2, <2>3 DEF Empty
    <3>3. QED
      BY <3>1, <3>2 DEF UndoOK
  <2>4. CASE run.todo # {c}
    <3>1. run'.pc = "undo_chunks" /\ run'.doc = mine /\ run'.todo = run.todo \ {c}
      BY <1>2, <1>3, <2>1, <2>4 DEF NextId, RunRecord
    <3>2. QED
      BY <2>1, <2>2, <3>1 DEF UndoOK
  <2>5. QED
    BY <2>3, <2>4
<1>9. CASE ReadForFailState \/ FailIndexingState \/ ReadForFailed \/ MarkFailed
  <2>1. /\ run.pc \in {"fail_read", "fail_state", "failed_read", "failed"}
        /\ UNCHANGED <<chunkRows, embeddingRows, vectorIndex, lexicalIndex>>
    BY <1>9 DEF ReadForFailState, FailIndexingState, ReadForFailed, MarkFailed, stores
  <2> DEFINE After == \/ run'.pc = "idle"
                      \/ run'.doc = mine /\ run'.pc \in {"fail_state", "failed_read", "failed"}
  <2>5. \A result : EndRun(result) => After
    BY DEF EndRun, NoRun
  <2>6. \A pc \in {"fail_state", "failed_read"} : Goto(pc) => After
    BY <1>2, <1>3 DEF Goto, RunRecord
  <2>7. run' = [run EXCEPT !.pc = "failed", !.seen = catalog[run.doc]] => After
    BY <1>2, <1>3 DEF RunRecord
  <2> HIDE DEF After
  <2>2. After
    BY <1>9, <2>5, <2>6, <2>7
       DEF ReadForFailState, FailIndexingState, ReadForFailed, MarkFailed
  <2> USE DEF After
  <2>3. Empty(mine)'
    BY <1>1, <1>2, <2>1 DEF UndoOK, Empty
  <2>4. QED
    BY <2>2, <2>3 DEF UndoOK
<1>10. CASE ~Rollback
  <2> DEFINE Undoing == {"fail_read", "fail_state", "failed_read", "failed",
                         "undo_embeddings", "undo_chunks"}
  <2>1. Ingest \/ PersistChunks \/ EmbedChunks \/ PersistEmbeddings \/ VectorAdd
          \/ LexicalAdd \/ ReadForReady \/ MarkReady => run'.pc \notin Undoing
    BY <1>3 DEF Ingest, PersistChunks, EmbedChunks, PersistEmbeddings, VectorAdd,
       LexicalAdd, ReadForReady, MarkReady, Goto, Handle, RunRecord
  <2>2. ReadForComplete \/ CompleteIndexingState => run'.pc \notin Undoing
    BY <1>3 DEF ReadForComplete, CompleteIndexingState, Goto, Handle, EndRun, NoRun, RunRecord
  <2>3. run'.pc \notin Undoing
    BY <1>10, <2>1, <2>2 DEF WorkingStep
  <2>4. QED
    BY <2>3 DEF UndoOK
<1>11. QED
  BY <1>6, <1>7, <1>8, <1>9, <1>10 DEF WorkingStep, Rollback

\* Before the claim nothing is written; the claim is only given to an UPLOADED
\* document, and that is one nobody ever attempted.
LEMMA LookingPreserves ==
  ASSUME IndexingInv, ValidateBeforeIndexing \/ ReadForIngesting
  PROVE  IndexingInv'
<1>1. IndexingTypeOK /\ RunStep
  BY DEF IndexingInv, RunStep
<1>2. UNCHANGED <<catalog, req, durable, del, stores, history>>
  BY DEF ValidateBeforeIndexing, ReadForIngesting, catalogVars
<1>3. IndexingTypeOK'
  BY <1>1, RunKeepsTypes
<1>4. run \in RunRecord /\ run.doc \in Docs /\ catalog[run.doc].status # "unregistered"
  <2>1. run.pc # "idle"
    BY DEF ValidateBeforeIndexing, ReadForIngesting
  <2>2. QED
    BY <1>1, <2>1, TypeParts DEF IndexingInv, AttemptsOK, RunRecord
<1>5. \/ run'.pc = "idle" /\ run'.ids = {}
      \/ run'.pc \in {"claim_read", "claim"} /\ run'.doc = run.doc /\ run'.ids = run.ids
  <2>1. run' = NoRun => run'.pc = "idle" /\ run'.ids = {}
    BY DEF NoRun
  <2>2. Goto("claim_read") =>
          run'.pc = "claim_read" /\ run'.doc = run.doc /\ run'.ids = run.ids
    BY <1>4 DEF Goto, RunRecord
  <2>3. run' = [run EXCEPT !.pc = "claim", !.seen = catalog[run.doc]] =>
          run'.pc = "claim" /\ run'.doc = run.doc /\ run'.ids = run.ids
    BY <1>4 DEF RunRecord
  <2>4. QED
    BY <2>1, <2>2, <2>3 DEF ValidateBeforeIndexing, ReadForIngesting
<1>6. run'.pc = "claim" => attempts[run.doc] = 0
  <2>1. ASSUME run'.pc = "claim"  PROVE ReadForIngesting /\ run' # NoRun
    BY <1>4, <2>1 DEF ValidateBeforeIndexing, NoRun, Goto, RunRecord
  <2>2. ReadForIngesting /\ run' # NoRun => catalog[run.doc].status = "UPLOADED"
    BY DEF ReadForIngesting, Allowed, Lifecycle!Allowed, Present, Statuses, Lifecycle!Statuses
  <2>3. QED
    BY <1>4, <2>1, <2>2 DEF IndexingInv, AttemptsOK
<1>7. AttemptsOK'
  BY <1>2, <1>4, <1>5, <1>6 DEF IndexingInv, AttemptsOK, BeforeClaim, history
<1>8. RunOK'
  BY <1>2, <1>5 DEF IndexingInv, RunOK, BeforeClaim, ChunksOf, history
<1>9. UndoOK'
  BY <1>5 DEF UndoOK
<1>10. StoresOK'
  BY <1>2, <1>5 DEF IndexingInv, StoresOK, BeforeClaim, Empty, stores, history
<1>11. RequestsOK' /\ AtMostOneAttempt' /\ FailedRunLeavesNothing' /\ RemovedLeavesNoRows'
  BY <1>2 DEF IndexingInv, RequestsOK, AtMostOneAttempt, FailedRunLeavesNothing,
     RemovedLeavesNoRows, stores, history
<1>12. QED
  BY <1>3, <1>7, <1>8, <1>9, <1>10, <1>11 DEF IndexingInv

\* The claim itself, on a document that has nothing stored.
LEMMA ClaimPreserves ==
  ASSUME IndexingInv, MarkIngesting
  PROVE  IndexingInv'
<1>1. IndexingTypeOK /\ RunStep
  BY DEF IndexingInv, RunStep
<1>2. IndexingTypeOK'
  BY <1>1, RunKeepsTypes
<1>3. PICK mine \in Docs : mine = run.doc
  BY <1>1, TypeParts DEF RunRecord
<1>4. run \in RunRecord /\ catalog \in [Docs -> Row] /\ HistoryTypes
  BY <1>1, TypeParts
<1>5. /\ run.pc = "claim"
      /\ UNCHANGED <<req, durable, del, stores, attempts, deleting, restarts>>
      /\ \A d \in Docs : catalog'[d] # catalog[d] =>
           d = mine /\ catalog'[d].status \in {"INGESTING", "READY", "FAILED"}
  BY <1>1, <1>3, RunFrame DEF MarkIngesting
<1>6. attempts[mine] = 0 /\ Empty(mine)
  BY <1>3, <1>5 DEF IndexingInv, AttemptsOK, StoresOK
<1>7. \/ run' = NoRun /\ outcome' = outcome
      \/ /\ run'.pc = "start" /\ run'.doc = mine /\ run'.ids = run.ids
         /\ outcome' = [outcome EXCEPT ![mine] = "running"]
         /\ Present(mine)
  BY <1>3, <1>4 DEF MarkIngesting, Goto, RunRecord
<1>8. Present(mine) => catalog'[mine].status = "INGESTING"
  <2>1. [run.seen EXCEPT !.status = "INGESTING"].status = "INGESTING"
    BY <1>4 DEF RunRecord, Row
  <2>2. QED
    BY <1>3, <1>4, <2>1 DEF MarkIngesting, UpdateRow
<1>9. run' = NoRun => run'.pc = "idle" /\ run'.ids = {}
  BY DEF NoRun
<1>10. AttemptsOK'
  BY <1>3, <1>5, <1>6, <1>7, <1>8, <1>9 DEF IndexingInv, AttemptsOK, BeforeClaim
<1>11. RunOK'
  BY <1>3, <1>4, <1>7, <1>9 DEF IndexingInv, RunOK, BeforeClaim, ChunksOf, HistoryTypes
<1>12. UndoOK'
  BY <1>7, <1>9 DEF UndoOK
<1>13. StoresOK'
  <2>1. \A d \in Docs : Empty(d) => Empty(d)'
    BY <1>5 DEF Empty, stores
  <2>2. /\ ~durable' => chunkRows' = {} /\ embeddingRows' = {}
        /\ \A d \in Docs : attempts'[d] = 0 => Empty(d)'
    BY <1>5, <2>1 DEF IndexingInv, StoresOK, stores
  <2>3. run'.pc \notin BeforeClaim => run'.doc = mine /\ Empty(mine)'
    BY <1>6, <1>7, <1>9, <2>1 DEF BeforeClaim
  <2>4. QED
    BY <2>2, <2>3 DEF StoresOK
<1>14. FailedRunLeavesNothing'
  BY <1>4, <1>5, <1>7 DEF IndexingInv, FailedRunLeavesNothing, stores, HistoryTypes
<1>15. RemovedLeavesNoRows'
  BY <1>5 DEF IndexingInv, RemovedLeavesNoRows, stores
<1>16. RequestsOK' /\ AtMostOneAttempt'
  BY <1>5 DEF IndexingInv, RequestsOK, AtMostOneAttempt
<1>17. QED
  BY <1>2, <1>10, <1>11, <1>12, <1>13, <1>14, <1>15, <1>16 DEF IndexingInv

\* The attempt starts: the one and only of its document.
LEMMA StartPreserves ==
  ASSUME IndexingInv, StartIndexingState
  PROVE  IndexingInv'
<1>1. IndexingTypeOK /\ RunStep
  BY DEF IndexingInv, RunStep
<1>2. IndexingTypeOK'
  BY <1>1, RunKeepsTypes
<1>3. PICK mine \in Docs : mine = run.doc
  BY <1>1, TypeParts DEF RunRecord
<1>4. run \in RunRecord /\ catalog \in [Docs -> Row] /\ StoreTypes /\ HistoryTypes
  BY <1>1, TypeParts
<1>5. /\ run.pc = "start"
      /\ UNCHANGED <<catalog, req, durable, chunkRows, embeddingRows, vectorIndex, lexicalIndex>>
  BY DEF StartIndexingState, catalogVars
<1>6. /\ attempts[mine] = 0 /\ Empty(mine) /\ outcome[mine] = "running"
      /\ catalog[mine].status \notin {"unregistered", "UPLOADED"}
  BY <1>3, <1>5 DEF IndexingInv, AttemptsOK, StoresOK, RunOK, BeforeClaim
<1>7. \/ /\ run'.pc = "ingest" /\ run'.doc = mine /\ run'.ids = run.ids
         /\ outcome' = outcome
         /\ attempts' = [attempts EXCEPT ![mine] = @ + 1]
         /\ stateRow' = [stateRow EXCEPT ![mine] = "STARTED"]
         /\ durable => Present(mine)
      \/ /\ run' = NoRun /\ outcome' = [outcome EXCEPT ![mine] = "escaped"]
         /\ attempts' = attempts /\ stateRow' = stateRow
  BY <1>3, <1>4 DEF StartIndexingState, Goto, EndRun, RunRecord
<1>8. /\ \A d \in Docs \ {mine} : attempts'[d] = attempts[d]
      /\ attempts'[mine] = IF run'.pc = "ingest" THEN 1 ELSE 0
  BY <1>4, <1>6, <1>7 DEF HistoryTypes, NoRun
<1>9. run' = NoRun => run'.pc = "idle" /\ run'.ids = {}
  BY DEF NoRun
<1>10. AttemptsOK'
  BY <1>5, <1>6, <1>7, <1>8, <1>9 DEF IndexingInv, AttemptsOK, BeforeClaim
<1>11. RunOK'
  BY <1>3, <1>6, <1>7, <1>9 DEF IndexingInv, RunOK, BeforeClaim, ChunksOf
<1>12. UndoOK'
  BY <1>7, <1>9 DEF UndoOK
<1>13. StoresOK'
  <2>1. \A d \in Docs : Empty(d) => Empty(d)'
    BY <1>5 DEF Empty
  <2>2. /\ ~durable' => chunkRows' = {} /\ embeddingRows' = {}
        /\ \A d \in Docs : attempts'[d] = 0 => Empty(d)'
    BY <1>5, <1>6, <1>8, <2>1 DEF IndexingInv, StoresOK
  <2>3. run'.pc \notin BeforeClaim => run'.doc = mine /\ Empty(mine)'
    BY <1>6, <1>7, <1>9, <2>1 DEF BeforeClaim
  <2>4. QED
    BY <2>2, <2>3 DEF StoresOK
<1>14. FailedRunLeavesNothing'
  BY <1>4, <1>5, <1>6, <1>7 DEF IndexingInv, FailedRunLeavesNothing, Empty, HistoryTypes
<1>15. RemovedLeavesNoRows'
  <2>1. \A d \in Docs : durable /\ catalog[d].status = "removed" => stateRow'[d] = stateRow[d]
    BY <1>4, <1>7, StatusTypes DEF StoreTypes, Present
  <2>2. QED
    BY <1>5, <2>1 DEF IndexingInv, RemovedLeavesNoRows
<1>16. RequestsOK' /\ AtMostOneAttempt'
  BY <1>5, <1>8 DEF IndexingInv, RequestsOK, AtMostOneAttempt
<1>17. QED
  BY <1>2, <1>10, <1>11, <1>12, <1>13, <1>14, <1>15, <1>16 DEF IndexingInv

\* A step that changes nothing.
LEMMA StutterPreserves ==
  ASSUME IndexingInv, UNCHANGED vars
  PROVE  IndexingInv'
BY DEF IndexingInv, IndexingTypeOK, CatalogTypeOK, RequestsOK, AttemptsOK, RunOK, StoresOK,
   UndoOK, AtMostOneAttempt, FailedRunLeavesNothing, RemovedLeavesNoRows, Empty,
   vars, catalogVars, stores, history

\* index_pdf, all of its steps.
LEMMA RunPreserves ==
  ASSUME IndexingInv, RunStep
  PROVE  IndexingInv'
<1>1. CASE ValidateBeforeIndexing \/ ReadForIngesting
  BY <1>1, LookingPreserves
<1>2. CASE MarkIngesting
  BY <1>2, ClaimPreserves
<1>3. CASE StartIndexingState
  BY <1>3, StartPreserves
<1>4. CASE WorkingStep
  <2>1. IndexingTypeOK'
    BY RunKeepsTypes DEF IndexingInv
  <2>2. UndoOK'
    BY <1>4, WorkingRollsBack DEF UndoOK
  <2>3. QED
    BY <1>4, <2>1, <2>2, WorkingPreserves, WorkingKeepsRecord DEF IndexingInv
<1>5. QED
  BY <1>1, <1>2, <1>3, <1>4 DEF RunStep, WorkingStep

\* Every step of the process, the ones that change nothing included.
LEMMA IndexingStep ==
  ASSUME IndexingInv, [IndexingNext]_vars
  PROVE  IndexingInv'
<1>1. CASE IndexingNext
  BY <1>1, AdminPreserves, RequestPreserves, RunPreserves, DeletePreserves,
     RestartPreserves DEF IndexingNext
<1>2. QED
  BY <1>1, StutterPreserves

\* The inductive invariant of indexing, from which the theorems below follow.
THEOREM IndexingInvariant == IndexingSafety => []IndexingInv
<1>1. IndexingInit => IndexingInv
  BY InitEstablishes
<1>2. IndexingInv /\ [IndexingNext]_vars => IndexingInv'
  BY IndexingStep
<1>3. QED
  BY <1>1, <1>2, PTL DEF IndexingSafety

-----------------------------------------------------------------------------

\* Every table, index and call in progress keeps the shape the runs assume.
THEOREM IndexingTypeCorrect == IndexingSafety => []IndexingTypeOK
<1>1. IndexingInv => IndexingTypeOK
  BY DEF IndexingInv
<1>2. QED
  BY <1>1, IndexingInvariant, PTL

\* A document is taken into indexing at most once, for any number of clients,
\* threads and crashes.
THEOREM OneAttempt == IndexingSafety => []AtMostOneAttempt
<1>1. IndexingInv => AtMostOneAttempt
  BY DEF IndexingInv
<1>2. QED
  BY <1>1, IndexingInvariant, PTL

\* A run that failed leaves no chunk, row or index entry, wherever it failed
\* and whatever requests, deletions or restarts it met.
THEOREM RollbackIsComplete == IndexingSafety => []FailedRunLeavesNothing
<1>1. IndexingInv => FailedRunLeavesNothing
  BY DEF IndexingInv
<1>2. QED
  BY <1>1, IndexingInvariant, PTL

\* No row outlives the document it belongs to, also when the document is
\* removed while a run is storing its chunks.
THEOREM NoOrphanRows == IndexingSafety => []RemovedLeavesNoRows
<1>1. IndexingInv => RemovedLeavesNoRows
  BY DEF IndexingInv
<1>2. QED
  BY <1>1, IndexingInvariant, PTL

-----------------------------------------------------------------------------
(* What a run that returned leaves.                                        *)

ChunksStored == {"embed", "embeddings", "vector", "lexical", "ready_read", "ready",
                 "complete_read", "complete"}
EmbeddingsStored == ChunksStored \ {"embed", "embeddings"}
VectorsStored == EmbeddingsStored \ {"vector"}
LexicalStored == VectorsStored \ {"lexical"}
Attempting == ChunksStored \cup {"ingest", "chunks"}

\* A delete only takes apart documents it has begun on, and only their chunks.
DeletesOK ==
  \A x \in Deleters :
    /\ del[x].ids \cup del[x].todo \subseteq ChunksOf(del[x].doc)
    /\ del[x].pc \notin {"idle", "lookup"} => del[x].doc \in deleting

\* What a run has stored so far, as long as no delete has begun on its document.
ProgressOK ==
  /\ run.pc \in ChunksStored \cup {"chunks"} => run.ids = ChunksOf(run.doc)
  /\ run.doc \notin deleting =>
       /\ run.pc \in Attempting => stateRow[run.doc] = "STARTED"
       /\ durable /\ run.pc \in ChunksStored => ChunksOf(run.doc) \subseteq chunkRows
       /\ durable /\ run.pc \in EmbeddingsStored => ChunksOf(run.doc) \subseteq embeddingRows
       /\ run.pc \in VectorsStored => ChunksOf(run.doc) \subseteq vectorIndex
       /\ run.pc \in LexicalStored => ChunksOf(run.doc) \subseteq lexicalIndex

CompletenessInv == IndexingInv /\ DeletesOK /\ ProgressOK /\ ReturnedRunIsComplete

\* A step takes nothing from a document.
Keeps(d) ==
  /\ ChunksOf(d) \cap chunkRows \subseteq chunkRows'
  /\ ChunksOf(d) \cap embeddingRows \subseteq embeddingRows'
  /\ ChunksOf(d) \cap vectorIndex \subseteq vectorIndex'
  /\ ChunksOf(d) \cap lexicalIndex \subseteq lexicalIndex'
  /\ stateRow'[d] = stateRow[d]

\* The chunks of two documents are different ones.
LEMMA ChunksApart ==
  \A d, e \in Docs : d # e => ChunksOf(d) \cap ChunksOf(e) = {}
BY DEF ChunksOf

\* A delete takes nothing from the documents no delete has begun on.
LEMMA DeleteKeepsStored ==
  ASSUME IndexingTypeOK, DeletesOK, NEW x \in Deleters, DeleteStep(x),
         NEW d \in Docs, d \notin deleting
  PROVE  Keeps(d)
<1>1. del[x].doc \in Docs /\ StoreTypes
  BY TypeParts DEF DeleteRecord
<1>2. CASE del[x].doc = d
  <2>1. del[x].pc \in {"idle", "lookup"}
    BY <1>2 DEF DeletesOK
  <2>2. UNCHANGED stores
    BY <2>1 DEF DeleteStep, LookUpForDelete, ListChunkIds, RemoveRuntimeIndexes,
       RemoveRuntimeIndexesRaises, RemoveEmbedding, RemoveChunk, RemoveIndexingStates,
       RequireEntryForRemove, RemoveFromCatalog, DeleteFails
  <2>3. QED
    BY <2>2 DEF Keeps, stores
<1>3. CASE del[x].doc # d
  <2>1. ChunksOf(d) \cap ChunksOf(del[x].doc) = {} /\ del[x].todo \subseteq ChunksOf(del[x].doc)
    BY <1>1, <1>3, ChunksApart DEF DeletesOK
  <2>2. CASE LookUpForDelete(x) \/ ListChunkIds(x) \/ RequireEntryForRemove(x) \/ DeleteFails(x)
    BY <2>2 DEF LookUpForDelete, ListChunkIds, RequireEntryForRemove, DeleteFails, stores, Keeps
  <2>3. CASE RemoveRuntimeIndexes(x) \/ RemoveRuntimeIndexesRaises(x)
    BY <2>1, <2>3 DEF RemoveRuntimeIndexes, RemoveRuntimeIndexesRaises, Keeps
  <2>4. ASSUME NEW c \in Chunks, RemoveEmbedding(x, c) \/ RemoveChunk(x, c)
        PROVE  Keeps(d)
    BY <2>1, <2>4 DEF RemoveEmbedding, RemoveChunk, Keeps
  <2>5. CASE RemoveIndexingStates(x)
    BY <1>1, <1>3, <2>5 DEF RemoveIndexingStates, Keeps, StoreTypes
  <2>6. CASE RemoveFromCatalog(x)
    BY <1>1, <1>3, <2>1, <2>6 DEF RemoveFromCatalog, Keeps, StoreTypes
  <2>7. QED
    BY <2>2, <2>3, <2>4, <2>5, <2>6 DEF DeleteStep
<1>4. QED
  BY <1>2, <1>3

\* A run takes nothing from the other documents.
LEMMA RunKeepsOthers ==
  ASSUME IndexingInv, RunStep, NEW d \in Docs, d # run.doc
  PROVE  Keeps(d) /\ outcome'[d] = outcome[d]
<1>1. run.doc \in Docs /\ run \in RunRecord /\ StoreTypes /\ HistoryTypes
  BY TypeParts DEF IndexingInv, RunRecord
<1>2. ChunksOf(d) \cap run.ids = {}
  BY <1>1, ChunksApart DEF IndexingInv, RunOK
<1>3. \A result : EndRun(result) => outcome'[d] = outcome[d]
  BY <1>1 DEF EndRun, HistoryTypes
<1>4. CASE ValidateBeforeIndexing \/ ReadForIngesting \/ Ingest \/ EmbedChunks
             \/ ReadForReady \/ MarkReady
  BY <1>4 DEF ValidateBeforeIndexing, ReadForIngesting, Ingest, EmbedChunks, ReadForReady,
     MarkReady, stores, history, Keeps
<1>5. CASE MarkIngesting
  BY <1>1, <1>5 DEF MarkIngesting, stores, Keeps, HistoryTypes
<1>6. CASE StartIndexingState
  BY <1>1, <1>3, <1>6 DEF StartIndexingState, Keeps, StoreTypes
<1>7. CASE PersistChunks \/ PersistEmbeddings \/ VectorAdd \/ LexicalAdd
  BY <1>7 DEF PersistChunks, PersistEmbeddings, VectorAdd, LexicalAdd, history, Keeps
<1>8. CASE ReadForComplete \/ ReadForFailState \/ ReadForFailed \/ MarkFailed
  BY <1>3, <1>8 DEF ReadForComplete, ReadForFailState, ReadForFailed, MarkFailed, stores, Keeps
<1>9. CASE CompleteIndexingState \/ FailIndexingState
  BY <1>1, <1>3, <1>9 DEF CompleteIndexingState, FailIndexingState, history, Keeps, StoreTypes
<1>10. CASE RollbackIndexes
  BY <1>2, <1>10 DEF RollbackIndexes, history, Keeps
<1>11. ASSUME NEW c \in Chunks, RollbackEmbedding(c) \/ RollbackChunk(c)
       PROVE  Keeps(d) /\ outcome'[d] = outcome[d]
  <2>1. c \in run.ids
    BY <1>11 DEF IndexingInv, RunOK, RollbackEmbedding, RollbackChunk
  <2>2. QED
    BY <1>2, <1>11, <2>1 DEF RollbackEmbedding, RollbackChunk, history, Keeps
<1>12. QED
  BY <1>4, <1>5, <1>6, <1>7, <1>8, <1>9, <1>10, <1>11 DEF RunStep, Rollback

\* What a returned run left, of one document.
Complete(d) ==
  /\ durable => ChunksOf(d) \subseteq chunkRows \cap embeddingRows
  /\ restarts = 0 => ChunksOf(d) \subseteq vectorIndex \cap lexicalIndex
  /\ stateRow[d] = "SUCCEEDED"

\* The run goes on, and what it stores at one step is there at the next.
LEMMA RunProgress ==
  ASSUME IndexingInv, ProgressOK, RunStep
  PROVE  ProgressOK'
<1>1. run \in RunRecord /\ StoreTypes /\ durable' = durable /\ deleting' = deleting
  BY TypeParts, RunFrame DEF IndexingInv
<1>2. PICK mine \in Docs : mine = run.doc
  BY <1>1 DEF RunRecord
<1>3. run'.pc \notin Attempting => ProgressOK'
  BY DEF ProgressOK, Attempting, ChunksStored, EmbeddingsStored, VectorsStored, LexicalStored
<1>4. /\ \A pc : Goto(pc) => run'.pc = pc /\ run'.doc = mine /\ run'.ids = run.ids
      /\ \A result : EndRun(result) => run'.pc \notin Attempting
      /\ Handle => run'.pc \notin Attempting
      /\ run' = NoRun => run'.pc \notin Attempting
  BY <1>1, <1>2 DEF Goto, EndRun, Handle, NoRun, RunRecord, Attempting, ChunksStored
<1>5. CASE ValidateBeforeIndexing \/ ReadForIngesting \/ MarkIngesting
  <2>1. run' = [run EXCEPT !.pc = "claim", !.seen = catalog[run.doc]] => run'.pc = "claim"
    BY <1>1 DEF RunRecord
  <2>2. run'.pc \notin Attempting
    BY <1>4, <1>5, <2>1 DEF ValidateBeforeIndexing, ReadForIngesting, MarkIngesting,
       Attempting, ChunksStored
  <2>3. QED
    BY <1>3, <2>2
<1>6. CASE StartIndexingState
  <2>1. run'.pc \notin Attempting \/
        /\ run'.pc = "ingest" /\ run'.doc = mine
        /\ stateRow'[mine] = "STARTED"
    BY <1>1, <1>2, <1>4, <1>6 DEF StartIndexingState, StoreTypes
  <2>2. QED
    BY <1>3, <2>1 DEF ProgressOK, ChunksStored, EmbeddingsStored, VectorsStored, LexicalStored
<1> DEFINE State == mine \notin deleting => stateRow[mine] = "STARTED"
           Rows == mine \notin deleting /\ durable => ChunksOf(mine) \subseteq chunkRows
           Vectors == mine \notin deleting /\ durable => ChunksOf(mine) \subseteq embeddingRows
           Near == mine \notin deleting => ChunksOf(mine) \subseteq vectorIndex
           Terms == mine \notin deleting => ChunksOf(mine) \subseteq lexicalIndex
<1>7. /\ run.pc \in Attempting => State
      /\ run.pc \in ChunksStored \cup {"chunks"} => run.ids = ChunksOf(mine)
      /\ run.pc \in ChunksStored => Rows
      /\ run.pc \in EmbeddingsStored => Vectors
      /\ run.pc \in VectorsStored => Near
      /\ run.pc \in LexicalStored => Terms
  BY <1>2 DEF ProgressOK
<1>8. ASSUME run'.doc = mine,
             run'.pc \in Attempting => State',
             run'.pc \in ChunksStored \cup {"chunks"} => run'.ids = ChunksOf(mine),
             run'.pc \in ChunksStored => Rows',
             run'.pc \in EmbeddingsStored => Vectors',
             run'.pc \in VectorsStored => Near',
             run'.pc \in LexicalStored => Terms'
      PROVE  ProgressOK'
  BY <1>8 DEF ProgressOK
<1>9. CASE Ingest
  <2>1. ASSUME run' = [run EXCEPT !.pc = "chunks", !.ids = ChunksOf(run.doc)]
        PROVE  run'.pc = "chunks" /\ run'.doc = mine /\ run'.ids = ChunksOf(mine)
    BY <1>1, <1>2, <2>1 DEF RunRecord
  <2>2. State'
    BY <1>1, <1>7, <1>9 DEF Ingest, Attempting, stores
  <2>3. QED
    BY <1>3, <1>4, <1>8, <1>9, <2>1, <2>2
       DEF Ingest, ChunksStored, EmbeddingsStored, VectorsStored, LexicalStored
<1>10. CASE PersistChunks
  <2>1. run.pc = "chunks" /\ State /\ run.ids = ChunksOf(mine)
    BY <1>7, <1>10 DEF PersistChunks, Attempting
  <2>2. CASE Goto("embed")
    <3>1. State' /\ Rows'
      BY <1>1, <1>4, <1>10, <2>1, <2>2 DEF PersistChunks, Attempting, ChunksStored
    <3>2. QED
      BY <1>4, <1>8, <2>1, <2>2, <3>1
         DEF ChunksStored, EmbeddingsStored, VectorsStored, LexicalStored
  <2>3. QED
    BY <1>3, <1>4, <1>10, <2>2 DEF PersistChunks
<1>11. CASE EmbedChunks
  <2>1. run.pc = "embed" /\ State /\ Rows /\ run.ids = ChunksOf(mine)
    BY <1>7, <1>11 DEF EmbedChunks, Attempting, ChunksStored
  <2>2. State' /\ Rows'
    BY <1>1, <1>11, <2>1 DEF EmbedChunks, stores
  <2>3. QED
    BY <1>3, <1>4, <1>8, <1>11, <2>1, <2>2
       DEF EmbedChunks, EmbeddingsStored, VectorsStored, LexicalStored
<1>12. CASE PersistEmbeddings
  <2>1. run.pc = "embeddings" /\ State /\ Rows /\ run.ids = ChunksOf(mine)
    BY <1>7, <1>12 DEF PersistEmbeddings, Attempting, ChunksStored
  <2>2. CASE Goto("vector")
    <3>1. State' /\ Rows' /\ Vectors'
      BY <1>1, <1>4, <1>12, <2>1, <2>2 DEF PersistEmbeddings, Attempting, ChunksStored
    <3>2. QED
      BY <1>4, <1>8, <2>1, <2>2, <3>1 DEF VectorsStored, LexicalStored
  <2>3. QED
    BY <1>3, <1>4, <1>12, <2>2 DEF PersistEmbeddings
<1>13. CASE VectorAdd
  <2>1. run.pc = "vector" /\ State /\ Rows /\ Vectors /\ run.ids = ChunksOf(mine)
    BY <1>7, <1>13 DEF VectorAdd, Attempting, ChunksStored, EmbeddingsStored
  <2>2. CASE Goto("lexical")
    <3>1. State' /\ Rows' /\ Vectors' /\ Near'
      BY <1>1, <1>4, <1>13, <2>1, <2>2 DEF VectorAdd, Attempting, ChunksStored
    <3>2. QED
      BY <1>4, <1>8, <2>1, <2>2, <3>1 DEF LexicalStored
  <2>3. QED
    BY <1>3, <1>4, <1>13, <2>2 DEF VectorAdd
<1>14. CASE LexicalAdd
  <2>1. run.pc = "lexical" /\ State /\ Rows /\ Vectors /\ Near /\ run.ids = ChunksOf(mine)
    BY <1>7, <1>14 DEF LexicalAdd, Attempting, ChunksStored, EmbeddingsStored, VectorsStored
  <2>2. CASE Goto("ready_read")
    <3>1. State' /\ Rows' /\ Vectors' /\ Near' /\ Terms'
      BY <1>1, <1>4, <1>14, <2>1, <2>2 DEF LexicalAdd, Attempting, ChunksStored
    <3>2. QED
      BY <1>4, <1>8, <2>1, <2>2, <3>1
  <2>3. QED
    BY <1>3, <1>4, <1>14, <2>2 DEF LexicalAdd
<1>15. CASE ReadForReady \/ MarkReady \/ ReadForComplete
  <2>1. /\ run.pc \in LexicalStored
        /\ State /\ Rows /\ Vectors /\ Near /\ Terms /\ run.ids = ChunksOf(mine)
    BY <1>7, <1>15 DEF ReadForReady, MarkReady, ReadForComplete, Attempting, ChunksStored,
       EmbeddingsStored, VectorsStored, LexicalStored
  <2>2. State' /\ Rows' /\ Vectors' /\ Near' /\ Terms'
    BY <1>1, <1>15, <2>1 DEF ReadForReady, MarkReady, ReadForComplete, stores
  <2>3. ASSUME run' = [run EXCEPT !.pc = "ready", !.seen = catalog[run.doc]]
        PROVE  run'.doc = mine /\ run'.ids = run.ids
    BY <1>1, <1>2, <2>3 DEF RunRecord
  <2>4. run'.pc \notin Attempting \/ (run'.doc = mine /\ run'.ids = run.ids)
    BY <1>4, <1>15, <2>3 DEF ReadForReady, MarkReady, ReadForComplete
  <2>5. QED
    BY <1>3, <1>8, <2>1, <2>2, <2>4
<1>16. CASE CompleteIndexingState
  BY <1>3, <1>4, <1>16 DEF CompleteIndexingState
<1>17. CASE Rollback
  <2>1. ASSUME NEW c \in Chunks, RollbackEmbedding(c) \/ RollbackChunk(c)
        PROVE  run'.pc \notin Attempting
    BY <1>1, <2>1 DEF RollbackEmbedding, RollbackChunk, NextId, RunRecord, Attempting,
       ChunksStored
  <2>2. RollbackIndexes => run'.pc \notin Attempting
    BY <1>1 DEF RollbackIndexes, RunRecord, Attempting, ChunksStored
  <2>3. run' = [run EXCEPT !.pc = "failed", !.seen = catalog[run.doc]] => run'.pc = "failed"
    BY <1>1 DEF RunRecord
  <2>4. ReadForFailState \/ FailIndexingState \/ ReadForFailed \/ MarkFailed
          => run'.pc \notin Attempting
    BY <1>4, <2>3 DEF ReadForFailState, FailIndexingState, ReadForFailed, MarkFailed,
       Attempting, ChunksStored
  <2>5. QED
    BY <1>3, <1>17, <2>1, <2>2, <2>4 DEF Rollback
<1>18. QED
  BY <1>5, <1>6, <1>9, <1>10, <1>11, <1>12, <1>13, <1>14, <1>15, <1>16, <1>17 DEF RunStep

\* The only steps that make a run return come after everything is stored.
LEMMA RunReturns ==
  ASSUME CompletenessInv, RunStep, NEW d \in Docs, outcome'[d] = "returned", d \notin deleting'
  PROVE  Complete(d)'
<1>1. /\ run \in RunRecord /\ run.doc \in Docs /\ StoreTypes /\ HistoryTypes
      /\ UNCHANGED <<durable, restarts, deleting>>
  BY TypeParts, RunFrame DEF CompletenessInv, IndexingInv, RunRecord
<1>2. CASE d # run.doc
  <2>1. Keeps(d) /\ outcome[d] = "returned" /\ d \notin deleting
    BY <1>1, <1>2, RunKeepsOthers DEF CompletenessInv
  <2>2. Complete(d)
    BY <2>1 DEF CompletenessInv, ReturnedRunIsComplete, Complete
  <2>3. QED
    BY <1>1, <2>1, <2>2 DEF Keeps, Complete
<1>3. CASE d = run.doc /\ run.pc \in BeforeClaim
  <2>1. outcome'[d] = outcome[d] /\ UNCHANGED stores
    BY <1>1, <1>3 DEF RunStep, Rollback, BeforeClaim, ValidateBeforeIndexing,
       ReadForIngesting, MarkIngesting, StartIndexingState, Ingest, PersistChunks, EmbedChunks,
       PersistEmbeddings, VectorAdd, LexicalAdd, ReadForReady, MarkReady, ReadForComplete,
       CompleteIndexingState, RollbackIndexes, RollbackEmbedding, RollbackChunk,
       ReadForFailState, FailIndexingState, ReadForFailed, MarkFailed, history, HistoryTypes
  <2>2. Complete(d)
    BY <1>1, <2>1 DEF CompletenessInv, ReturnedRunIsComplete, Complete
  <2>3. QED
    BY <1>1, <2>1, <2>2 DEF stores, Complete
<1>4. CASE d = run.doc /\ run.pc \notin BeforeClaim
  <2>1. outcome[d] = "running"
    BY <1>4 DEF CompletenessInv, IndexingInv, RunOK
  <2>2. \A result \in {"raised", "escaped"} : ~EndRun(result)
    BY <1>1, <1>4 DEF EndRun, HistoryTypes
  <2>3. ReadForComplete \/ CompleteIndexingState
    <3>1. outcome' # outcome
      BY <2>1
    <3>2. CASE MarkIngesting
      BY <1>4, <3>2 DEF MarkIngesting, BeforeClaim
    <3>3. QED
      BY <2>2, <3>1, <3>2 DEF RunStep, Rollback, ValidateBeforeIndexing,
         ReadForIngesting, StartIndexingState, Ingest, PersistChunks, EmbedChunks,
         PersistEmbeddings, VectorAdd, LexicalAdd, ReadForReady, MarkReady,
         RollbackIndexes, RollbackEmbedding, RollbackChunk,
         ReadForFailState, FailIndexingState, ReadForFailed, MarkFailed, history
  <2>4. /\ stateRow[d] = "STARTED"
        /\ durable => ChunksOf(d) \subseteq chunkRows \cap embeddingRows
        /\ ChunksOf(d) \subseteq vectorIndex \cap lexicalIndex
    BY <1>1, <1>4, <2>3 DEF CompletenessInv, ProgressOK, ReadForComplete,
       CompleteIndexingState, Attempting, ChunksStored, EmbeddingsStored, VectorsStored,
       LexicalStored
  <2>5. CASE ReadForComplete
    BY <2>1, <2>4, <2>5, <1>4 DEF ReadForComplete
  <2>6. CASE CompleteIndexingState
    BY <1>1, <1>4, <2>1, <2>4, <2>6 DEF CompleteIndexingState, Complete, StoreTypes
  <2>7. QED
    BY <2>3, <2>5, <2>6
<1>5. QED
  BY <1>2, <1>3, <1>4

\* Deletes stay within the documents they have begun on.
LEMMA DeletesStay ==
  ASSUME IndexingTypeOK, DeletesOK, NEW x \in Deleters, DeleteStep(x)
  PROVE  DeletesOK'
<1>1. del \in [Deleters -> DeleteRecord] /\ del[x] \in DeleteRecord /\ del[x].doc \in Docs
  BY TypeParts DEF DeleteRecord
<1> DEFINE OK(r, D) == /\ r.ids \cup r.todo \subseteq ChunksOf(r.doc)
                       /\ r.pc \notin {"idle", "lookup"} => r.doc \in D
<1>2. \A y \in Deleters : OK(del[y], deleting)
  BY DEF DeletesOK
<1>3. ASSUME NEW r, OK(r, deleting'), del' = [del EXCEPT ![x] = r], deleting \subseteq deleting'
      PROVE  DeletesOK'
  <2>1. \A y \in Deleters : del'[y] = IF y = x THEN r ELSE del[y]
    BY <1>1, <1>3
  <2>2. \A y \in Deleters : OK(del'[y], deleting')
    BY <1>2, <1>3, <2>1
  <2>3. QED
    BY <2>2 DEF DeletesOK
<1>4. OK(NoDelete, deleting')
  BY DEF NoDelete
<1>5. \A pc \in {"runtime", "embeddings", "chunks", "states", "entry", "remove"} :
        del[x].pc \notin {"idle", "lookup"} => OK([del[x] EXCEPT !.pc = pc], deleting)
  BY <1>1, <1>2 DEF DeleteRecord
<1>6. CASE DeleteFails(x) \/ RemoveRuntimeIndexesRaises(x) \/ RemoveFromCatalog(x)
  <2>1. EndDelete(x) /\ deleting' = deleting
    BY <1>6 DEF DeleteFails, RemoveRuntimeIndexesRaises, RemoveFromCatalog, history
  <2>2. QED
    BY <1>3, <1>4, <2>1 DEF EndDelete
<1>7. CASE LookUpForDelete(x)
  <2>1. CASE EndDelete(x) /\ deleting' = deleting
    BY <1>3, <1>4, <2>1 DEF EndDelete
  <2>2. CASE DelGoto(x, "list") /\ deleting' = deleting \cup {del[x].doc}
    <3>1. OK([del[x] EXCEPT !.pc = "list"], deleting')
      BY <1>1, <1>2, <2>2 DEF DeleteRecord
    <3>2. del' = [del EXCEPT ![x] = [del[x] EXCEPT !.pc = "list"]]
      BY <1>1, <2>2 DEF DelGoto
    <3>3. QED
      BY <1>3, <2>2, <3>1, <3>2
  <2>3. QED
    BY <1>7, <2>1, <2>2 DEF LookUpForDelete
<1>8. CASE RemoveIndexingStates(x) \/ RequireEntryForRemove(x)
  <2>1. deleting' = deleting /\ del[x].pc \notin {"idle", "lookup"}
    BY <1>8 DEF RemoveIndexingStates, RequireEntryForRemove, history
  <2>2. EndDelete(x) \/ \E pc \in {"entry", "remove"} : DelGoto(x, pc)
    BY <1>8 DEF RemoveIndexingStates, RequireEntryForRemove
  <2>3. ASSUME NEW pc \in {"entry", "remove"}, DelGoto(x, pc)
        PROVE  del' = [del EXCEPT ![x] = [del[x] EXCEPT !.pc = pc]]
    BY <1>1, <2>3 DEF DelGoto
  <2>4. QED
    BY <1>3, <1>4, <1>5, <2>1, <2>2, <2>3 DEF EndDelete
<1>9. CASE ListChunkIds(x)
  <2> DEFINE found == ChunksOf(del[x].doc) \cap (IF durable THEN chunkRows ELSE lexicalIndex)
             r == [del[x] EXCEPT !.pc = "runtime", !.ids = found]
  <2>1. /\ deleting' = deleting /\ del[x].pc = "list"
        /\ del' = [del EXCEPT ![x].pc = "runtime", ![x].ids = found]
    BY <1>9 DEF ListChunkIds, history
  <2>6. found \subseteq ChunksOf(del[x].doc)
    OBVIOUS
  <2> HIDE DEF found
  <2>2. r.ids = found /\ r.todo = del[x].todo /\ r.doc = del[x].doc
    BY <1>1 DEF DeleteRecord
  <2>3. del' = [del EXCEPT ![x] = r]
    BY <1>1, <2>1
  <2> HIDE DEF r
  <2>5. OK(r, deleting)
    BY <1>2, <2>1, <2>2, <2>6
  <2>4. QED
    BY <1>3, <2>1, <2>3, <2>5
<1>10. CASE RemoveRuntimeIndexes(x)
  <2> DEFINE ids == del[x].ids \cup (ChunksOf(del[x].doc) \cap (vectorIndex \cup lexicalIndex))
             pc == IF durable /\ ids # {} THEN "embeddings" ELSE "states"
             r == [del[x] EXCEPT !.pc = pc, !.ids = ids, !.todo = ids]
  <2>1. /\ deleting' = deleting /\ del[x].pc = "runtime"
        /\ del' = [del EXCEPT ![x].pc = pc, ![x].ids = ids, ![x].todo = ids]
    BY <1>10 DEF RemoveRuntimeIndexes, history
  <2>6. ids \subseteq ChunksOf(del[x].doc)
    BY <1>2
  <2> HIDE DEF ids, pc
  <2>2. r.ids = ids /\ r.todo = ids /\ r.doc = del[x].doc
    BY <1>1 DEF DeleteRecord
  <2>3. del' = [del EXCEPT ![x] = r]
    BY <1>1, <2>1
  <2> HIDE DEF r
  <2>5. OK(r, deleting)
    BY <1>2, <2>1, <2>2, <2>6
  <2>4. QED
    BY <1>3, <2>1, <2>3, <2>5
<1>11. ASSUME NEW c \in Chunks, RemoveEmbedding(x, c) \/ RemoveChunk(x, c)
       PROVE  DeletesOK'
  <2>1. /\ deleting' = deleting /\ del[x].pc \notin {"idle", "lookup"}
        /\ \E pc \in DelPcs : del' = [del EXCEPT ![x] = NextId(@, c, pc)]
    BY <1>11 DEF RemoveEmbedding, RemoveChunk, history, DelPcs
  <2>2. PICK pc \in DelPcs : del' = [del EXCEPT ![x] = NextId(@, c, pc)]
    BY <2>1
  <2> DEFINE r == NextId(del[x], c, pc)
  <2>3. /\ r.doc = del[x].doc /\ r.ids = del[x].ids
        /\ r.todo \subseteq del[x].todo \cup del[x].ids
    BY <1>1 DEF NextId, DeleteRecord
  <2>4. QED
    BY <1>1, <1>2, <1>3, <2>1, <2>2, <2>3
<1>12. QED
  BY <1>6, <1>7, <1>8, <1>9, <1>10, <1>11 DEF DeleteStep

\* Every step of the process keeps what a run has stored, and what one left.
LEMMA CompletenessStep ==
  ASSUME CompletenessInv, [IndexingNext]_vars
  PROVE  CompletenessInv'
<1>1. IndexingInv /\ IndexingTypeOK /\ DeletesOK /\ ProgressOK
  BY DEF CompletenessInv, IndexingInv
<1>2. IndexingInv'
  BY <1>1, IndexingStep
<1>3. run \in RunRecord /\ run.doc \in Docs /\ StoreTypes /\ HistoryTypes
  BY <1>1, TypeParts DEF RunRecord
<1>4. ASSUME UNCHANGED <<durable, run, del, stores, history>>
      PROVE  DeletesOK' /\ ProgressOK' /\ ReturnedRunIsComplete'
  BY <1>4 DEF CompletenessInv, DeletesOK, ProgressOK, ReturnedRunIsComplete, stores, history
<1>5. CASE UNCHANGED vars
  BY <1>2, <1>4, <1>5 DEF CompletenessInv, vars
<1>6. CASE AdminStep
  BY <1>2, <1>4, <1>6 DEF CompletenessInv, AdminStep
<1>7. ASSUME NEW d \in Docs, NEW p \in Principals, IndexRequest(d, p)
      PROVE  CompletenessInv'
  <2>1. run'.pc = "check" /\ UNCHANGED <<durable, del, stores, history>>
    BY <1>7 DEF IndexRequest, NoRun
  <2>2. ProgressOK'
    BY <2>1 DEF ProgressOK, Attempting, ChunksStored, EmbeddingsStored, VectorsStored,
       LexicalStored
  <2>3. DeletesOK' /\ ReturnedRunIsComplete'
    BY <2>1 DEF CompletenessInv, DeletesOK, ReturnedRunIsComplete, stores, history
  <2>4. QED
    BY <1>2, <2>2, <2>3 DEF CompletenessInv
<1>8. ASSUME NEW d \in Docs, NEW p \in Principals, NEW x \in Deleters, DeleteRequest(x, d, p)
      PROVE  CompletenessInv'
  <2>1. /\ UNCHANGED <<durable, run, stores, history>>
        /\ del' = [del EXCEPT ![x] = [NoDelete EXCEPT !.pc = "lookup", !.doc = d, !.by = p]]
    BY <1>8 DEF DeleteRequest
  <2>2. ProgressOK' /\ ReturnedRunIsComplete'
    BY <2>1 DEF CompletenessInv, ProgressOK, ReturnedRunIsComplete, stores, history
  <2> DEFINE r == [NoDelete EXCEPT !.pc = "lookup", !.doc = d, !.by = p]
  <2>3. r.pc = "lookup" /\ r.ids = {} /\ r.todo = {}
    BY DEF NoDelete
  <2>4. del' = [del EXCEPT ![x] = r] /\ deleting' = deleting
    BY <2>1 DEF history
  <2> HIDE DEF r
  <2>5. \A y \in Deleters : del'[y] = IF y = x THEN r ELSE del[y]
    BY <1>1, <2>4, TypeParts
  <2>6. DeletesOK'
    BY <1>1, <2>3, <2>4, <2>5 DEF DeletesOK
  <2>7. QED
    BY <1>2, <2>2, <2>6 DEF CompletenessInv
<1>9. CASE RunStep
  <2>1. ProgressOK'
    BY <1>1, <1>9, RunProgress
  <2>2. DeletesOK'
    BY <1>1, <1>9, RunFrame DEF DeletesOK
  <2>3. ReturnedRunIsComplete'
    BY <1>9, RunReturns DEF ReturnedRunIsComplete, Complete
  <2>4. QED
    BY <1>2, <2>1, <2>2, <2>3 DEF CompletenessInv
<1>10. ASSUME NEW x \in Deleters, DeleteStep(x)
       PROVE  CompletenessInv'
  <2>1. /\ UNCHANGED <<durable, run, outcome, restarts>> /\ deleting \subseteq deleting'
        /\ \A d \in Docs \ deleting : Keeps(d)
    <3>1. deleting \subseteq deleting'
      BY <1>10 DEF DeleteStep, LookUpForDelete, ListChunkIds, RemoveRuntimeIndexes,
         RemoveRuntimeIndexesRaises, RemoveEmbedding, RemoveChunk, RemoveIndexingStates,
         RequireEntryForRemove, RemoveFromCatalog, DeleteFails, history
    <3>2. QED
      BY <1>1, <1>10, <3>1, DeleteFrame, DeleteKeepsStored
  <2>2. DeletesOK'
    BY <1>1, <1>10, DeletesStay
  <2>3. ProgressOK'
    <3>1. run.doc \notin deleting' => run.doc \notin deleting /\ Keeps(run.doc)
      BY <1>3, <2>1
    <3>2. QED
      BY <1>1, <2>1, <3>1 DEF ProgressOK, Keeps
  <2>4. ReturnedRunIsComplete'
    <3>1. ASSUME NEW d \in Docs, outcome[d] = "returned", d \notin deleting'
          PROVE  Complete(d)'
      <4>1. Keeps(d) /\ Complete(d)
        BY <2>1, <3>1 DEF CompletenessInv, ReturnedRunIsComplete, Complete
      <4>2. QED
        BY <2>1, <4>1 DEF Keeps, Complete
    <3>2. QED
      BY <2>1, <3>1 DEF ReturnedRunIsComplete, Complete
  <2>5. QED
    BY <1>2, <2>2, <2>3, <2>4 DEF CompletenessInv
<1>11. CASE Restart
  <2>1. /\ run'.pc = "idle" /\ UNCHANGED <<durable, stateRow, chunkRows, embeddingRows, deleting>>
        /\ restarts' = restarts + 1
        /\ del' = [y \in Deleters |-> NoDelete]
        /\ outcome' = [d \in Docs |-> IF outcome[d] = "running" THEN "crashed" ELSE outcome[d]]
    BY <1>11 DEF Restart, NoRun
  <2>2. ProgressOK'
    BY <2>1 DEF ProgressOK, Attempting, ChunksStored, EmbeddingsStored, VectorsStored,
       LexicalStored
  <2>3. DeletesOK'
    BY <2>1 DEF DeletesOK, NoDelete
  <2>4. restarts' # 0
    BY <1>3, <2>1 DEF HistoryTypes
  <2>5. ReturnedRunIsComplete'
    BY <2>1, <2>4 DEF CompletenessInv, ReturnedRunIsComplete
  <2>6. QED
    BY <1>2, <2>2, <2>3, <2>5 DEF CompletenessInv
<1>12. QED
  BY <1>5, <1>6, <1>7, <1>8, <1>9, <1>10, <1>11 DEF IndexingNext

\* Nothing is stored, deleted or in progress at first.
LEMMA InitComplete ==
  ASSUME IndexingInit
  PROVE  CompletenessInv
<1>1. run.pc = "idle" /\ \A d \in Docs : outcome[d] = "none"
  BY DEF IndexingInit, NoRun
<1>2. DeletesOK
  BY DEF IndexingInit, DeletesOK, NoDelete
<1>3. ProgressOK
  BY <1>1 DEF ProgressOK, Attempting, ChunksStored, EmbeddingsStored, VectorsStored,
     LexicalStored
<1>4. ReturnedRunIsComplete
  BY <1>1 DEF ReturnedRunIsComplete
<1>5. QED
  BY <1>2, <1>3, <1>4, InitEstablishes DEF CompletenessInv

\* A run that returned has stored every chunk, embedding and index entry, and
\* completed its state; nothing but a delete of its document or, for the two
\* indexes, a restart ever takes any of it.
THEOREM ReturnedRunsAreComplete == IndexingSafety => []ReturnedRunIsComplete
<1>1. IndexingInit => CompletenessInv
  BY InitComplete
<1>2. CompletenessInv /\ [IndexingNext]_vars => CompletenessInv'
  BY CompletenessStep
<1>3. CompletenessInv => ReturnedRunIsComplete
  BY DEF CompletenessInv
<1>4. QED
  BY <1>1, <1>2, <1>3, PTL DEF IndexingSafety

-----------------------------------------------------------------------------
(* What READY and FAILED mean where _complete_indexing_state, which comes  *)
(* after mark_ready, does not fail.  Each needs a little more.             *)

CompletionWorks == "complete" \notin Failures

\* No client makes a document READY by POST /ready.
ReadyIsLeftToRuns == "READY" \notin AdminOps

\* Clients move documents to FAILED and DELETED only, and what a run does
\* about its failure outside the try or in its handler works.
FailuresReachCatalog ==
  /\ AdminOps \subseteq {"FAILED", "DELETED"}
  /\ Failures \cap {"start", "fail_state", "failed"} = {}

\* The status of the document a run is working on, and of a removed one.
StatusOK ==
  /\ \A d \in Docs : catalog[d].status = "removed" => d \in deleting
  /\ run.pc \notin BeforeClaim /\ run.doc \notin deleting =>
       catalog[run.doc].status \in IF run.pc \in {"complete_read", "complete"}
                                   THEN {"READY"} \cup AdminOps ELSE {"INGESTING"} \cup AdminOps

\* Inductive where CompletionWorks.
MarkedInv ==
  /\ CompletenessInv
  /\ StatusOK
  /\ ReadyIsLeftToRuns => ReadyMeansComplete
  /\ FailuresReachCatalog => FailureMarksDocument

\* Requests register documents or move them to what a client asked for.
LEMMA AdminTargets ==
  ASSUME IndexingInv, AdminStep
  PROVE  \A d \in Docs : catalog'[d] # catalog[d] =>
           \/ catalog[d].status = "unregistered" /\ catalog'[d].status = "UPLOADED"
           \/ Present(d) /\ catalog'[d].status \in AdminOps
<1>1. catalog \in [Docs -> Row] /\ req \in [Threads -> Request] /\ RequestsOK
  BY TypeParts DEF IndexingInv
<1>2. ASSUME NEW d \in Docs, NEW p \in Principals, CreateDocument(d, p)
      PROVE  \A e \in Docs : catalog'[e] # catalog[e] =>
               catalog[e].status = "unregistered" /\ catalog'[e].status = "UPLOADED"
  BY <1>1, <1>2 DEF CreateDocument, AddRow
<1>3. ASSUME NEW t \in Threads, WriteEntry(t)
      PROVE  \A d \in Docs : catalog'[d] # catalog[d] =>
               Present(d) /\ catalog'[d].status \in AdminOps
  <2>1. req[t] \in Request /\ req[t].op \in AdminOps /\ req[t].seen \in Row
    BY <1>1, <1>3 DEF WriteEntry, RequestsOK, Request
  <2>2. Replacement(req[t]).status = req[t].op
    BY <2>1 DEF Replacement, Row
  <2>3. UpdateRow(req[t].doc, Replacement(req[t]))
    BY <1>3, <2>1, IndexingAssumption DEF WriteEntry
  <2>4. QED
    BY <1>1, <2>1, <2>2, <2>3 DEF UpdateRow, Request
<1>4. \A t \in Threads, op \in AdminOps, d \in Docs, p \in Principals, n \in ChunkCounts \cup {0} :
        Dispatch(t, op, d, p, n) => catalog' = catalog
  BY DEF Dispatch
<1>5. \A t \in Threads : RequireOwner(t) \/ ReadEntry(t) => catalog' = catalog
  BY DEF RequireOwner, ReadEntry
<1>6. QED
  BY <1>2, <1>3, <1>4, <1>5 DEF AdminStep, Serve

\* A delete changes the catalog row of the document it has begun on.
LEMMA DeleteMarks ==
  ASSUME IndexingTypeOK, DeletesOK, NEW x \in Deleters, DeleteStep(x),
         NEW d \in Docs, catalog'[d] # catalog[d]
  PROVE  d \in deleting
<1>1. catalog \in [Docs -> Row]
  BY TypeParts
<1>2. RemoveFromCatalog(x)
  BY DEF DeleteStep, LookUpForDelete, ListChunkIds, RemoveRuntimeIndexes,
     RemoveRuntimeIndexesRaises, RemoveEmbedding, RemoveChunk, RemoveIndexingStates,
     RequireEntryForRemove, DeleteFails, catalogVars
<1>3. del[x].doc = d /\ del[x].pc = "remove"
  BY <1>1, <1>2 DEF RemoveFromCatalog, RemoveRow
<1>4. QED
  BY <1>3 DEF DeletesOK

\* The statuses of a document under its run, step by step.
LEMMA RunStatus ==
  ASSUME CompletionWorks, CompletenessInv, StatusOK, RunStep
  PROVE  StatusOK'
<1>1. /\ run \in RunRecord /\ run.doc \in Docs /\ run.seen \in Row /\ catalog \in [Docs -> Row]
      /\ UNCHANGED <<durable, deleting>>
      /\ \A d \in Docs : catalog'[d] # catalog[d] =>
           d = run.doc /\ catalog'[d].status \in {"INGESTING", "READY", "FAILED"}
  BY TypeParts, RunFrame DEF CompletenessInv, IndexingInv, RunRecord
<1>2. \A d \in Docs : catalog'[d].status = "removed" => d \in deleting'
  BY <1>1 DEF StatusOK
<1> DEFINE mine == run.doc
           Over == run'.pc \in BeforeClaim
           Late == {"complete_read", "complete"}
           On(pcs) == run'.doc = mine /\ run'.pc \in pcs
<1>3. /\ \A pc : Goto(pc) => run'.doc = mine /\ run'.pc = pc
      /\ \A result : EndRun(result) => Over
      /\ run' = NoRun => Over
      /\ Handle => On({"undo_runtime"})
  BY <1>1 DEF Goto, EndRun, Handle, NoRun, RunRecord, BeforeClaim
<1>4. CASE Over \/ mine \in deleting
  <2>1. run'.pc \notin BeforeClaim => run'.doc = mine
    <3>1. CASE ReadForIngesting \/ ReadForReady \/ ReadForFailed
      BY <1>1, <1>3, <3>1 DEF ReadForIngesting, ReadForReady, ReadForFailed, RunRecord
    <3>2. CASE Ingest
      BY <1>1, <1>3, <3>2 DEF Ingest, RunRecord
    <3>3. CASE RollbackIndexes
      BY <1>1, <3>3 DEF RollbackIndexes, RunRecord
    <3>4. ASSUME NEW c \in Chunks, RollbackEmbedding(c) \/ RollbackChunk(c)
          PROVE  run'.doc = mine
      BY <1>1, <3>4 DEF RollbackEmbedding, RollbackChunk, NextId, RunRecord
    <3>5. CASE ValidateBeforeIndexing \/ MarkIngesting
      BY <1>3, <3>5 DEF ValidateBeforeIndexing, MarkIngesting
    <3>6. CASE StartIndexingState \/ PersistChunks \/ EmbedChunks \/ PersistEmbeddings
                 \/ VectorAdd \/ LexicalAdd \/ MarkReady
      BY <1>3, <3>6 DEF StartIndexingState, PersistChunks, EmbedChunks, PersistEmbeddings,
         VectorAdd, LexicalAdd, MarkReady
    <3>7. CASE ReadForComplete \/ CompleteIndexingState \/ ReadForFailState
                 \/ FailIndexingState \/ MarkFailed
      BY <1>3, <3>7 DEF ReadForComplete, CompleteIndexingState, ReadForFailState,
         FailIndexingState, MarkFailed
    <3>8. QED
      BY <3>1, <3>2, <3>3, <3>4, <3>5, <3>6, <3>7 DEF RunStep, Rollback
  <2>2. QED
    BY <1>1, <1>2, <1>4, <2>1 DEF StatusOK
<1>5. ASSUME ~Over, mine \notin deleting, run'.doc = mine,
             catalog'[mine].status \in IF run'.pc \in Late THEN {"READY"} \cup AdminOps
                                                         ELSE {"INGESTING"} \cup AdminOps
      PROVE  StatusOK'
  BY <1>1, <1>2, <1>5 DEF StatusOK
<1>6. CASE ~Over /\ mine \notin deleting
  <2>1. ~(ValidateBeforeIndexing \/ ReadForIngesting)
    <3>1. run' = [run EXCEPT !.pc = "claim", !.seen = catalog[run.doc]] => Over
      BY <1>1 DEF RunRecord, BeforeClaim
    <3>2. QED
      BY <1>3, <1>6, <3>1 DEF ValidateBeforeIndexing, ReadForIngesting, BeforeClaim
  <2>2. CASE MarkIngesting
    <3>1. Goto("start") /\ Present(mine)
      BY <1>3, <1>6, <2>2 DEF MarkIngesting
    <3>2. [run.seen EXCEPT !.status = "INGESTING"].status = "INGESTING"
      BY <1>1 DEF Row
    <3>3. catalog'[mine].status = "INGESTING"
      BY <1>1, <2>2, <3>1, <3>2 DEF MarkIngesting, UpdateRow
    <3>4. QED
      BY <1>3, <1>5, <1>6, <3>1, <3>3
  <2>3. ASSUME run.pc \notin BeforeClaim \cup Late, catalog' = catalog,
               run'.doc = mine, run'.pc \notin Late
        PROVE  StatusOK'
    BY <1>5, <1>6, <2>3 DEF StatusOK
  <2>4. CASE StartIndexingState \/ PersistChunks \/ EmbedChunks \/ PersistEmbeddings
               \/ VectorAdd \/ LexicalAdd \/ FailIndexingState \/ ReadForFailState
    BY <1>3, <1>6, <2>3, <2>4 DEF StartIndexingState, PersistChunks, EmbedChunks,
       PersistEmbeddings, VectorAdd, LexicalAdd, FailIndexingState, ReadForFailState,
       catalogVars, BeforeClaim
  <2>5. CASE Ingest \/ ReadForReady \/ ReadForFailed
    <3>1. \/ run' = [run EXCEPT !.pc = "chunks", !.ids = ChunksOf(run.doc)]
          \/ run' = [run EXCEPT !.pc = "ready", !.seen = catalog[run.doc]]
          \/ run' = [run EXCEPT !.pc = "failed", !.seen = catalog[run.doc]]
          \/ Handle
      BY <1>3, <1>6, <2>5 DEF Ingest, ReadForReady, ReadForFailed
    <3>2. run'.doc = mine /\ run'.pc \notin Late
      BY <1>1, <1>3, <3>1 DEF RunRecord
    <3>3. QED
      BY <2>3, <2>5, <3>2 DEF Ingest, ReadForReady, ReadForFailed, catalogVars, BeforeClaim
  <2>6. CASE MarkReady
    <3>1. CASE Goto("complete_read") /\ Present(mine)
      <4>1. [run.seen EXCEPT !.status = "READY", !.chunks = Cardinality(Pieces)].status = "READY"
        BY <1>1 DEF Row
      <4>2. catalog'[mine].status = "READY"
        BY <1>1, <1>3, <2>6, <3>1, <4>1 DEF MarkReady, UpdateRow
      <4>3. QED
        BY <1>3, <1>5, <1>6, <3>1, <4>2
    <3>2. CASE Handle /\ catalog' = catalog
      BY <1>3, <2>3, <2>6, <3>2 DEF MarkReady, BeforeClaim
    <3>3. QED
      BY <2>6, <3>1, <3>2 DEF MarkReady
  <2>7. CASE ReadForComplete
    <3>1. Goto("complete") /\ catalog' = catalog /\ run.pc = "complete_read"
      BY <1>3, <1>6, <2>7 DEF ReadForComplete, MayFail, CompletionWorks, catalogVars
    <3>2. QED
      BY <1>3, <1>5, <1>6, <3>1 DEF StatusOK, BeforeClaim
  <2>8. ~CompleteIndexingState
    <3>1. ASSUME CompleteIndexingState PROVE FALSE
      <4>1. run.pc = "complete" /\ stateRow[mine] = "none"
        BY <1>3, <1>6, <3>1 DEF CompleteIndexingState, MayFail, CompletionWorks
      <4>2. stateRow[mine] = "STARTED"
        BY <1>6, <4>1 DEF CompletenessInv, ProgressOK, Attempting, ChunksStored
      <4>3. QED
        BY <4>1, <4>2
    <3>2. QED
      BY <3>1
  <2>9. CASE RollbackIndexes
    <3>1. run'.doc = mine /\ run'.pc \notin Late
      BY <1>1, <2>9 DEF RollbackIndexes, RunRecord
    <3>2. QED
      BY <2>3, <2>9, <3>1 DEF RollbackIndexes, catalogVars, BeforeClaim
  <2>10. ASSUME NEW c \in Chunks, RollbackEmbedding(c) \/ RollbackChunk(c)
         PROVE  StatusOK'
    <3>1. run'.doc = mine /\ run'.pc \notin Late
      BY <1>1, <2>10 DEF RollbackEmbedding, RollbackChunk, NextId, RunRecord
    <3>2. QED
      BY <2>3, <2>10, <3>1 DEF RollbackEmbedding, RollbackChunk, catalogVars, BeforeClaim
  <2>11. ~MarkFailed
    BY <1>3, <1>6 DEF MarkFailed
  <2>12. QED
    BY <2>1, <2>2, <2>4, <2>5, <2>6, <2>7, <2>8, <2>9, <2>10, <2>11 DEF RunStep, Rollback
<1>7. QED
  BY <1>4, <1>6

\* A run makes its document READY when it has stored everything, and ends
\* with a failure only where it has marked it FAILED.
LEMMA RunMarks ==
  ASSUME MarkedInv, RunStep, NEW d \in Docs, d \notin deleting
  PROVE  /\ ReadyIsLeftToRuns /\ durable' /\ catalog'[d].status = "READY" =>
              /\ ChunksOf(d) \subseteq chunkRows' \cap embeddingRows'
              /\ catalog'[d].chunks = Cardinality(Pieces)
         /\ FailuresReachCatalog /\ outcome'[d] \in {"raised", "escaped"} =>
              catalog'[d].status \in {"FAILED", "DELETED"}
<1>1. /\ run \in RunRecord /\ run.doc \in Docs /\ run.seen \in Row /\ catalog \in [Docs -> Row]
      /\ HistoryTypes
      /\ UNCHANGED <<durable, deleting>>
      /\ \A e \in Docs : catalog'[e] # catalog[e] =>
           e = run.doc /\ run.pc \in {"claim", "ready", "failed"}
  BY TypeParts, RunFrame DEF MarkedInv, CompletenessInv, IndexingInv, RunRecord
<1> DEFINE Ready == ReadyIsLeftToRuns /\ durable /\ catalog[d].status = "READY" =>
                      /\ ChunksOf(d) \subseteq chunkRows \cap embeddingRows
                      /\ catalog[d].chunks = Cardinality(Pieces)
           Failed == FailuresReachCatalog /\ outcome[d] \in {"raised", "escaped"} =>
                       catalog[d].status \in {"FAILED", "DELETED"}
<1>2. Ready /\ Failed
  BY DEF MarkedInv, ReadyMeansComplete, FailureMarksDocument
<1>3. SUFFICES Ready' /\ Failed'
  OBVIOUS
<1>4. CASE d # run.doc
  <2>1. Keeps(d) /\ outcome'[d] = outcome[d] /\ catalog'[d] = catalog[d]
    BY <1>1, <1>4, RunKeepsOthers DEF MarkedInv, CompletenessInv
  <2>2. QED
    BY <1>1, <1>2, <2>1 DEF Keeps
<1>5. CASE d = run.doc /\ run.pc \in BeforeClaim
  <2>1. CASE ValidateBeforeIndexing \/ ReadForIngesting
    <3>1. UNCHANGED <<catalog, durable, stores, history>>
      BY <2>1 DEF ValidateBeforeIndexing, ReadForIngesting, catalogVars
    <3>2. QED
      BY <1>2, <3>1 DEF stores, history
  <2>2. CASE MarkIngesting
    <3>1. Present(d)
      <4>1. catalog[d].status \notin {"unregistered", "removed"}
        BY <1>5, <2>2 DEF MarkedInv, CompletenessInv, IndexingInv, AttemptsOK, StatusOK,
           MarkIngesting
      <4>2. QED
        BY <1>1, <4>1 DEF Row, Present
    <3>2. [run.seen EXCEPT !.status = "INGESTING"].status = "INGESTING"
      BY <1>1 DEF Row
    <3>3. catalog'[d].status = "INGESTING" /\ outcome'[d] = "running"
      BY <1>1, <1>5, <2>2, <3>1, <3>2 DEF MarkIngesting, UpdateRow, HistoryTypes
    <3>4. QED
      BY <3>3
  <2>3. QED
    BY <1>5, <2>1, <2>2 DEF RunStep, Rollback, BeforeClaim, StartIndexingState, Ingest,
       PersistChunks, EmbedChunks, PersistEmbeddings, VectorAdd, LexicalAdd, ReadForReady,
       MarkReady, ReadForComplete, CompleteIndexingState, RollbackIndexes, RollbackEmbedding,
       RollbackChunk, ReadForFailState, FailIndexingState, ReadForFailed, MarkFailed
<1>6. CASE d = run.doc /\ run.pc \notin BeforeClaim
  <2>1. /\ outcome[d] = "running"
        /\ catalog[d].status \in IF run.pc \in {"complete_read", "complete"}
                                 THEN {"READY"} \cup AdminOps ELSE {"INGESTING"} \cup AdminOps
    BY <1>6 DEF MarkedInv, CompletenessInv, IndexingInv, RunOK, StatusOK
  <2>2. Present(d)
    BY <2>1, StatusTypes DEF Present
  <2>3. Ready'
    <3>1. CASE MarkReady
      <4> DEFINE new == [run.seen EXCEPT !.status = "READY", !.chunks = Cardinality(Pieces)]
      <4>1. run.pc = "ready" /\ UNCHANGED stores
        BY <3>1 DEF MarkReady
      <4>2. durable => ChunksOf(d) \subseteq chunkRows \cap embeddingRows
        BY <1>6, <4>1 DEF MarkedInv, CompletenessInv, ProgressOK, ChunksStored,
           EmbeddingsStored
      <4>3. new.chunks = Cardinality(Pieces)
        BY <1>1 DEF Row
      <4>4. catalog'[d] = new \/ catalog' = catalog
        BY <1>1, <1>6, <2>2, <3>1 DEF MarkReady, UpdateRow
      <4> HIDE DEF new
      <4>5. QED
        BY <1>1, <1>2, <4>1, <4>2, <4>3, <4>4 DEF stores
    <3>2. CASE MarkFailed
      <4>1. [run.seen EXCEPT !.status = "FAILED"].status = "FAILED"
        BY <1>1 DEF Row
      <4>2. catalog'[d].status = "FAILED" \/ catalog' = catalog
        BY <1>1, <1>6, <2>2, <3>2, <4>1 DEF MarkFailed, UpdateRow
      <4>3. QED
        BY <1>2, <2>1, <3>2, <4>2 DEF MarkFailed, stores
    <3>3. CASE ReadForComplete \/ CompleteIndexingState
      BY <1>2, <3>3 DEF ReadForComplete, CompleteIndexingState, stores, catalogVars
    <3>4. CASE ~(MarkReady \/ MarkFailed \/ ReadForComplete \/ CompleteIndexingState)
      <4>1. /\ catalog' = catalog
            /\ run.pc \notin {"complete_read", "complete"}
        BY <1>6, <3>4 DEF RunStep, Rollback, BeforeClaim, ValidateBeforeIndexing,
           ReadForIngesting, MarkIngesting, StartIndexingState, Ingest, PersistChunks,
           EmbedChunks, PersistEmbeddings, VectorAdd, LexicalAdd, ReadForReady,
           RollbackIndexes, RollbackEmbedding, RollbackChunk, ReadForFailState,
           FailIndexingState, ReadForFailed, catalogVars
      <4>2. catalog'[d].status \in {"INGESTING"} \cup AdminOps
        BY <1>1, <2>1, <4>1
      <4>3. QED
        BY <4>2 DEF ReadyIsLeftToRuns
    <3>5. QED
      BY <3>1, <3>2, <3>3, <3>4
  <2>4. ASSUME FailuresReachCatalog PROVE Failed'
    <3>1. CASE StartIndexingState
      <4>1. outcome' = outcome
        BY <1>6, <2>2, <2>4, <3>1 DEF StartIndexingState, MayFail, FailuresReachCatalog
      <4>2. QED
        BY <2>1, <4>1
    <3>2. CASE ReadForFailState
      BY <2>1, <2>4, <3>2 DEF ReadForFailState, MayFail, FailuresReachCatalog
    <3>3. CASE ReadForFailed
      <4>1. catalog' = catalog /\ run.pc = "failed_read"
        BY <3>3 DEF ReadForFailed, catalogVars
      <4>2. outcome' = outcome \/ "FAILED" \notin Allowed(catalog[d].status)
        BY <1>6, <2>2, <2>4, <3>3 DEF ReadForFailed, MayFail, FailuresReachCatalog
      <4>3. catalog[d].status = "INGESTING" => "FAILED" \in Allowed(catalog[d].status)
        BY DEF Allowed, Lifecycle!Allowed
      <4>4. QED
        BY <2>1, <2>4, <4>1, <4>2, <4>3 DEF FailuresReachCatalog
    <3>4. CASE MarkFailed
      <4>1. [run.seen EXCEPT !.status = "FAILED"].status = "FAILED"
        BY <1>1 DEF Row
      <4>2. UpdateRow(d, [run.seen EXCEPT !.status = "FAILED"])
        BY <1>6, <2>4, <3>4 DEF MarkFailed, MayFail, FailuresReachCatalog
      <4>3. catalog'[d].status = "FAILED"
        BY <1>1, <2>2, <4>1, <4>2 DEF UpdateRow
      <4>4. QED
        BY <4>3
    <3>5. CASE ReadForComplete \/ CompleteIndexingState
      <4>1. outcome' = outcome \/ EndRun("returned")
        BY <3>5 DEF ReadForComplete, CompleteIndexingState
      <4>2. EndRun("returned") => outcome'[d] = "returned"
        BY <1>1, <1>6 DEF EndRun, HistoryTypes
      <4>3. QED
        BY <2>1, <4>1, <4>2
    <3>6. CASE ~(StartIndexingState \/ ReadForFailState \/ ReadForFailed \/ MarkFailed
                   \/ ReadForComplete \/ CompleteIndexingState)
      <4>1. outcome' = outcome
        BY <1>6, <3>6 DEF RunStep, Rollback, BeforeClaim, ValidateBeforeIndexing,
           ReadForIngesting, MarkIngesting, Ingest, PersistChunks,
           EmbedChunks, PersistEmbeddings, VectorAdd, LexicalAdd, ReadForReady, MarkReady,
           RollbackIndexes, RollbackEmbedding, RollbackChunk, FailIndexingState, history
      <4>2. QED
        BY <2>1, <4>1
    <3>7. QED
      BY <3>1, <3>2, <3>3, <3>4, <3>5, <3>6
  <2>5. QED
    BY <2>3, <2>4
<1>7. QED
  BY <1>4, <1>5, <1>6

\* Every step keeps the invariant.
LEMMA MarkedStep ==
  ASSUME CompletionWorks, MarkedInv, [IndexingNext]_vars
  PROVE  MarkedInv'
<1>1. CompletenessInv /\ IndexingInv /\ IndexingTypeOK /\ DeletesOK /\ StatusOK
  BY DEF MarkedInv, CompletenessInv, IndexingInv
<1> DEFINE Ready == ReadyIsLeftToRuns => ReadyMeansComplete
           Failed == FailuresReachCatalog => FailureMarksDocument
<1>2. CompletenessInv'
  BY <1>1, CompletenessStep
<1>3. run \in RunRecord /\ run.doc \in Docs /\ catalog \in [Docs -> Row] /\ HistoryTypes
  BY <1>1, TypeParts DEF RunRecord
<1>4. ASSUME UNCHANGED <<catalog, durable, stores, history>>,
             run' = run \/ run'.pc \in BeforeClaim
      PROVE  MarkedInv'
  <2>1. StatusOK'
    BY <1>1, <1>4 DEF StatusOK, history
  <2>2. Ready' /\ Failed'
    BY <1>4 DEF MarkedInv, ReadyMeansComplete, FailureMarksDocument, stores, history
  <2>3. QED
    BY <1>2, <2>1, <2>2 DEF MarkedInv
<1>5. CASE UNCHANGED vars
  BY <1>4, <1>5 DEF vars, catalogVars
<1>6. CASE AdminStep
  <2>1. /\ UNCHANGED <<durable, run, del, stores, history>>
        /\ \A d \in Docs : catalog'[d] # catalog[d] =>
             \/ catalog[d].status = "unregistered" /\ catalog'[d].status = "UPLOADED"
             \/ Present(d) /\ catalog'[d].status \in AdminOps
    BY <1>1, <1>6, AdminTargets DEF AdminStep
  <2>2. run.pc # "idle" => catalog[run.doc].status # "unregistered"
    BY <1>1 DEF IndexingInv, AttemptsOK
  <2>3. StatusOK'
    <3>1. run.pc \notin BeforeClaim => \/ catalog'[run.doc] = catalog[run.doc]
                                      \/ catalog'[run.doc].status \in AdminOps
      BY <1>3, <2>1, <2>2 DEF BeforeClaim
    <3>2. QED
      BY <1>1, <1>3, <2>1, <3>1, StatusTypes DEF StatusOK, history
  <2>4. Ready'
    BY <2>1 DEF MarkedInv, ReadyIsLeftToRuns, ReadyMeansComplete, stores, history
  <2>5. Failed'
    BY <2>1 DEF MarkedInv, FailuresReachCatalog, FailureMarksDocument, history
  <2>6. QED
    BY <1>2, <2>3, <2>4, <2>5 DEF MarkedInv
<1>7. ASSUME NEW d \in Docs, NEW p \in Principals, IndexRequest(d, p)
      PROVE  MarkedInv'
  <2>1. run'.pc = "check" /\ UNCHANGED <<catalog, durable, stores, history>>
    BY <1>7 DEF IndexRequest, NoRun, catalogVars
  <2>2. QED
    BY <1>4, <2>1 DEF BeforeClaim
<1>8. ASSUME NEW d \in Docs, NEW p \in Principals, NEW x \in Deleters, DeleteRequest(x, d, p)
      PROVE  MarkedInv'
  BY <1>4, <1>8 DEF DeleteRequest, catalogVars
<1>9. CASE RunStep
  <2>1. StatusOK' /\ UNCHANGED <<durable, deleting>>
    BY <1>1, <1>9, RunStatus, RunFrame
  <2>2. Ready' /\ Failed'
    BY <1>9, <2>1, RunMarks DEF ReadyMeansComplete, FailureMarksDocument
  <2>3. QED
    BY <1>2, <2>1, <2>2 DEF MarkedInv
<1>10. ASSUME NEW x \in Deleters, DeleteStep(x)
       PROVE  MarkedInv'
  <2>1. /\ UNCHANGED <<durable, run, outcome>> /\ deleting \subseteq deleting'
        /\ \A d \in Docs \ deleting : Keeps(d) /\ catalog'[d] = catalog[d]
    <3>1. deleting \subseteq deleting'
      BY <1>10 DEF DeleteStep, LookUpForDelete, ListChunkIds, RemoveRuntimeIndexes,
         RemoveRuntimeIndexesRaises, RemoveEmbedding, RemoveChunk, RemoveIndexingStates,
         RequireEntryForRemove, RemoveFromCatalog, DeleteFails, history
    <3>2. \A d \in Docs \ deleting : catalog'[d] = catalog[d]
      BY <1>1, <1>10, DeleteMarks
    <3>3. QED
      BY <1>1, <1>10, <3>1, <3>2, DeleteFrame, DeleteKeepsStored
  <2>2. StatusOK'
    BY <1>1, <1>3, <2>1 DEF StatusOK
  <2>3. Ready'
    BY <2>1 DEF MarkedInv, ReadyMeansComplete, Keeps
  <2>4. Failed'
    BY <2>1 DEF MarkedInv, FailureMarksDocument
  <2>5. QED
    BY <1>2, <2>2, <2>3, <2>4 DEF MarkedInv
<1>11. CASE Restart
  <2>1. /\ run'.pc = "idle"
        /\ UNCHANGED <<catalog, durable, chunkRows, embeddingRows, deleting>>
        /\ outcome' = [d \in Docs |-> IF outcome[d] = "running" THEN "crashed" ELSE outcome[d]]
    BY <1>11 DEF Restart, NoRun
  <2>2. StatusOK'
    BY <1>1, <2>1 DEF StatusOK, BeforeClaim
  <2>3. Ready' /\ Failed'
    BY <2>1 DEF MarkedInv, ReadyMeansComplete, FailureMarksDocument
  <2>4. QED
    BY <1>2, <2>2, <2>3 DEF MarkedInv
<1>12. QED
  BY <1>5, <1>6, <1>7, <1>8, <1>9, <1>10, <1>11 DEF IndexingNext

\* The inductive invariant behind READY and FAILED.
LEMMA MarkedInvariant ==
  ASSUME CompletionWorks
  PROVE  IndexingSafety => []MarkedInv
<1>1. IndexingInit => MarkedInv
  <2>1. ASSUME IndexingInit
        PROVE  StatusOK /\ ReadyMeansComplete /\ FailureMarksDocument
    <3>1. /\ run.pc = "idle"
          /\ \A d \in Docs : outcome[d] = "none" /\ catalog[d].status = "unregistered"
      BY <2>1 DEF IndexingInit, CatalogInit, NoRun, BlankRow
    <3>2. QED
      BY <3>1 DEF StatusOK, ReadyMeansComplete, FailureMarksDocument, BeforeClaim
  <2>2. QED
    BY <2>1, InitComplete DEF MarkedInv
<1>2. MarkedInv /\ [IndexingNext]_vars => MarkedInv'
  BY MarkedStep
<1>3. QED
  BY <1>1, <1>2, PTL DEF IndexingSafety

\* Unless a client makes a document READY itself or the call that completes
\* its indexing state fails, READY means that all its chunks and embeddings are
\* stored and counted, whatever else clients do, fails, is deleted or crashes.
THEOREM ReadyIsComplete ==
  ASSUME ReadyIsLeftToRuns, CompletionWorks
  PROVE  IndexingSafety => []ReadyMeansComplete
<1>1. MarkedInv => ReadyMeansComplete
  BY DEF MarkedInv
<1>2. QED
  BY <1>1, MarkedInvariant, PTL

\* Where clients move documents to FAILED and DELETED only and a run's own
\* error handling works, a run that fails leaves its document FAILED, as
\* docs/ingestion-pipeline.md:60 says, or DELETED by a client since.
THEOREM FailuresAreMarked ==
  ASSUME FailuresReachCatalog, CompletionWorks
  PROVE  IndexingSafety => []FailureMarksDocument
<1>1. MarkedInv => FailureMarksDocument
  BY DEF MarkedInv
<1>2. QED
  BY <1>1, MarkedInvariant, PTL

-----------------------------------------------------------------------------
(* Indexing implements the lifecycle of the catalog where clients only     *)
(* delete: a run holds a stale copy of a row across transactions, but the  *)
(* statuses it was read in cannot have been left meanwhile.                *)

\* A status may become another one in one atomic step of the lifecycle.
Follows(s, target) ==
  \/ target = s
  \/ s = "unregistered" /\ target = "UPLOADED"
  \/ s \in Statuses /\ target \in Allowed(s) \cup {"removed"}

\* The step changes one document's row, along the lifecycle.
OneMove ==
  \E d \in Docs : /\ catalog' = [catalog EXCEPT ![d] = catalog'[d]]
                  /\ Follows(catalog[d].status, catalog'[d].status)

\* The statuses a document may have by now when a call is about to write the
\* row it read: a client's DELETED, the claim, READY and FAILED of a run.
CopiesOK ==
  /\ \A t \in Threads : req[t].pc = "write" =>
       catalog[req[t].doc].status \in {"READY", "FAILED", "DELETED", "removed"}
  /\ run.pc = "claim" => catalog[run.doc].status \in {"UPLOADED", "removed"}
  /\ run.pc = "ready" => catalog[run.doc].status \in {"INGESTING", "removed"}
  /\ run.pc = "failed" => catalog[run.doc].status \in {"UPLOADED", "INGESTING", "removed"}

LifecycleInv == IndexingInv /\ CopiesOK

\* A step that changes one row along the lifecycle is a step of the promise.
LEMMA MovesImplement ==
  ASSUME catalog \in [Docs -> Row], catalog' \in [Docs -> Row], OneMove
  PROVE  [Lifecycle!LifecycleNext]_([d \in Docs |-> catalog[d].status])
<1> DEFINE life == [d \in Docs |-> catalog[d].status]
<1>1. PICK d \in Docs : /\ catalog' = [catalog EXCEPT ![d] = catalog'[d]]
                        /\ Follows(catalog[d].status, catalog'[d].status)
  BY DEF OneMove
<1>2. PICK s \in Statuses \cup {"unregistered", "removed"} : s = catalog'[d].status
  BY DEF Row
<1>3. life[d] = catalog[d].status /\ life' = [life EXCEPT ![d] = s]
  BY <1>1, <1>2
<1>4. CASE s = life[d]
  BY <1>3, <1>4
<1>5. CASE life[d] = "unregistered" /\ s = "UPLOADED"
  BY <1>3, <1>5 DEF Lifecycle!LifecycleNext, Lifecycle!Register
<1>6. CASE life[d] \in Statuses /\ s \in Allowed(life[d])
  <2>1. s \in Statuses
    BY <1>6 DEF Allowed, Statuses, Lifecycle!Allowed, Lifecycle!Statuses
  <2>2. Lifecycle!Move(d, s)
    BY <1>3, <1>6 DEF Lifecycle!Move, Statuses, Allowed
  <2>3. QED
    BY <2>1, <2>2 DEF Lifecycle!LifecycleNext, Statuses
<1>7. CASE life[d] \in Statuses /\ s = "removed"
  BY <1>3, <1>7 DEF Lifecycle!LifecycleNext, Lifecycle!Remove, Statuses
<1>8. QED
  BY <1>1, <1>2, <1>3, <1>4, <1>5, <1>6, <1>7 DEF Follows

\* A client's step: a registration, or a deletion of the row that was read.
LEMMA AdminMoves ==
  ASSUME AdminOps \subseteq {"DELETED"}, LifecycleInv, AdminStep
  PROVE  catalog' = catalog \/ OneMove
<1>1. /\ catalog \in [Docs -> Row] /\ req \in [Threads -> Request] /\ RequestsOK
  BY TypeParts DEF LifecycleInv, IndexingInv
<1>2. ASSUME NEW d \in Docs, NEW p \in Principals, CreateDocument(d, p)
      PROVE  OneMove
  <2>1. /\ catalog[d].status = "unregistered" /\ catalog'[d].status = "UPLOADED"
        /\ catalog' = [catalog EXCEPT ![d] = catalog'[d]]
    BY <1>1, <1>2 DEF CreateDocument, AddRow
  <2>2. QED
    BY <2>1 DEF OneMove, Follows
<1>3. ASSUME NEW t \in Threads, WriteEntry(t), catalog' # catalog
      PROVE  OneMove
  <2>1. PICK d \in Docs : d = req[t].doc
    BY <1>1 DEF Request
  <2>2. req[t] \in Request /\ req[t].op = "DELETED" /\ req[t].seen \in Row
    BY <1>1, <1>3 DEF WriteEntry, RequestsOK, Request
  <2>3. Replacement(req[t]).status = "DELETED"
    BY <2>2 DEF Replacement, Row
  <2>4. Present(d) /\ catalog' = [catalog EXCEPT ![d] = Replacement(req[t])]
    BY <1>3, <2>1, <2>2 DEF WriteEntry, UpdateRow
  <2>5. catalog'[d].status = "DELETED" /\ catalog' = [catalog EXCEPT ![d] = catalog'[d]]
    BY <1>1, <2>3, <2>4
  <2>6. catalog[d].status \in {"READY", "FAILED", "DELETED"}
    BY <1>3, <2>1, <2>4 DEF LifecycleInv, CopiesOK, WriteEntry, Present, Statuses,
       Lifecycle!Statuses
  <2>7. Follows(catalog[d].status, "DELETED")
    BY <2>4, <2>6 DEF Follows, Allowed, Lifecycle!Allowed, Present
  <2>8. QED
    BY <2>5, <2>7 DEF OneMove
<1>4. \A t \in Threads, op \in AdminOps, d \in Docs, p \in Principals, n \in ChunkCounts \cup {0} :
        Dispatch(t, op, d, p, n) => catalog' = catalog
  BY DEF Dispatch
<1>5. \A t \in Threads : RequireOwner(t) \/ ReadEntry(t) => catalog' = catalog
  BY DEF RequireOwner, ReadEntry
<1>6. QED
  BY <1>2, <1>3, <1>4, <1>5 DEF AdminStep, Serve

\* A run's step writes over the status it read, or over a removed row, which
\* is no write.
LEMMA RunMoves ==
  ASSUME LifecycleInv, RunStep
  PROVE  catalog' = catalog \/ OneMove
<1>1. /\ catalog \in [Docs -> Row] /\ run.seen \in Row
  BY TypeParts DEF LifecycleInv, IndexingInv, RunRecord
<1>2. PICK d \in Docs : d = run.doc
  BY TypeParts DEF LifecycleInv, IndexingInv, RunRecord
<1> DEFINE ing == [run.seen EXCEPT !.status = "INGESTING"]
           rdy == [run.seen EXCEPT !.status = "READY", !.chunks = Cardinality(Pieces)]
           fld == [run.seen EXCEPT !.status = "FAILED"]
<1>3. ing.status = "INGESTING" /\ rdy.status = "READY" /\ fld.status = "FAILED"
  BY <1>1 DEF Row
<1>4. ASSUME NEW row \in {ing, rdy, fld}, UpdateRow(d, row), catalog' # catalog,
             Present(d) => Follows(catalog[d].status, row.status)
      PROVE  OneMove
  <2>1. Present(d) /\ catalog' = [catalog EXCEPT ![d] = row]
    BY <1>4 DEF UpdateRow
  <2>2. catalog'[d] = row /\ catalog' = [catalog EXCEPT ![d] = catalog'[d]]
    BY <1>1, <2>1
  <2>3. QED
    BY <1>4, <2>1, <2>2 DEF OneMove
<1>5. Present(d) => catalog[d].status \in Statuses \ {"removed"}
  BY DEF Present, Statuses, Lifecycle!Statuses
<1>6. CASE MarkIngesting
  <2>1. catalog[d].status \in {"UPLOADED", "removed"} /\ UpdateRow(d, ing)
    BY <1>2, <1>6 DEF MarkIngesting, LifecycleInv, CopiesOK
  <2>2. Present(d) => Follows(catalog[d].status, "INGESTING")
    BY <1>5, <2>1 DEF Follows, Allowed, Lifecycle!Allowed
  <2>3. QED
    BY <1>3, <1>4, <2>1, <2>2
<1>7. CASE MarkReady
  <2>1. /\ catalog[d].status \in {"INGESTING", "removed"}
        /\ UpdateRow(d, rdy) \/ catalog' = catalog
    BY <1>2, <1>7 DEF MarkReady, LifecycleInv, CopiesOK
  <2>2. Present(d) => Follows(catalog[d].status, "READY")
    BY <1>5, <2>1 DEF Follows, Allowed, Lifecycle!Allowed
  <2>3. QED
    BY <1>3, <1>4, <2>1, <2>2
<1>8. CASE MarkFailed
  <2>1. /\ catalog[d].status \in {"UPLOADED", "INGESTING", "removed"}
        /\ UpdateRow(d, fld) \/ catalog' = catalog
    BY <1>2, <1>8 DEF MarkFailed, LifecycleInv, CopiesOK
  <2>2. Present(d) => Follows(catalog[d].status, "FAILED")
    BY <1>5, <2>1 DEF Follows, Allowed, Lifecycle!Allowed
  <2>3. QED
    BY <1>3, <1>4, <2>1, <2>2
<1>9. CASE run.pc \notin {"claim", "ready", "failed"}
  <2>1. catalog' \in [Docs -> Row] /\ \A e \in Docs : catalog'[e] = catalog[e]
    BY <1>9, RunFrame DEF LifecycleInv, IndexingInv
  <2>2. QED
    BY <1>1, <2>1
<1>10. run.pc \in {"claim", "ready", "failed"} => MarkIngesting \/ MarkReady \/ MarkFailed
  BY DEF RunStep, Rollback, ValidateBeforeIndexing, ReadForIngesting, StartIndexingState,
     Ingest, PersistChunks, EmbedChunks, PersistEmbeddings, VectorAdd, LexicalAdd, ReadForReady,
     ReadForComplete, CompleteIndexingState, RollbackIndexes, RollbackEmbedding, RollbackChunk,
     ReadForFailState, FailIndexingState, ReadForFailed
<1>11. QED
  BY <1>6, <1>7, <1>8, <1>9, <1>10

\* A step of delete_document removes the row it looked up, or none.
LEMMA DeleteMoves ==
  ASSUME LifecycleInv, NEW x \in Deleters, DeleteStep(x)
  PROVE  catalog' = catalog \/ OneMove
<1>1. catalog \in [Docs -> Row]
  BY TypeParts DEF LifecycleInv, IndexingInv
<1>2. PICK d \in Docs : d = del[x].doc
  BY TypeParts DEF LifecycleInv, IndexingInv, DeleteRecord
<1>3. CASE RemoveFromCatalog(x) /\ catalog' # catalog
  <2>1. Present(d) /\ catalog' = [catalog EXCEPT ![d].status = "removed"]
    BY <1>2, <1>3 DEF RemoveFromCatalog, RemoveRow
  <2>2. catalog'[d].status = "removed" /\ catalog' = [catalog EXCEPT ![d] = catalog'[d]]
    BY <1>1, <2>1 DEF Row
  <2>3. QED
    BY <2>1, <2>2 DEF OneMove, Follows, Present
<1>4. CASE ~RemoveFromCatalog(x)
  BY <1>4 DEF DeleteStep, LookUpForDelete, ListChunkIds, RemoveRuntimeIndexes,
     RemoveRuntimeIndexesRaises, RemoveEmbedding, RemoveChunk, RemoveIndexingStates,
     RequireEntryForRemove, DeleteFails, catalogVars
<1>5. QED
  BY <1>3, <1>4

\* A step that moves no call and at most removes rows keeps what is said of
\* the copies.
LEMMA CopiesStay ==
  ASSUME CopiesOK, req' = req, run' = run,
         \A d \in Docs : catalog'[d].status \in {catalog[d].status, "removed"},
         \A t \in Threads : req[t].doc \in Docs, run.doc \in Docs
  PROVE  CopiesOK'
BY DEF CopiesOK

\* A client's step leaves the copies of others alone, and its own DELETED was
\* allowed in a status that only DELETED or the removal can follow.
LEMMA AdminCopies ==
  ASSUME AdminOps \subseteq {"DELETED"}, LifecycleInv, AdminStep
  PROVE  CopiesOK'
<1>1. /\ catalog \in [Docs -> Row] /\ req \in [Threads -> Request] /\ RequestsOK
      /\ run.doc \in Docs /\ run' = run
      /\ \A t \in Threads : req[t].doc \in Docs
      /\ run.pc # "idle" => catalog[run.doc].status # "unregistered"
      /\ CopiesOK
  BY TypeParts DEF LifecycleInv, IndexingInv, AdminStep, AttemptsOK, RunRecord, Request
<1> DEFINE Final == {"READY", "FAILED", "DELETED", "removed"}
           Copied == \A t \in Threads : req[t].pc = "write" => catalog[req[t].doc].status \in Final
           Running == /\ run.pc = "claim" => catalog[run.doc].status \in {"UPLOADED", "removed"}
                      /\ run.pc = "ready" => catalog[run.doc].status \in {"INGESTING", "removed"}
                      /\ run.pc = "failed" =>
                           catalog[run.doc].status \in {"UPLOADED", "INGESTING", "removed"}
<1>2. Copied /\ Running
  BY <1>1 DEF CopiesOK
<1>3. SUFFICES Copied' /\ Running'
  BY DEF CopiesOK
<1>4. ASSUME NEW d \in Docs, NEW p \in Principals, CreateDocument(d, p)
      PROVE  Copied' /\ Running'
  <2>1. /\ req' = req /\ catalog[d].status = "unregistered"
        /\ \A e \in Docs \ {d} : catalog'[e] = catalog[e]
    BY <1>1, <1>4 DEF CreateDocument, AddRow
  <2>2. Copied'
    BY <1>1, <1>2, <2>1
  <2>3. Running'
    BY <1>1, <1>2, <2>1
  <2>4. QED
    BY <2>2, <2>3
<1>5. ASSUME NEW t \in Threads, catalog' = catalog, req' = [req EXCEPT ![t] = req'[t]],
             req'[t].pc = "write" => catalog[req'[t].doc].status \in Final
      PROVE  Copied' /\ Running'
  BY <1>1, <1>2, <1>5
<1>6. ASSUME NEW t \in Threads, NEW op \in AdminOps, NEW d \in Docs, NEW p \in Principals,
             NEW n \in ChunkCounts \cup {0}, Dispatch(t, op, d, p, n)
      PROVE  Copied' /\ Running'
  BY <1>1, <1>5, <1>6 DEF Dispatch
<1>7. ASSUME NEW t \in Threads, RequireOwner(t)
      PROVE  Copied' /\ Running'
  <2>1. req[t].op = "DELETED" /\ catalog' = catalog
    BY <1>1, <1>7 DEF RequireOwner, RequestsOK
  <2>2. Finish(t) \/ req' = [req EXCEPT ![t].pc = "read"]
    BY <1>7, <2>1 DEF RequireOwner
  <2>3. req' = [req EXCEPT ![t] = req'[t]] /\ req'[t].pc # "write"
    BY <1>1, <2>2 DEF Finish, Idle, Request
  <2>4. QED
    BY <1>5, <2>1, <2>3
<1>8. ASSUME NEW t \in Threads, ReadEntry(t)
      PROVE  Copied' /\ Running'
  <2>1. req[t].op = "DELETED" /\ catalog' = catalog
    BY <1>1, <1>8 DEF ReadEntry, RequestsOK
  <2>2. CASE Finish(t)
    BY <1>1, <1>5, <2>1, <2>2 DEF Finish, Idle
  <2>3. CASE "DELETED" \in Allowed(catalog[req[t].doc].status)
             /\ req' = [req EXCEPT ![t].pc = "write", ![t].seen = catalog[req[t].doc]]
    <3>1. catalog[req[t].doc].status \in Final
      BY <2>3 DEF Allowed, Lifecycle!Allowed
    <3>2. req' = [req EXCEPT ![t] = req'[t]] /\ req'[t].doc = req[t].doc
      BY <1>1, <2>3 DEF Request
    <3>3. QED
      BY <1>5, <2>1, <3>1, <3>2
  <2>4. QED
    BY <1>8, <2>1, <2>2, <2>3 DEF ReadEntry
<1>9. ASSUME NEW t \in Threads, WriteEntry(t)
      PROVE  Copied' /\ Running'
  <2>1. PICK d \in Docs : d = req[t].doc
    BY <1>1
  <2>2. req[t] \in Request /\ req[t].op = "DELETED" /\ req[t].seen \in Row /\ req[t].pc = "write"
    BY <1>1, <1>9 DEF WriteEntry, RequestsOK, Request
  <2>3. Replacement(req[t]).status = "DELETED"
    BY <2>2 DEF Replacement, Row
  <2>4. UpdateRow(d, Replacement(req[t]))
    BY <1>9, <2>1, <2>2 DEF WriteEntry
  <2>5. /\ \A e \in Docs : catalog'[e] = catalog[e] \/ (e = d /\ catalog'[e].status = "DELETED")
        /\ catalog[d].status \in Final
    BY <1>1, <1>2, <2>1, <2>2, <2>3, <2>4 DEF UpdateRow
  <2>6. catalog[d].status = "removed" => catalog'[d] = catalog[d]
    BY <1>1, <2>4 DEF UpdateRow, Present, Statuses, Lifecycle!Statuses
  <2>7. \A s \in Threads : req'[s] = req[s] \/ req'[s].pc = "idle"
    BY <1>1, <1>9 DEF WriteEntry, Finish, Idle
  <2>8. Copied'
    BY <1>1, <1>2, <2>5, <2>7
  <2>9. Running'
    BY <1>1, <1>2, <2>5, <2>6
  <2>10. QED
    BY <2>8, <2>9
<1>10. QED
  BY <1>4, <1>6, <1>7, <1>8, <1>9 DEF AdminStep, Serve

\* A run writes to its own document only, whose status no client's copy has,
\* and reads the row again before each write.
LEMMA RunCopies ==
  ASSUME LifecycleInv, RunStep
  PROVE  CopiesOK'
<1>0. NoRun.pc = "idle"
  BY DEF NoRun
<1>1. /\ catalog \in [Docs -> Row] /\ req \in [Threads -> Request]
      /\ run \in RunRecord /\ run.doc \in Docs
      /\ \A t \in Threads : req[t].doc \in Docs
      /\ CopiesOK
  BY TypeParts DEF LifecycleInv, IndexingInv, RunRecord, Request
<1>2. /\ req' = req
      /\ \A d \in Docs : catalog'[d] # catalog[d] =>
           d = run.doc /\ Present(d) /\ run.pc \in {"claim", "ready", "failed"}
  BY RunFrame DEF LifecycleInv, IndexingInv
<1>3. \A t \in Threads : req[t].pc = "write" => catalog'[req[t].doc] = catalog[req[t].doc]
  BY <1>1, <1>2 DEF CopiesOK, Present, Statuses, Lifecycle!Statuses
<1>4. ASSUME run'.pc \notin {"claim", "ready", "failed"}
      PROVE  CopiesOK'
  BY <1>1, <1>2, <1>3, <1>4 DEF CopiesOK
<1>5. CASE ReadForIngesting /\ run'.pc = "claim"
  <2>1. /\ run' = [run EXCEPT !.pc = "claim", !.seen = catalog[run.doc]] /\ catalog' = catalog
        /\ "INGESTING" \in Allowed(catalog[run.doc].status)
    BY <1>0, <1>5 DEF ReadForIngesting, catalogVars
  <2>2. catalog[run.doc].status = "UPLOADED"
    BY <2>1 DEF Allowed, Lifecycle!Allowed
  <2>3. QED
    BY <1>1, <1>2, <1>3, <2>1, <2>2 DEF CopiesOK, RunRecord
<1>6. CASE ReadForReady /\ run'.pc = "ready"
  <2>1. /\ run'.doc = run.doc /\ catalog' = catalog
        /\ "READY" \in Allowed(catalog[run.doc].status)
    BY <1>1, <1>6 DEF ReadForReady, RunRecord, Handle, catalogVars
  <2>2. catalog[run.doc].status = "INGESTING"
    BY <2>1 DEF Allowed, Lifecycle!Allowed
  <2>3. QED
    BY <1>1, <1>2, <1>3, <1>6, <2>1, <2>2 DEF CopiesOK
<1>7. CASE ReadForFailed /\ run'.pc = "failed"
  <2>1. /\ run' = [run EXCEPT !.pc = "failed", !.seen = catalog[run.doc]] /\ catalog' = catalog
        /\ "FAILED" \in Allowed(catalog[run.doc].status)
    BY <1>0, <1>7 DEF ReadForFailed, EndRun, catalogVars
  <2>2. catalog[run.doc].status \in {"UPLOADED", "INGESTING"}
    BY <2>1 DEF Allowed, Lifecycle!Allowed
  <2>3. QED
    BY <1>1, <1>2, <1>3, <2>1, <2>2 DEF CopiesOK, RunRecord
<1>8. \/ run'.pc \notin {"claim", "ready", "failed"}
      \/ ReadForIngesting /\ run'.pc = "claim"
      \/ ReadForReady /\ run'.pc = "ready"
      \/ ReadForFailed /\ run'.pc = "failed"
  <2> DEFINE Elsewhere == run'.pc \notin {"claim", "ready", "failed"}
  <2>1. /\ \A pc \in RunPcs : Goto(pc) => run'.pc = pc
        /\ Handle => run'.pc = "undo_runtime"
        /\ \A result : EndRun(result) => run'.pc = "idle"
    BY <1>1, <1>0 DEF Goto, Handle, EndRun, RunRecord
  <2>2. CASE ReadForIngesting
    BY <1>1, <1>0, <2>2 DEF ReadForIngesting, RunRecord
  <2>3. CASE ReadForReady
    BY <1>1, <2>1, <2>3 DEF ReadForReady, RunRecord
  <2>4. CASE ReadForFailed
    BY <1>1, <2>1, <2>4 DEF ReadForFailed, RunRecord
  <2>5. CASE Ingest \/ RollbackIndexes
    BY <1>1, <2>1, <2>5 DEF Ingest, RollbackIndexes, RunRecord
  <2>6. CASE ValidateBeforeIndexing \/ MarkIngesting \/ StartIndexingState \/ PersistChunks
    BY <1>0, <2>1, <2>6 DEF ValidateBeforeIndexing, MarkIngesting, StartIndexingState,
       PersistChunks, RunPcs
  <2>7. CASE EmbedChunks \/ PersistEmbeddings \/ VectorAdd \/ LexicalAdd \/ MarkReady
    BY <2>1, <2>7 DEF EmbedChunks, PersistEmbeddings, VectorAdd, LexicalAdd, MarkReady, RunPcs
  <2>8. CASE ReadForComplete \/ CompleteIndexingState \/ FailIndexingState \/ MarkFailed
    BY <2>1, <2>8 DEF ReadForComplete, CompleteIndexingState, FailIndexingState, MarkFailed,
       RunPcs
  <2>9. CASE ReadForFailState
    <3>1. Goto("failed_read") \/ Goto("fail_state") \/ EndRun("escaped")
      BY <2>9 DEF ReadForFailState
    <3>2. QED
      BY <2>1, <3>1 DEF RunPcs
  <2>10. ASSUME NEW c \in Chunks, RollbackEmbedding(c) \/ RollbackChunk(c)
         PROVE  Elsewhere
    BY <1>1, <2>10 DEF RollbackEmbedding, RollbackChunk, NextId, RunRecord
  <2>11. QED
    BY <2>2, <2>3, <2>4, <2>5, <2>6, <2>7, <2>8, <2>9, <2>10 DEF RunStep, Rollback
<1>9. QED
  BY <1>4, <1>5, <1>6, <1>7, <1>8

\* Where clients only delete, every step keeps what is said of the copies and
\* is a step of the lifecycle, or a stutter.
LEMMA LifecycleStep ==
  ASSUME AdminOps \subseteq {"DELETED"}, LifecycleInv, [IndexingNext]_vars
  PROVE  CopiesOK' /\ (catalog' = catalog \/ OneMove)
<1>1. /\ CopiesOK
      /\ \A t \in Threads : req[t].doc \in Docs
      /\ run.doc \in Docs
  BY TypeParts DEF LifecycleInv, IndexingInv, RunRecord, Request
<1>2. CASE UNCHANGED vars
  BY <1>1, <1>2, CopiesStay DEF vars, catalogVars
<1>3. CASE AdminStep
  BY <1>3, AdminMoves, AdminCopies
<1>4. ASSUME NEW d \in Docs, NEW p \in Principals, IndexRequest(d, p)
      PROVE  CopiesOK' /\ catalog' = catalog
  BY <1>1, <1>4 DEF IndexRequest, NoRun, CopiesOK, catalogVars
<1>5. ASSUME NEW d \in Docs, NEW p \in Principals, NEW x \in Deleters, DeleteRequest(x, d, p)
      PROVE  CopiesOK' /\ catalog' = catalog
  BY <1>1, <1>5, CopiesStay DEF DeleteRequest, catalogVars
<1>6. CASE RunStep
  BY <1>6, RunMoves, RunCopies
<1>7. ASSUME NEW x \in Deleters, DeleteStep(x)
      PROVE  CopiesOK' /\ (catalog' = catalog \/ OneMove)
  <2>1. /\ req' = req /\ run' = run
        /\ \A d \in Docs : catalog'[d].status \in {catalog[d].status, "removed"}
    BY <1>7, DeleteFrame DEF LifecycleInv, IndexingInv
  <2>2. QED
    BY <1>1, <1>7, <2>1, CopiesStay, DeleteMoves
<1>8. CASE Restart
  BY <1>8 DEF Restart, CopiesOK, NoRun, Idle
<1>9. QED
  BY <1>2, <1>3, <1>4, <1>5, <1>6, <1>7, <1>8 DEF IndexingNext

\* Where clients do no more than delete, indexing beside deletes, failures and
\* crashes implements the atomic lifecycle of CatalogLifecycle.
THEOREM IndexingImplementsLifecycle ==
  ASSUME AdminOps \subseteq {"DELETED"}
  PROVE  IndexingSafety => ImplementsLifecycle
<1>1. IndexingInit => CopiesOK /\ Lifecycle!LifecycleInit
  <2>1. ASSUME IndexingInit PROVE CopiesOK
    BY <2>1 DEF IndexingInit, CatalogInit, CopiesOK, Idle, NoRun
  <2>2. ASSUME IndexingInit PROVE Lifecycle!LifecycleInit
    BY <2>2 DEF IndexingInit, CatalogInit, BlankRow, Lifecycle!LifecycleInit
  <2>3. QED
    BY <2>1, <2>2
<1>2. IndexingInv /\ IndexingInv' /\ CopiesOK /\ [IndexingNext]_vars
        => CopiesOK' /\ [Lifecycle!LifecycleNext]_([d \in Docs |-> catalog[d].status])
  <2>1. ASSUME IndexingInv, IndexingInv', CopiesOK, [IndexingNext]_vars
        PROVE  CopiesOK' /\ [Lifecycle!LifecycleNext]_([d \in Docs |-> catalog[d].status])
    <3>1. catalog \in [Docs -> Row] /\ catalog' \in [Docs -> Row]
      BY <2>1 DEF IndexingInv, IndexingTypeOK, CatalogTypeOK
    <3>2. CopiesOK' /\ (catalog' = catalog \/ OneMove)
      BY <2>1, LifecycleStep DEF LifecycleInv
    <3>3. QED
      BY <3>1, <3>2, MovesImplement
  <2>2. QED
    BY <2>1
<1>3. QED
  BY <1>1, <1>2, IndexingInvariant, PTL
     DEF IndexingSafety, ImplementsLifecycle, Lifecycle!LifecycleSpec
=============================================================================
