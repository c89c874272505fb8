------------------------------ MODULE Indexing ------------------------------
(***************************************************************************)
(* DocumentIndexingService: index_pdf and delete_document, over the        *)
(* catalog, the indexing states, the chunk and embedding rows and the two  *)
(* in-process indexes, together with the admin requests of module Catalog. *)
(*                                                                         *)
(* index_document is a coroutine that calls index_pdf synchronously: while *)
(* a PDF is being indexed the event loop runs nothing else, so there is    *)
(* one `run' at a time and no request is handed to a thread meanwhile.     *)
(* The threads that were handed one before go on.  delete_document runs in *)
(* such a thread.  Every repository call is one transaction, hence one     *)
(* action here; an exception is a branch of the action that raises it.     *)
(***************************************************************************)
EXTENDS Catalog, FiniteSets

CONSTANTS
  Pieces,         \* the chunks an upload is cut into, numbered
  Deleters,       \* pool threads that may be serving a DELETE
  Deployments,    \* {TRUE}: PostgreSQL, {FALSE}: in memory, or both
  Failures,       \* where a call to the database or a provider may fail
  MaxRestarts     \* bound on process restarts

FailurePoints ==
  {"start", "ingest", "chunks", "embed", "embeddings", "vector", "lexical",
   "ready", "complete", "undo", "fail_state", "failed", "delete"}

ASSUME IndexingAssumption ==
  /\ Pieces # {} /\ IsFiniteSet(Pieces)
  /\ Deployments \subseteq BOOLEAN
  /\ Failures \subseteq FailurePoints
  /\ MaxRestarts \in Nat
  /\ "remove" \notin AdminOps     \* rows are removed by delete_document only

VARIABLES
  durable,        \* is a database configured?
  run,            \* the index_pdf call in progress
  del,            \* per thread, the delete_document call in progress
  stateRow,       \* indexing_states: the row of a document's attempt
  chunkRows,      \* document_chunks (and retrieval_metadata)
  chunkOwner,     \* owner_user_id on a document's chunk rows
  embeddingRows,  \* embeddings
  vectorIndex,    \* InMemoryVectorIndex
  lexicalIndex,   \* InMemoryBM25Index
  attempts,       \* history: how often a document entered indexing
  outcome,        \* history: how its last attempt ended
  deleting,       \* history: documents a delete_document began to take apart
  restarts        \* process restarts so far

stores  == <<stateRow, chunkRows, chunkOwner, embeddingRows, vectorIndex, lexicalIndex>>
history == <<attempts, outcome, deleting, restarts>>
vars == <<catalogVars, durable, run, del, stores, history>>

Chunks == Docs \X Pieces
ChunksOf(d) == {d} \X Pieces        \* uuid5 ids: the same for every attempt

NoRun == [pc |-> "idle", doc |-> CHOOSE d \in Docs : TRUE, by |-> NoUser,
          seen |-> BlankRow, ids |-> {}, todo |-> {}]
NoDelete == [pc |-> "idle", doc |-> CHOOSE d \in Docs : TRUE, by |-> NoUser,
             ids |-> {}, todo |-> {}]

IndexingInit ==
  /\ CatalogInit
  /\ durable \in Deployments
  /\ run = NoRun
  /\ del = [x \in Deleters |-> NoDelete]
  /\ stateRow = [d \in Docs |-> "none"]
  /\ chunkRows = {} /\ embeddingRows = {}
  /\ chunkOwner = [d \in Docs |-> NoUser]
  /\ vectorIndex = {} /\ lexicalIndex = {}
  /\ attempts = [d \in Docs |-> 0]
  /\ outcome = [d \in Docs |-> "none"]
  /\ deleting = {}
  /\ restarts = 0

\* The entry the caller gets from get or get_for_owner.
Visible(d, p) == Present(d) /\ (p = NoUser \/ catalog[d].owner = p)

LoopIsFree == run.pc = "idle"

-----------------------------------------------------------------------------
(* index_pdf.                                                              *)

Goto(pc) == run' = [run EXCEPT !.pc = pc]

\* The call ends, with a result or an exception.
EndRun(result) ==
  /\ run' = NoRun
  /\ outcome' = [outcome EXCEPT ![run.doc] = result]

\* An exception inside the try block: _handle_failed_indexing.
Handle == run' = [run EXCEPT !.pc = "undo_runtime"]

\* Providers and the batch checks of the indexes may fail in any deployment,
\* a repository call only when there is a database behind it.
MayFail(point) ==
  /\ point \in Failures
  /\ durable \/ point \in {"ingest", "embed", "vector", "lexical"}

\* POST /admin/documents/{id}/index, the upload accepted by validate_pdf_upload.
IndexRequest(d, p) ==
  /\ LoopIsFree
  /\ catalog[d].status # "unregistered"
  /\ run' = [NoRun EXCEPT !.pc = "check", !.doc = d, !.by = p]
  /\ UNCHANGED <<catalogVars, durable, del, stores, history>>

\* _validate_before_indexing: rejects only a missing or READY document.
ValidateBeforeIndexing ==
  /\ run.pc = "check"
  /\ IF Visible(run.doc, run.by) /\ catalog[run.doc].status # "READY"
       THEN Goto("claim_read")
       ELSE run' = NoRun
  /\ UNCHANGED <<catalogVars, durable, del, stores, history>>

\* mark_ingesting, its reads.  The owner is looked at in a transaction of its
\* own; owners do not change and removal is final, so one read stands for both.
ReadForIngesting ==
  /\ run.pc = "claim_read"
  /\ IF Visible(run.doc, run.by) /\ "INGESTING" \in Allowed(catalog[run.doc].status)
       THEN run' = [run EXCEPT !.pc = "claim", !.seen = catalog[run.doc]]
       ELSE run' = NoRun
  /\ UNCHANGED <<catalogVars, durable, del, stores, history>>

\* mark_ingesting, its update.
MarkIngesting ==
  /\ run.pc = "claim"
  /\ UpdateRow(run.doc, [run.seen EXCEPT !.status = "INGESTING"])
  /\ IF Present(run.doc)
       THEN Goto("start") /\ outcome' = [outcome EXCEPT ![run.doc] = "running"]
       ELSE run' = NoRun /\ UNCHANGED outcome
  /\ UNCHANGED <<req, durable, del, stores, attempts, deleting, restarts>>

\* _start_indexing_state, before the try: an exception leaves index_pdf.  The
\* row refers to the document, which the database enforces.
StartIndexingState ==
  /\ run.pc = "start"
  /\ \/ /\ durable => Present(run.doc)
        /\ stateRow' = [stateRow EXCEPT ![run.doc] = "STARTED"]
        /\ attempts' = [attempts EXCEPT ![run.doc] = @ + 1]
        /\ Goto("ingest")
        /\ UNCHANGED outcome
     \/ /\ (durable /\ ~Present(run.doc)) \/ MayFail("start")
        /\ EndRun("escaped")
        /\ UNCHANGED <<stateRow, attempts>>
  /\ UNCHANGED <<catalogVars, durable, del, chunkRows, chunkOwner, embeddingRows,
                 vectorIndex, lexicalIndex, deleting, restarts>>

\* The ingestor and _validate_ingestion_result; the chunk ids are known after.
Ingest ==
  /\ run.pc = "ingest"
  /\ \/ run' = [run EXCEPT !.pc = "chunks", !.ids = ChunksOf(run.doc)]
     \/ MayFail("ingest") /\ Handle
  /\ UNCHANGED <<catalogVars, durable, del, stores, history>>

\* _persist_chunks: all rows or none; they refer to the document.
PersistChunks ==
  /\ run.pc = "chunks"
  /\ IF ~durable
       THEN Goto("embed") /\ UNCHANGED <<chunkRows, chunkOwner>>
       ELSE \/ /\ Present(run.doc)
               /\ run.ids \cap chunkRows = {}
               /\ chunkRows' = chunkRows \cup run.ids
               /\ chunkOwner' = [chunkOwner EXCEPT ![run.doc] = run.by]
               /\ Goto("embed")
            \/ /\ ~Present(run.doc) \/ run.ids \cap chunkRows # {} \/ MayFail("chunks")
               /\ Handle
               /\ UNCHANGED <<chunkRows, chunkOwner>>
  /\ UNCHANGED <<catalogVars, durable, del, stateRow, embeddingRows, vectorIndex,
                 lexicalIndex, history>>

\* _embed_chunks and _validate_embedded_chunks.
EmbedChunks ==
  /\ run.pc = "embed"
  /\ Goto("embeddings") \/ (MayFail("embed") /\ Handle)
  /\ UNCHANGED <<catalogVars, durable, del, stores, history>>

\* _persist_embeddings whose failure is logged and forgotten.
PersistEmbeddingsSwallowed ==
  /\ run.pc = "embeddings"
  /\ Goto("vector")
  /\ \/ run.ids \subseteq chunkRows /\ embeddingRows' = embeddingRows \cup run.ids
     \/ MayFail("embeddings") /\ UNCHANGED embeddingRows
  /\ UNCHANGED <<catalogVars, durable, del, stateRow, chunkRows, chunkOwner,
                 vectorIndex, lexicalIndex, history>>

\* _persist_embeddings: all rows or none; they refer to the chunk rows.
PersistEmbeddings ==
  /\ run.pc = "embeddings"
  /\ IF ~durable
       THEN Goto("vector") /\ UNCHANGED embeddingRows
       ELSE \/ /\ run.ids \subseteq chunkRows
               /\ run.ids \cap embeddingRows = {}
               /\ embeddingRows' = embeddingRows \cup run.ids
               /\ Goto("vector")
            \/ /\ ~(run.ids \subseteq chunkRows) \/ run.ids \cap embeddingRows # {}
                    \/ MayFail("embeddings")
               /\ Handle
               /\ UNCHANGED embeddingRows
  /\ UNCHANGED <<catalogVars, durable, del, stateRow, chunkRows, chunkOwner,
                 vectorIndex, lexicalIndex, history>>

\* InMemoryVectorIndex.add: rejects a batch with a known id or, for one
\* reason to fail, other dimensions.
VectorAdd ==
  /\ run.pc = "vector"
  /\ \/ /\ run.ids \cap vectorIndex = {}
        /\ vectorIndex' = vectorIndex \cup run.ids
        /\ Goto("lexical")
     \/ /\ run.ids \cap vectorIndex # {} \/ MayFail("vector")
        /\ Handle
        /\ UNCHANGED vectorIndex
  /\ UNCHANGED <<catalogVars, durable, del, stateRow, chunkRows, chunkOwner,
                 embeddingRows, lexicalIndex, history>>

\* InMemoryBM25Index.add.
LexicalAdd ==
  /\ run.pc = "lexical"
  /\ \/ /\ run.ids \cap lexicalIndex = {}
        /\ lexicalIndex' = lexicalIndex \cup run.ids
        /\ Goto("ready_read")
     \/ /\ run.ids \cap lexicalIndex # {} \/ MayFail("lexical")
        /\ Handle
        /\ UNCHANGED lexicalIndex
  /\ UNCHANGED <<catalogVars, durable, del, stateRow, chunkRows, chunkOwner,
                 embeddingRows, vectorIndex, history>>

\* mark_ready, its reads.
ReadForReady ==
  /\ run.pc = "ready_read"
  /\ IF Visible(run.doc, run.by) /\ "READY" \in Allowed(catalog[run.doc].status)
       THEN run' = [run EXCEPT !.pc = "ready", !.seen = catalog[run.doc]]
       ELSE Handle
  /\ UNCHANGED <<catalogVars, durable, del, stores, history>>

\* mark_ready, its update.
MarkReady ==
  /\ run.pc = "ready"
  /\ \/ /\ Present(run.doc)
        /\ UpdateRow(run.doc, [run.seen EXCEPT !.status = "READY",
                                               !.chunks = Cardinality(Pieces)])
        /\ Goto("complete_read")
     \/ /\ ~Present(run.doc) \/ MayFail("ready")
        /\ Handle
        /\ UNCHANGED catalog
  /\ UNCHANGED <<req, durable, del, stores, history>>

\* _complete_indexing_state, its read: nothing to do when the row is gone.
ReadForComplete ==
  /\ run.pc = "complete_read"
  /\ \/ stateRow[run.doc] = "none" /\ EndRun("returned")
     \/ stateRow[run.doc] # "none" /\ Goto("complete") /\ UNCHANGED outcome
     \/ MayFail("complete") /\ Handle /\ UNCHANGED outcome
  /\ UNCHANGED <<catalogVars, durable, del, stores, attempts, deleting, restarts>>

\* A completion with a status that IndexingStatus does not have.
CompleteWithCatalogStatus ==
  /\ run.pc = "complete"
  /\ stateRow' = [stateRow EXCEPT ![run.doc] = "READY"]
  /\ EndRun("returned")
  /\ UNCHANGED <<catalogVars, durable, del, chunkRows, chunkOwner, embeddingRows,
                 vectorIndex, lexicalIndex, attempts, deleting, restarts>>

\* A completion whose failure is swallowed, as the one of a failed run is.
CompleteSwallowed ==
  /\ run.pc = "complete"
  /\ EndRun("returned")
  /\ \/ stateRow' = [stateRow EXCEPT ![run.doc] = "SUCCEEDED"]
     \/ MayFail("complete") /\ UNCHANGED stateRow
  /\ UNCHANGED <<catalogVars, durable, del, chunkRows, chunkOwner, embeddingRows,
                 vectorIndex, lexicalIndex, attempts, deleting, restarts>>

\* _complete_indexing_state, its update, still inside the try block.
CompleteIndexingState ==
  /\ run.pc = "complete"
  /\ \/ /\ stateRow[run.doc] # "none"
        /\ stateRow' = [stateRow EXCEPT ![run.doc] = "SUCCEEDED"]
        /\ EndRun("returned")
     \/ /\ stateRow[run.doc] = "none" \/ MayFail("complete")
        /\ Handle
        /\ UNCHANGED <<stateRow, outcome>>
  /\ UNCHANGED <<catalogVars, durable, del, chunkRows, chunkOwner, embeddingRows,
                 vectorIndex, lexicalIndex, attempts, deleting, restarts>>

-----------------------------------------------------------------------------
(* _handle_failed_indexing.                                                *)

\* _rollback_indexes without its second loop.
RollbackVectorOnly ==
  /\ run.pc = "undo_runtime"
  /\ vectorIndex' = vectorIndex \ run.ids
  /\ run' = [run EXCEPT !.pc = IF durable /\ run.ids # {} THEN "undo_embeddings"
                                                          ELSE "fail_read",
                        !.todo = run.ids]
  /\ UNCHANGED <<catalogVars, durable, del, stateRow, chunkRows, chunkOwner,
                 embeddingRows, lexicalIndex, history>>

\* _rollback_indexes; what the removals raise is swallowed.
RollbackIndexes ==
  /\ run.pc = "undo_runtime"
  /\ vectorIndex' = vectorIndex \ run.ids
  /\ lexicalIndex' = lexicalIndex \ run.ids
  /\ run' = [run EXCEPT !.pc = IF durable /\ run.ids # {} THEN "undo_embeddings"
                                                          ELSE "fail_read",
                        !.todo = run.ids]
  /\ UNCHANGED <<catalogVars, durable, del, stateRow, chunkRows, chunkOwner,
                 embeddingRows, history>>

\* One iteration of a loop over chunk ids: the last one moves on.
NextId(r, c, pc) ==
  IF r.todo = {c} THEN [r EXCEPT !.pc = pc, !.todo = r.ids]
                  ELSE [r EXCEPT !.todo = @ \ {c}]

\* _rollback_persistence, first loop: one transaction per chunk, failures swallowed.
RollbackEmbedding(c) ==
  /\ run.pc = "undo_embeddings" /\ c \in run.todo
  /\ embeddingRows' = embeddingRows \ {c} \/ (MayFail("undo") /\ UNCHANGED embeddingRows)
  /\ run' = NextId(run, c, "undo_chunks")
  /\ UNCHANGED <<catalogVars, durable, del, stateRow, chunkRows, chunkOwner,
                 vectorIndex, lexicalIndex, history>>

\* _rollback_persistence, second loop; removing a chunk removes its embedding.
RollbackChunk(c) ==
  /\ run.pc = "undo_chunks" /\ c \in run.todo
  /\ \/ chunkRows' = chunkRows \ {c} /\ embeddingRows' = embeddingRows \ {c}
     \/ MayFail("undo") /\ UNCHANGED <<chunkRows, embeddingRows>>
  /\ run' = NextId(run, c, "fail_read")
  /\ UNCHANGED <<catalogVars, durable, del, stateRow, chunkOwner, vectorIndex,
                 lexicalIndex, history>>

\* _fail_indexing_state, its read: not guarded, an exception replaces the
\* original one and mark_failed is not reached.
ReadForFailState ==
  /\ run.pc = "fail_read"
  /\ \/ Goto(IF stateRow[run.doc] = "none" THEN "failed_read" ELSE "fail_state")
          /\ UNCHANGED outcome
     \/ MayFail("fail_state") /\ EndRun("escaped")
  /\ UNCHANGED <<catalogVars, durable, del, stores, attempts, deleting, restarts>>

\* _fail_indexing_state, its update: failures swallowed.
FailIndexingState ==
  /\ run.pc = "fail_state"
  /\ \/ stateRow[run.doc] # "none" /\ stateRow' = [stateRow EXCEPT ![run.doc] = "FAILED"]
     \/ (stateRow[run.doc] = "none" \/ MayFail("fail_state")) /\ UNCHANGED stateRow
  /\ Goto("failed_read")
  /\ UNCHANGED <<catalogVars, durable, del, chunkRows, chunkOwner, embeddingRows,
                 vectorIndex, lexicalIndex, history>>

\* A handler that raises without mark_failed.
NeverMarkFailed ==
  /\ run.pc = "failed_read"
  /\ EndRun("raised")
  /\ UNCHANGED <<catalogVars, durable, del, stores, attempts, deleting, restarts>>

\* mark_failed given to the documents nobody started on.
MarkFailedIfUploaded ==
  /\ run.pc = "failed_read"
  /\ \/ /\ catalog[run.doc].status = "UPLOADED"
        /\ run' = [run EXCEPT !.pc = "failed", !.seen = catalog[run.doc]]
        /\ UNCHANGED outcome
     \/ catalog[run.doc].status # "UPLOADED" /\ EndRun("raised")
  /\ UNCHANGED <<catalogVars, durable, del, stores, attempts, deleting, restarts>>

\* mark_failed, its read; whatever it raises is swallowed.
ReadForFailed ==
  /\ run.pc = "failed_read"
  /\ \/ /\ Present(run.doc)
        /\ "FAILED" \in Allowed(catalog[run.doc].status)
        /\ run' = [run EXCEPT !.pc = "failed", !.seen = catalog[run.doc]]
        /\ UNCHANGED outcome
     \/ /\ ~Present(run.doc) \/ "FAILED" \notin Allowed(catalog[run.doc].status)
             \/ MayFail("failed")
        /\ EndRun("raised")
  /\ UNCHANGED <<catalogVars, durable, del, stores, attempts, deleting, restarts>>

\* mark_failed, its update, and the exception the caller sees.
MarkFailed ==
  /\ run.pc = "failed"
  /\ \/ UpdateRow(run.doc, [run.seen EXCEPT !.status = "FAILED"])
     \/ MayFail("failed") /\ UNCHANGED catalog
  /\ EndRun("raised")
  /\ UNCHANGED <<req, durable, del, stores, attempts, deleting, restarts>>

Rollback ==
  \/ RollbackIndexes
  \/ \E c \in Chunks : RollbackEmbedding(c) \/ RollbackChunk(c)
  \/ ReadForFailState \/ FailIndexingState \/ ReadForFailed \/ MarkFailed

RunStep ==
  \/ ValidateBeforeIndexing \/ ReadForIngesting \/ MarkIngesting
  \/ StartIndexingState \/ Ingest \/ PersistChunks \/ EmbedChunks
  \/ PersistEmbeddings \/ VectorAdd \/ LexicalAdd
  \/ ReadForReady \/ MarkReady \/ ReadForComplete \/ CompleteIndexingState
  \/ Rollback

-----------------------------------------------------------------------------
(* delete_document.                                                        *)

DelGoto(x, pc) == del' = [del EXCEPT ![x].pc = pc]

\* The call returns or raises; nothing is undone.
EndDelete(x) == del' = [del EXCEPT ![x] = NoDelete]

\* DELETE /admin/documents/{id} reaches its thread.
DeleteRequest(x, d, p) ==
  /\ del[x].pc = "idle"
  /\ LoopIsFree
  /\ catalog[d].status # "unregistered"
  /\ del' = [del EXCEPT ![x] = [NoDelete EXCEPT !.pc = "lookup", !.doc = d, !.by = p]]
  /\ UNCHANGED <<catalogVars, durable, run, stores, history>>

\* get or get_for_owner: any status may be deleted, also INGESTING.
LookUpForDelete(x) ==
  /\ del[x].pc = "lookup"
  /\ IF Visible(del[x].doc, del[x].by)
       THEN DelGoto(x, "list") /\ deleting' = deleting \cup {del[x].doc}
       ELSE EndDelete(x) /\ UNCHANGED deleting
  /\ UNCHANGED <<catalogVars, durable, run, stores, attempts, outcome, restarts>>

\* _chunk_ids_for_document: from the rows, or from BM25 without a database.
ListChunkIds(x) ==
  /\ del[x].pc = "list"
  /\ del' = [del EXCEPT ![x].pc = "runtime",
                        ![x].ids = ChunksOf(del[x].doc) \cap
                                     (IF durable THEN chunkRows ELSE lexicalIndex)]
  /\ UNCHANGED <<catalogVars, durable, run, stores, history>>

\* _remove_runtime_indexes: the ids found in the indexes join the listed ones.
RemoveRuntimeIndexes(x) ==
  LET mine == ChunksOf(del[x].doc)
      ids  == del[x].ids \cup (mine \cap (vectorIndex \cup lexicalIndex)) IN
  /\ del[x].pc = "runtime"
  /\ vectorIndex' = vectorIndex \ mine
  /\ lexicalIndex' = lexicalIndex \ mine
  /\ del' = [del EXCEPT ![x].pc = IF durable /\ ids # {} THEN "embeddings" ELSE "states",
                        ![x].ids = ids, ![x].todo = ids]
  /\ UNCHANGED <<catalogVars, durable, run, stateRow, chunkRows, chunkOwner,
                 embeddingRows, history>>

\* Another thread is changing the dictionaries remove_document iterates over.
IndexesContended(x) ==
  \/ run.pc \in {"vector", "lexical", "undo_runtime"}
  \/ \E y \in Deleters \ {x} : del[y].pc = "runtime"

\* remove_document looks before it deletes and iterates without a lock: under
\* contention it may raise KeyError or RuntimeError half way.
RemoveRuntimeIndexesRaises(x) ==
  /\ del[x].pc = "runtime"
  /\ IndexesContended(x)
  /\ \E gone \in SUBSET ChunksOf(del[x].doc) :
       \/ vectorIndex' = vectorIndex \ gone /\ UNCHANGED lexicalIndex
       \/ /\ vectorIndex' = vectorIndex \ ChunksOf(del[x].doc)
          /\ lexicalIndex' = lexicalIndex \ gone
  /\ EndDelete(x)
  /\ UNCHANGED <<catalogVars, durable, run, stateRow, chunkRows, chunkOwner,
                 embeddingRows, history>>

\* _remove_persisted_records, first loop: one transaction per chunk.
RemoveEmbedding(x, c) ==
  /\ del[x].pc = "embeddings" /\ c \in del[x].todo
  /\ embeddingRows' = embeddingRows \ {c}
  /\ del' = [del EXCEPT ![x] = NextId(@, c, "chunks")]
  /\ UNCHANGED <<catalogVars, durable, run, stateRow, chunkRows, chunkOwner,
                 vectorIndex, lexicalIndex, history>>

\* _remove_persisted_records, second loop.
RemoveChunk(x, c) ==
  /\ del[x].pc = "chunks" /\ c \in del[x].todo
  /\ chunkRows' = chunkRows \ {c}
  /\ embeddingRows' = embeddingRows \ {c}
  /\ del' = [del EXCEPT ![x] = NextId(@, c, "states")]
  /\ UNCHANGED <<catalogVars, durable, run, stateRow, chunkOwner, vectorIndex,
                 lexicalIndex, history>>

\* _remove_indexing_states: there is at most one (AtMostOneAttempt).
RemoveIndexingStates(x) ==
  /\ del[x].pc = "states"
  /\ stateRow' = [stateRow EXCEPT ![del[x].doc] = "none"]
  /\ DelGoto(x, "entry")
  /\ UNCHANGED <<catalogVars, durable, run, chunkRows, chunkOwner, embeddingRows,
                 vectorIndex, lexicalIndex, history>>

\* CatalogService.remove or remove_for_owner, its read.
RequireEntryForRemove(x) ==
  /\ del[x].pc = "entry"
  /\ IF Visible(del[x].doc, del[x].by) THEN DelGoto(x, "remove") ELSE EndDelete(x)
  /\ UNCHANGED <<catalogVars, durable, run, stores, history>>

\* Foreign keys without ON DELETE CASCADE, left unchecked.
RemoveWithoutCascade(x) ==
  /\ del[x].pc = "remove"
  /\ RemoveRow(del[x].doc)
  /\ EndDelete(x)
  /\ UNCHANGED <<req, durable, run, stores, history>>

\* repository.remove; in the database ON DELETE CASCADE takes the rows that
\* refer to the document.
RemoveFromCatalog(x) ==
  LET d == del[x].doc IN
  /\ del[x].pc = "remove"
  /\ RemoveRow(d)
  /\ IF durable
       THEN /\ chunkRows' = chunkRows \ ChunksOf(d)
            /\ embeddingRows' = embeddingRows \ ChunksOf(d)
            /\ stateRow' = [stateRow EXCEPT ![d] = "none"]
       ELSE UNCHANGED <<chunkRows, embeddingRows, stateRow>>
  /\ EndDelete(x)
  /\ UNCHANGED <<req, durable, run, chunkOwner, vectorIndex, lexicalIndex, history>>

\* A database call of delete_document fails: nothing is rolled back.
DeleteFails(x) ==
  /\ MayFail("delete")
  /\ del[x].pc \notin {"idle", "runtime"}
  /\ EndDelete(x)
  /\ UNCHANGED <<catalogVars, durable, run, stores, history>>

DeleteStep(x) ==
  \/ LookUpForDelete(x) \/ ListChunkIds(x)
  \/ RemoveRuntimeIndexes(x) \/ RemoveRuntimeIndexesRaises(x)
  \/ \E c \in Chunks : RemoveEmbedding(x, c) \/ RemoveChunk(x, c)
  \/ RemoveIndexingStates(x) \/ RequireEntryForRemove(x) \/ RemoveFromCatalog(x)
  \/ DeleteFails(x)

-----------------------------------------------------------------------------
(* The process.                                                            *)

\* A crash and the start of a new process on the same database: calls in
\* progress and both indexes are gone.  Nothing resumes an indexing run.
Restart ==
  /\ durable
  /\ restarts < MaxRestarts
  /\ restarts' = restarts + 1
  /\ req' = [t \in Threads |-> Idle]
  /\ run' = NoRun
  /\ del' = [x \in Deleters |-> NoDelete]
  /\ vectorIndex' = {} /\ lexicalIndex' = {}
  /\ outcome' = [d \in Docs |-> IF outcome[d] = "running" THEN "crashed" ELSE outcome[d]]
  /\ UNCHANGED <<catalog, durable, stateRow, chunkRows, chunkOwner, embeddingRows,
                 attempts, deleting>>

\* The catalog requests of module Catalog.
AdminStep ==
  /\ \/ \E d \in Docs, p \in Principals : CreateDocument(d, p)
     \/ /\ LoopIsFree
        /\ \E t \in Threads, op \in AdminOps, d \in Docs, p \in Principals,
              n \in ChunkCounts \cup {0} : Dispatch(t, op, d, p, n)
     \/ \E t \in Threads : Serve(t)
  /\ UNCHANGED <<durable, run, del, stores, history>>

IndexingNext ==
  \/ AdminStep
  \/ \E d \in Docs, p \in Principals :
       IndexRequest(d, p) \/ \E x \in Deleters : DeleteRequest(x, d, p)
  \/ RunStep
  \/ \E x \in Deleters : DeleteStep(x)
  \/ Restart

IndexingSafety == IndexingInit /\ [][IndexingNext]_vars

\* The event loop finishes the synchronous call it is in, and the operating
\* system schedules the pool threads.  Clients and crashes are not obliged.
IndexingSpec ==
  /\ IndexingSafety
  /\ WF_vars(RunStep)
  /\ \A x \in Deleters : WF_vars(DeleteStep(x))

-----------------------------------------------------------------------------
(* Properties.                                                             *)

RunPcs == {"idle", "check", "claim_read", "claim", "start", "ingest", "chunks",
           "embed", "embeddings", "vector", "lexical", "ready_read", "ready",
           "complete_read", "complete", "undo_runtime", "undo_embeddings",
           "undo_chunks", "fail_read", "fail_state", "failed_read", "failed"}
DelPcs == {"idle", "lookup", "list", "runtime", "embeddings", "chunks",
           "states", "entry", "remove"}

IndexingTypeOK ==
  /\ CatalogTypeOK
  /\ durable \in BOOLEAN
  /\ run \in [pc : RunPcs, doc : Docs, by : Owners, seen : Row,
              ids : SUBSET Chunks, todo : SUBSET Chunks]
  /\ del \in [Deleters -> [pc : DelPcs, doc : Docs, by : Owners,
                           ids : SUBSET Chunks, todo : SUBSET Chunks]]
  /\ stateRow \in [Docs -> {"none", "STARTED", "SUCCEEDED", "FAILED"}]
  /\ chunkRows \subseteq Chunks
  /\ chunkOwner \in [Docs -> Owners]
  /\ embeddingRows \subseteq Chunks
  /\ vectorIndex \subseteq Chunks
  /\ lexicalIndex \subseteq Chunks
  /\ attempts \in [Docs -> Nat]
  /\ outcome \in [Docs -> {"none", "running", "returned", "raised", "escaped", "crashed"}]
  /\ deleting \subseteq Docs
  /\ restarts \in Nat

\* A document is taken into indexing at most once, whatever overlaps and
\* whatever crashes: no second attempt meets the leftovers of a first one.
AtMostOneAttempt == \A d \in Docs : attempts[d] <= 1

\* A run that failed leaves none of its chunks, rows or index entries,
\* wherever it failed and whatever ran beside it, unless the rollback itself
\* failed: also when the exception escapes before the try block, or from the
\* failure handler before the document is marked FAILED.
FailedRunLeavesNothing ==
  "undo" \notin Failures =>
    \A d \in Docs : outcome[d] \in {"raised", "escaped"} =>
      ChunksOf(d) \cap (chunkRows \cup embeddingRows \cup vectorIndex \cup lexicalIndex) = {}

\* A run that returned left every chunk and embedding row, both indexes (until
\* a restart empties them) and a SUCCEEDED state, until a delete takes them.
ReturnedRunIsComplete ==
  \A d \in Docs : outcome[d] = "returned" /\ d \notin deleting =>
    /\ durable => ChunksOf(d) \subseteq chunkRows \cap embeddingRows
    /\ restarts = 0 => ChunksOf(d) \subseteq vectorIndex \cap lexicalIndex
    /\ stateRow[d] = "SUCCEEDED"

\* Once the catalog row is gone nothing in the database refers to the document
\* any more, also when a run was storing chunks while the delete went through.
RemovedLeavesNoRows ==
  durable => \A d \in Docs : catalog[d].status = "removed" =>
    /\ ChunksOf(d) \cap (chunkRows \cup embeddingRows) = {}
    /\ stateRow[d] = "none"

\* A READY document is wholly retrievable and counts its chunks.
ReadyMeansComplete ==
  durable => \A d \in Docs : catalog[d].status = "READY" /\ d \notin deleting =>
    /\ ChunksOf(d) \subseteq chunkRows \cap embeddingRows
    /\ catalog[d].chunks = Cardinality(Pieces)

\* docs/ingestion-pipeline.md line 60: if indexing fails after the document
\* enters INGESTING, the catalog entry is marked FAILED (and may then become
\* DELETED).  A document that is being deleted meanwhile is left out.
FailureMarksDocument ==
  \A d \in Docs : outcome[d] \in {"raised", "escaped"} /\ d \notin deleting =>
    catalog[d].status \in {"FAILED", "DELETED"}

\* service.py line 87: delete_document removes catalog metadata and associated
\* retrieval/index records.
DeletionIsTotal ==
  \A d \in Docs : catalog[d].status = "removed" /\ LoopIsFree =>
    ChunksOf(d) \cap (vectorIndex \cup lexicalIndex) = {}

\* No document stays INGESTING: the run that put it there ends it.
IngestingEnds ==
  \A d \in Docs : catalog[d].status = "INGESTING" ~> catalog[d].status # "INGESTING"

=============================================================================
