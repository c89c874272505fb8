---------------------------- MODULE AskMeProofs ----------------------------
(***************************************************************************)
(* Proofs about AskMe, for any users, documents, chunks, threads and       *)
(* failures: a question sees the documents of its user only, cites nothing *)
(* that was gone when it was asked, and its answer is grounded; and rows   *)
(* of the catalog keep their owners and stay removed beside runs, deletes  *)
(* and crashes.  They rest on the invariants of the catalog and indexing.  *)
(***************************************************************************)
EXTENDS AskMe, CatalogProofs, IndexingProofs, SequenceTheorems

\* The chunks a question knows of.
Known(q) == Range(q.semantic) \cup Range(q.lexical) \cup Range(q.hits) \cup q.answer

Registered(d) == catalog[d].status # "unregistered"

\* The index_pdf call acts for the owner of its document, or for nobody, and
\* a copy of the row that it is about to write back has the owner still.
OwnedRun ==
  /\ run.pc \notin {"idle", "check"} => run.by \in {NoUser, catalog[run.doc].owner}
  /\ run.pc \in {"claim", "ready", "failed"} => run.seen.owner = catalog[run.doc].owner

\* The owner column of the chunk rows is the catalog's, or empty.
OwnedRows ==
  \A d \in Docs : chunkOwner[d] # NoUser => /\ Registered(d)
                                            /\ chunkOwner[d] = catalog[d].owner

\* Everything that feeds the filter of the query path.
OwnershipInv == CatalogInv /\ IndexingInv /\ OwnedRun /\ OwnedRows

\* What a step may do to the catalog while questions are in progress.
CatalogKeeps ==
  \A d \in Docs : /\ Registered(d) => /\ Registered(d)'
                                      /\ catalog'[d].owner = catalog[d].owner
                  /\ catalog[d].status = "removed" => catalog'[d].status = "removed"

-----------------------------------------------------------------------------
(* Ownership, under the steps of indexing.                                 *)

\* A catalog request of module Catalog keeps registrations and owners.
LEMMA RequestsKeep ==
  ASSUME CatalogInv, CatalogNext
  PROVE  CatalogKeeps
<1>1. ASSUME NEW d \in Docs, NEW p \in Principals, CreateDocument(d, p)
      PROVE  CatalogKeeps
  BY <1>1 DEF CreateDocument, AddRow, CatalogInv, CatalogTypeOK, CatalogKeeps, Registered
<1>2. ASSUME NEW t \in Threads, WriteEntry(t)
      PROVE  CatalogKeeps
  BY <1>2, WriteKeepsOwner DEF CatalogKeeps, Registered, Present, Statuses, Lifecycle!Statuses
<1>3. CASE UNCHANGED catalog
  BY <1>3 DEF CatalogKeeps, Registered
<1>4. QED
  BY <1>1, <1>2, <1>3 DEF CatalogNext, Serve, Dispatch, RequireOwner, ReadEntry

\* The requests in flight do not mind a step that keeps owners.
LEMMA InFlightKept ==
  ASSUME InFlightOK, CatalogTypeOK, UNCHANGED req, CatalogKeeps
  PROVE  InFlightOK'
<1>1. \A t \in Threads : req[t].doc \in Docs
  BY DEF CatalogTypeOK, Request
<1>2. \A t \in Threads : req[t].pc \in {"read", "write"} => req[t].pc # "idle"
  OBVIOUS
<1>3. QED
  BY <1>1, <1>2 DEF InFlightOK, CatalogKeeps, Registered

\* So do the run and the rows, when neither changes.
LEMMA OwnedKept ==
  ASSUME IndexingInv, OwnedRun, OwnedRows, CatalogKeeps, UNCHANGED <<run, chunkOwner>>
  PROVE  OwnedRun' /\ OwnedRows'
<1>1. run.doc \in Docs /\ (run.pc # "idle" => Registered(run.doc))
  BY TypeParts DEF IndexingInv, AttemptsOK, RunRecord, Registered
<1>2. OwnedRun'
  BY <1>1 DEF OwnedRun, CatalogKeeps
<1>3. OwnedRows'
  BY DEF OwnedRows, CatalogKeeps
<1>4. QED
  BY <1>2, <1>3

\* index_pdf writes back a row with the owner it read.
LEMMA RunKeeps ==
  ASSUME IndexingInv, OwnedRun, RunStep
  PROVE  CatalogKeeps
<1>1. /\ catalog \in [Docs -> Row] /\ run.doc \in Docs /\ run.seen \in Row
      /\ IndexingTypeOK
  BY TypeParts DEF RunRecord, IndexingInv
<1>2. \A d \in Docs : catalog'[d] # catalog[d] =>
        /\ d = run.doc /\ Present(d) /\ run.pc \in {"claim", "ready", "failed"}
        /\ catalog'[d].status \in {"INGESTING", "READY", "FAILED"}
  BY <1>1, RunFrame
<1>3. run.pc \in {"claim", "ready", "failed"} /\ catalog' # catalog
        => MarkIngesting \/ MarkReady \/ MarkFailed
  BY DEF RunStep, Rollback, catalogVars, ValidateBeforeIndexing,
      ReadForIngesting, StartIndexingState, Ingest, PersistChunks, EmbedChunks,
      PersistEmbeddings, VectorAdd, LexicalAdd, ReadForReady, ReadForComplete,
      CompleteIndexingState, RollbackIndexes, RollbackEmbedding, RollbackChunk,
      ReadForFailState, FailIndexingState, ReadForFailed
<1>4. ASSUME MarkIngesting \/ MarkReady \/ MarkFailed
      PROVE  catalog'[run.doc].owner = catalog[run.doc].owner
  <2>1. run.seen.owner = catalog[run.doc].owner
    BY <1>4 DEF OwnedRun, MarkIngesting, MarkReady, MarkFailed
  <2>2. ASSUME NEW row, row.owner = run.seen.owner, UpdateRow(run.doc, row)
        PROVE  catalog'[run.doc].owner = catalog[run.doc].owner
    BY <1>1, <2>1, <2>2 DEF UpdateRow
  <2>3. CASE MarkIngesting
    <3>1. [run.seen EXCEPT !.status = "INGESTING"].owner = run.seen.owner
      BY <1>1 DEF Row
    <3>2. QED
      BY <2>2, <2>3, <3>1 DEF MarkIngesting
  <2>4. CASE MarkReady
    <3>1. [run.seen EXCEPT !.status = "READY",
                           !.chunks = Cardinality(Pieces)].owner = run.seen.owner
      BY <1>1 DEF Row
    <3>2. QED
      BY <2>2, <2>4, <3>1 DEF MarkReady
  <2>5. CASE MarkFailed
    <3>1. [run.seen EXCEPT !.status = "FAILED"].owner = run.seen.owner
      BY <1>1 DEF Row
    <3>2. QED
      BY <2>2, <2>5, <3>1 DEF MarkFailed
  <2>6. QED
    BY <1>4, <2>3, <2>4, <2>5
<1>5. QED
  BY <1>2, <1>3, <1>4 DEF CatalogKeeps, Registered, Present, Statuses, Lifecycle!Statuses

\* The call goes on with the user it was made for; what it reads is the row.
LEMMA RunOwnership ==
  ASSUME IndexingInv, OwnedRun, RunStep
  PROVE  \/ run' = NoRun
         \/ /\ run'.doc = run.doc /\ run'.by = run.by
            /\ run'.pc # "idle"
            /\ run.pc = "check" => Visible(run.doc, run.by)
            /\ run'.pc \in {"claim", "ready", "failed"}
                 => run'.seen = catalog[run.doc]
<1>1. run \in RunRecord /\ IndexingTypeOK
  BY TypeParts DEF IndexingInv
<1>2. \A pc \in RunPcs : Goto(pc) => /\ run'.doc = run.doc /\ run'.by = run.by
                                     /\ run'.pc = pc
  BY <1>1 DEF Goto, RunRecord
<1>3. Handle => /\ run'.doc = run.doc /\ run'.by = run.by /\ run'.pc = "undo_runtime"
  BY <1>1 DEF Handle, RunRecord
<1>4. \A pc \in RunPcs : \A row : run' = [run EXCEPT !.pc = pc, !.seen = row] =>
        /\ run'.doc = run.doc /\ run'.by = run.by /\ run'.pc = pc /\ run'.seen = row
  BY <1>1 DEF RunRecord
<1>5. \A pc \in RunPcs : \A ids : run' = [run EXCEPT !.pc = pc, !.ids = ids] =>
        /\ run'.doc = run.doc /\ run'.by = run.by /\ run'.pc = pc
  BY <1>1 DEF RunRecord
<1>6. \A pc \in RunPcs : \A ids : run' = [run EXCEPT !.pc = pc, !.todo = ids] =>
        /\ run'.doc = run.doc /\ run'.by = run.by /\ run'.pc = pc
  BY <1>1 DEF RunRecord
<1>7. \A pc \in RunPcs : \A c : run' = NextId(run, c, pc) =>
        /\ run'.doc = run.doc /\ run'.by = run.by /\ run'.pc \in {pc, run.pc}
  BY <1>1 DEF RunRecord, NextId
<1>8. CASE ValidateBeforeIndexing
  BY <1>2, <1>8 DEF ValidateBeforeIndexing, RunPcs
<1>9. CASE ReadForIngesting \/ ReadForReady \/ ReadForFailed
  <2>1. \/ run' = NoRun
        \/ Handle
        \/ \E pc \in {"claim", "ready", "failed"} :
             run' = [run EXCEPT !.pc = pc, !.seen = catalog[run.doc]]
    BY <1>9 DEF ReadForIngesting, ReadForReady, ReadForFailed, EndRun
  <2>2. run.pc # "check"
    BY <1>9 DEF ReadForIngesting, ReadForReady, ReadForFailed
  <2>3. QED
    BY <1>3, <1>4, <2>1, <2>2 DEF RunPcs
<1>10. CASE MarkIngesting \/ StartIndexingState \/ ReadForComplete \/ CompleteIndexingState
              \/ ReadForFailState \/ FailIndexingState \/ MarkFailed
  BY <1>2, <1>3, <1>10 DEF MarkIngesting, StartIndexingState, ReadForComplete,
     CompleteIndexingState, ReadForFailState, FailIndexingState, MarkFailed, EndRun, RunPcs
<1>11. CASE PersistChunks \/ EmbedChunks \/ PersistEmbeddings \/ VectorAdd \/ LexicalAdd
              \/ MarkReady
  BY <1>2, <1>3, <1>11 DEF PersistChunks, EmbedChunks, PersistEmbeddings, VectorAdd,
     LexicalAdd, MarkReady, RunPcs
<1>12. CASE Ingest
  BY <1>3, <1>5, <1>12 DEF Ingest, RunPcs
<1>13. CASE RollbackIndexes
  BY <1>6, <1>13 DEF RollbackIndexes, RunPcs
<1>14. ASSUME NEW c \in Chunks, RollbackEmbedding(c) \/ RollbackChunk(c)
       PROVE  /\ run'.doc = run.doc /\ run'.by = run.by /\ run.pc # "check"
              /\ run'.pc \in {"undo_embeddings", "undo_chunks", "fail_read"}
  BY <1>7, <1>14 DEF RollbackEmbedding, RollbackChunk, RunPcs
<1>15. QED
  BY <1>8, <1>9, <1>10, <1>11, <1>12, <1>13, <1>14 DEF RunStep, Rollback

\* The owner a run acts for is its document's, from the check to the end.
LEMMA RunKeepsOwnership ==
  ASSUME IndexingInv, OwnedRun, OwnedRows, RunStep
  PROVE  OwnedRun' /\ OwnedRows'
<1>1. /\ run.doc \in Docs /\ run.by \in Owners /\ run.pc # "idle" /\ Registered(run.doc)
      /\ chunkOwner \in [Docs -> Owners]
  <2>1. run.pc # "idle"
    BY DEF RunStep, Rollback, ValidateBeforeIndexing, ReadForIngesting, MarkIngesting,
      StartIndexingState, Ingest, PersistChunks, EmbedChunks, PersistEmbeddings, VectorAdd,
      LexicalAdd, ReadForReady, MarkReady, ReadForComplete, CompleteIndexingState,
      RollbackIndexes, RollbackEmbedding, RollbackChunk, ReadForFailState,
      FailIndexingState, ReadForFailed, MarkFailed
  <2>2. QED
    BY <2>1, TypeParts DEF IndexingInv, AttemptsOK, RunRecord, Registered, StoreTypes
<1>2. CatalogKeeps
  BY RunKeeps
<1>3. run.by \in {NoUser, catalog[run.doc].owner} \/ run' = NoRun \/ run.pc = "check"
  BY <1>1 DEF OwnedRun
<1>4. run.pc = "check" => run' = NoRun \/ run.by \in {NoUser, catalog[run.doc].owner}
  BY RunOwnership DEF Visible
<1>5. OwnedRun'
  <2>1. CASE run' = NoRun
    BY <2>1 DEF NoRun, OwnedRun
  <2>2. CASE run' # NoRun
    <3>1. run'.doc = run.doc /\ run'.by = run.by
          /\ (run'.pc \in {"claim", "ready", "failed"} => run'.seen = catalog[run.doc])
      BY <2>2, RunOwnership
    <3>2. catalog'[run.doc].owner = catalog[run.doc].owner
      BY <1>1, <1>2 DEF CatalogKeeps
    <3>3. QED
      BY <1>3, <1>4, <2>2, <3>1, <3>2 DEF OwnedRun
  <2>3. QED
    BY <2>1, <2>2
<1>6. \/ chunkOwner' = chunkOwner
      \/ /\ run.pc = "chunks"
         /\ chunkOwner' = [chunkOwner EXCEPT ![run.doc] = run.by]
  BY DEF RunStep, Rollback, stores, ValidateBeforeIndexing, ReadForIngesting, MarkIngesting,
      StartIndexingState, Ingest, PersistChunks, EmbedChunks, PersistEmbeddings, VectorAdd,
      LexicalAdd, ReadForReady, MarkReady, ReadForComplete, CompleteIndexingState,
      RollbackIndexes, RollbackEmbedding, RollbackChunk, ReadForFailState,
      FailIndexingState, ReadForFailed, MarkFailed
<1>7. OwnedRows'
  <2>1. CASE chunkOwner' = chunkOwner
    BY <1>2, <2>1 DEF OwnedRows, CatalogKeeps
  <2>2. CASE /\ run.pc = "chunks"
             /\ chunkOwner' = [chunkOwner EXCEPT ![run.doc] = run.by]
    <3>1. run.by \in {NoUser, catalog[run.doc].owner}
      BY <2>2 DEF OwnedRun
    <3>2. QED
      BY <1>1, <1>2, <2>2, <3>1 DEF OwnedRows, CatalogKeeps
  <2>3. QED
    BY <1>6, <2>1, <2>2
<1>8. QED
  BY <1>5, <1>7

\* delete_document leaves the row its owner, as a removed one.
LEMMA DeleteKeeps ==
  ASSUME IndexingTypeOK, NEW x \in Deleters, DeleteStep(x)
  PROVE  CatalogKeeps
<1>1. catalog \in [Docs -> Row] /\ del[x].doc \in Docs
  BY TypeParts DEF DeleteRecord
<1>2. CASE RemoveFromCatalog(x)
  BY <1>1, <1>2 DEF RemoveFromCatalog, RemoveRow, Row, CatalogKeeps, Registered,
                    Present, Statuses, Lifecycle!Statuses
<1>3. CASE ~RemoveFromCatalog(x)
  <2>1. catalog' = catalog
    BY <1>3 DEF DeleteStep, LookUpForDelete, ListChunkIds, RemoveRuntimeIndexes,
       RemoveRuntimeIndexesRaises, RemoveEmbedding, RemoveChunk, RemoveIndexingStates,
       RequireEntryForRemove, DeleteFails, catalogVars
  <2>2. QED
    BY <2>1 DEF CatalogKeeps, Registered
<1>4. QED
  BY <1>2, <1>3

\* Every step of the process keeps registrations, owners and removals, and
\* what the query path's filter reads stays right.
LEMMA OwnershipStep ==
  ASSUME OwnershipInv, [IndexingNext]_vars
  PROVE  OwnershipInv' /\ CatalogKeeps
<1>1. IndexingInv' /\ CatalogTypeOK' /\ IndexingTypeOK
  BY IndexingStep DEF OwnershipInv, IndexingInv, IndexingTypeOK
<1>2. ASSUME CatalogKeeps, InFlightOK', OwnedRun', OwnedRows'
      PROVE  OwnershipInv' /\ CatalogKeeps
  BY <1>1, <1>2 DEF OwnershipInv, CatalogInv
<1>3. ASSUME UNCHANGED <<req, run, chunkOwner>>, CatalogKeeps
      PROVE  OwnershipInv' /\ CatalogKeeps
  BY <1>2, <1>3, InFlightKept, OwnedKept DEF OwnershipInv, CatalogInv
<1>4. catalog' = catalog => CatalogKeeps
  BY DEF CatalogKeeps, Registered
<1>5. CASE AdminStep
  <2>1. CatalogNext /\ UNCHANGED <<run, chunkOwner>>
    BY <1>5 DEF AdminStep, CatalogNext, stores
  <2>2. CatalogKeeps /\ InFlightOK'
    BY <2>1, RequestsKeep, CatalogStepInv DEF OwnershipInv, CatalogInv
  <2>3. QED
    BY <1>2, <2>1, <2>2, OwnedKept DEF OwnershipInv
<1>6. ASSUME NEW d \in Docs, NEW p \in Principals, IndexRequest(d, p)
      PROVE  OwnershipInv' /\ CatalogKeeps
  <2>1. catalog' = catalog /\ req' = req /\ chunkOwner' = chunkOwner
    BY <1>6 DEF IndexRequest, catalogVars, stores
  <2>2. run' = [NoRun EXCEPT !.pc = "check", !.doc = d, !.by = p]
    BY <1>6 DEF IndexRequest
  <2>3. OwnedRun'
    BY <2>2 DEF NoRun, OwnedRun
  <2>4. OwnedRows' /\ InFlightOK'
    BY <2>1 DEF OwnershipInv, CatalogInv, OwnedRows, InFlightOK, Registered
  <2>5. QED
    BY <1>2, <1>4, <2>1, <2>3, <2>4
<1>7. ASSUME NEW x \in Deleters, NEW d \in Docs, NEW p \in Principals, DeleteRequest(x, d, p)
      PROVE  OwnershipInv' /\ CatalogKeeps
  BY <1>3, <1>4, <1>7 DEF DeleteRequest, catalogVars, stores
<1>8. CASE RunStep
  <2>1. CatalogKeeps
    BY <1>8, RunKeeps DEF OwnershipInv
  <2>2. UNCHANGED req
    BY <1>1, <1>8, RunFrame
  <2>3. InFlightOK'
    BY <2>1, <2>2, InFlightKept DEF OwnershipInv, CatalogInv
  <2>4. QED
    BY <1>2, <1>8, <2>1, <2>3, RunKeepsOwnership DEF OwnershipInv
<1>9. ASSUME NEW x \in Deleters, DeleteStep(x)
      PROVE  OwnershipInv' /\ CatalogKeeps
  BY <1>1, <1>3, <1>9, DeleteKeeps, DeleteFrame
<1>10. CASE Restart
  <2>1. catalog' = catalog /\ chunkOwner' = chunkOwner
    BY <1>10 DEF Restart
  <2>2. run' = NoRun /\ req' = [t \in Threads |-> Idle]
    BY <1>10 DEF Restart
  <2>3. OwnedRun'
    BY <2>2 DEF NoRun, OwnedRun
  <2>4. InFlightOK'
    BY <2>2 DEF InFlightOK, Idle
  <2>5. OwnedRows'
    BY <2>1 DEF OwnershipInv, OwnedRows, Registered
  <2>6. QED
    BY <1>2, <1>4, <2>1, <2>3, <2>4, <2>5
<1>11. CASE UNCHANGED vars
  BY <1>3, <1>4, <1>11 DEF vars, catalogVars, stores
<1>12. QED
  BY <1>5, <1>6, <1>7, <1>8, <1>9, <1>10, <1>11 DEF IndexingNext

-----------------------------------------------------------------------------
(* Rows of the catalog, whoever works on them.                             *)

\* A delete that found its document acts for the owner, or for nobody.
OwnedDeletes ==
  \A x \in Deleters : del[x].pc \notin {"idle", "lookup"} =>
    /\ Registered(del[x].doc)
    /\ del[x].by \in {NoUser, catalog[del[x].doc].owner}

\* A call that is about to write the row of d was made by its owner, or where
\* authentication is off.
OwnerActs(d) ==
  LET allowed == {NoUser, catalog[d].owner} IN
  \/ \E t \in Threads : req[t].pc = "write" /\ req[t].doc = d /\ req[t].by \in allowed
  \/ run.pc \in {"claim", "ready", "failed"} /\ run.doc = d /\ run.by \in allowed
  \/ \E x \in Deleters : del[x].pc = "remove" /\ del[x].doc = d /\ del[x].by \in allowed

\* Owner isolation of the catalog, beside runs and deletes: requests, runs and
\* deletes check the owner transactions before they write
\* (catalog/service.py:190, indexing/service.py:91, 131, 171).
OnlyOwnersAct ==
  [][\A d \in Docs : Registered(d) /\ catalog'[d] # catalog[d] => OwnerActs(d)]_vars

\* A step of the system changes a row only if it is not there yet or present.
LEMMA RemovedRowStays ==
  ASSUME OwnershipInv, [IndexingNext]_vars, NEW d \in Docs, catalog[d].status = "removed"
  PROVE  catalog'[d] = catalog[d]
<1>1. IndexingTypeOK /\ RequestsOK /\ ~Present(d) /\ catalog[d].status # "unregistered"
  BY DEF OwnershipInv, IndexingInv, Present, Statuses, Lifecycle!Statuses
<1>2. CASE AdminStep
  BY <1>1, <1>2, AdminFrame
<1>3. CASE RunStep
  BY <1>1, <1>3, RunFrame
<1>4. ASSUME NEW x \in Deleters, DeleteStep(x)
      PROVE  catalog'[d] = catalog[d]
  BY <1>1, <1>4, DeleteFrame
<1>5. CASE UNCHANGED catalog
  BY <1>5
<1>6. QED
  BY <1>2, <1>3, <1>4, <1>5
     DEF IndexingNext, IndexRequest, DeleteRequest, Restart, vars, catalogVars

\* What a delete looked up keeps its owner until it has ended.
LEMMA OwnedDeletesStep ==
  ASSUME OwnershipInv, OwnedDeletes, [IndexingNext]_vars
  PROVE  OwnedDeletes'
<1>1. /\ CatalogKeeps
      /\ IndexingTypeOK /\ RequestsOK
      /\ del \in [Deleters -> DeleteRecord]
      /\ \A x \in Deleters : del[x].doc \in Docs
  BY OwnershipStep, TypeParts DEF OwnershipInv, IndexingInv, DeleteRecord
<1> DEFINE Owned(x) == del[x].pc \notin {"idle", "lookup"} =>
                         /\ Registered(del[x].doc)
                         /\ del[x].by \in {NoUser, catalog[del[x].doc].owner}
<1>2. ASSUME NEW x \in Deleters,
             \/ del'[x].pc \in {"idle", "lookup"}
             \/ /\ del'[x].doc = del[x].doc /\ del'[x].by = del[x].by
                /\ \/ del[x].pc \notin {"idle", "lookup"}
                   \/ Visible(del[x].doc, del[x].by)
      PROVE  Owned(x)'
  BY <1>1, <1>2 DEF OwnedDeletes, CatalogKeeps, Registered, Visible, Present, Statuses,
     Lifecycle!Statuses
<1>3. CASE del' = del
  <2>1. \A x \in Deleters : Owned(x)'
    BY <1>2, <1>3
  <2>2. QED
    BY <2>1 DEF OwnedDeletes
<1>4. ASSUME NEW d \in Docs, NEW p \in Principals, NEW y \in Deleters, DeleteRequest(y, d, p)
      PROVE  OwnedDeletes'
  <2>1. del'[y].pc = "lookup" /\ \A x \in Deleters \ {y} : del'[x] = del[x]
    BY <1>1, <1>4 DEF DeleteRequest, NoDelete
  <2>2. \A x \in Deleters : Owned(x)'
    BY <1>2, <2>1
  <2>3. QED
    BY <2>2 DEF OwnedDeletes
<1>5. ASSUME NEW y \in Deleters, DeleteStep(y)
      PROVE  OwnedDeletes'
  <2>0. NoDelete.pc = "idle"
    BY DEF NoDelete
  <2>1. \/ del'[y].pc = "idle"
        \/ /\ del'[y].doc = del[y].doc /\ del'[y].by = del[y].by
           /\ del[y].pc \notin {"idle", "lookup"} \/ Visible(del[y].doc, del[y].by)
    <3>1. CASE LookUpForDelete(y) \/ RequireEntryForRemove(y) \/ RemoveIndexingStates(y)
      BY <1>1, <2>0, <3>1 DEF LookUpForDelete, RequireEntryForRemove, RemoveIndexingStates,
         DelGoto, EndDelete, DeleteRecord
    <3>2. CASE ListChunkIds(y) \/ RemoveRuntimeIndexes(y)
      <4>1. \/ del[y].pc = "list" /\ \E ids : del' = [del EXCEPT ![y].pc = "runtime", ![y].ids = ids]
            \/ /\ del[y].pc = "runtime"
               /\ \E pc, ids : del' = [del EXCEPT ![y].pc = pc, ![y].ids = ids, ![y].todo = ids]
        <5>1. CASE ListChunkIds(y)
          BY <5>1, Zenon DEF ListChunkIds
        <5>2. CASE RemoveRuntimeIndexes(y)
          BY <5>2, Zenon DEF RemoveRuntimeIndexes
        <5> QED
          BY <3>2, <5>1, <5>2
      <4>2. del'[y].doc = del[y].doc /\ del'[y].by = del[y].by
        <5>1. y \in DOMAIN del /\ DOMAIN del[y] = {"pc", "doc", "by", "ids", "todo"}
          BY <1>1 DEF DeleteRecord
        <5>2. ASSUME NEW ids, del' = [del EXCEPT ![y].pc = "runtime", ![y].ids = ids]
              PROVE  del'[y].doc = del[y].doc /\ del'[y].by = del[y].by
          BY <5>1, <5>2
        <5>3. ASSUME NEW pc, NEW ids, del' = [del EXCEPT ![y].pc = pc, ![y].ids = ids, ![y].todo = ids]
              PROVE  del'[y].doc = del[y].doc /\ del'[y].by = del[y].by
          BY <5>1, <5>3
        <5> QED
          BY <4>1, <5>2, <5>3, Zenon
      <4>3. QED
        BY <4>1, <4>2
    <3>3. CASE RemoveRuntimeIndexesRaises(y) \/ RemoveFromCatalog(y) \/ DeleteFails(y)
      BY <1>1, <2>0, <3>3 DEF RemoveRuntimeIndexesRaises, RemoveFromCatalog, DeleteFails,
         EndDelete
    <3>4. ASSUME NEW c \in Chunks, RemoveEmbedding(y, c) \/ RemoveChunk(y, c)
          PROVE  /\ del'[y].doc = del[y].doc /\ del'[y].by = del[y].by
                 /\ del[y].pc \notin {"idle", "lookup"}
      <4>1. /\ del[y].pc \in {"embeddings", "chunks"}
            /\ \E pc : del' = [del EXCEPT ![y] = NextId(@, c, pc)]
        BY <3>4 DEF RemoveEmbedding, RemoveChunk
      <4>2. \A pc : NextId(del[y], c, pc).doc = del[y].doc /\ NextId(del[y], c, pc).by = del[y].by
        BY <1>1 DEF NextId, DeleteRecord
      <4>3. QED
        BY <1>1, <4>1, <4>2
    <3>5. QED
      BY <1>5, <3>1, <3>2, <3>3, <3>4 DEF DeleteStep
  <2>2. \A x \in Deleters \ {y} : del'[x] = del[x]
    BY <1>1, <1>5 DEF DeleteStep, LookUpForDelete, RequireEntryForRemove,
       RemoveIndexingStates, ListChunkIds, RemoveRuntimeIndexes, RemoveRuntimeIndexesRaises,
       RemoveFromCatalog, DeleteFails, RemoveEmbedding, RemoveChunk, DelGoto, EndDelete
  <2>3. \A x \in Deleters : Owned(x)'
    BY <1>2, <2>1, <2>2
  <2>4. QED
    BY <2>3 DEF OwnedDeletes
<1>6. CASE Restart
  BY <1>6 DEF Restart, OwnedDeletes, NoDelete
<1>7. del' = del \/ Restart
        \/ (\E d \in Docs, p \in Principals, y \in Deleters : DeleteRequest(y, d, p))
        \/ (\E y \in Deleters : DeleteStep(y))
  BY <1>1, RunFrame DEF IndexingNext, AdminStep, IndexRequest, vars
<1>8. QED
  BY <1>3, <1>4, <1>5, <1>6, <1>7

\* The invariants of ownership hold of indexing, with or without questions.
LEMMA OwnershipInvariant == IndexingSafety => [](OwnershipInv /\ OwnedDeletes)
<1>1. IndexingInit => OwnershipInv /\ OwnedDeletes
  <2>1. ASSUME IndexingInit PROVE InFlightOK /\ CatalogTypeOK
    BY <2>1, CatalogInitInv DEF IndexingInit, CatalogInv
  <2>2. ASSUME IndexingInit PROVE OwnedRun /\ OwnedRows /\ OwnedDeletes
    BY <2>2 DEF IndexingInit, OwnedRun, OwnedRows, OwnedDeletes, NoRun, NoDelete
  <2>3. QED
    BY <2>1, <2>2, InitEstablishes DEF OwnershipInv, CatalogInv
<1>2. OwnershipInv /\ OwnedDeletes /\ [IndexingNext]_vars => (OwnershipInv /\ OwnedDeletes)'
  BY OwnershipStep, OwnedDeletesStep
<1>3. QED
  BY <1>1, <1>2, PTL DEF IndexingSafety

\* A removed document stays removed and a row keeps its owner also beside
\* runs, which write back rows they read transactions earlier, and crashes.
THEOREM RemovedForGoodBesideRuns == IndexingSafety => RemovalIsFinal
<1> DEFINE A == \A d \in Docs :
                  /\ catalog[d].status = "removed" => catalog'[d] = catalog[d]
                  /\ catalog[d].status # "unregistered"
                       => catalog'[d].owner = catalog[d].owner
<1>1. OwnershipInv /\ [IndexingNext]_vars => [A]_catalogVars
  BY OwnershipStep, RemovedRowStays DEF CatalogKeeps, Registered
<1>2. QED
  BY <1>1, OwnershipInvariant, PTL DEF IndexingSafety, RemovalIsFinal

\* In the whole system, for any overlap of requests, runs, deletes and
\* crashes, a registered document is changed on behalf of its owner only.
THEOREM OwnerIsolationBesideRuns == IndexingSafety => OnlyOwnersAct
<1> DEFINE A == \A d \in Docs : Registered(d) /\ catalog'[d] # catalog[d] => OwnerActs(d)
<1>1. ASSUME OwnershipInv, OwnedDeletes, [IndexingNext]_vars
      PROVE  A
  <2>1. /\ catalog \in [Docs -> Row] /\ req \in [Threads -> Request] /\ IndexingTypeOK
        /\ \A x \in Deleters : del[x].doc \in Docs
    BY <1>1, TypeParts DEF OwnershipInv, IndexingInv, DeleteRecord
  <2>2. ASSUME NEW d \in Docs, NEW p \in Principals, CreateDocument(d, p)
        PROVE  A
    BY <2>1, <2>2 DEF CreateDocument, AddRow, Registered
  <2>3. ASSUME NEW t \in Threads, WriteEntry(t)
        PROVE  A
    <3>1. req[t].pc = "write" /\ req[t].by \in {NoUser, catalog[req[t].doc].owner}
      BY <1>1, <2>3 DEF WriteEntry, OwnershipInv, CatalogInv, InFlightOK
    <3>2. \A d \in Docs : catalog'[d] # catalog[d] => d = req[t].doc
      BY <2>1, <2>3 DEF WriteEntry, UpdateRow, RemoveRow
    <3>3. QED
      BY <3>1, <3>2 DEF OwnerActs
  <2>4. CASE RunStep
    <3>1. \A d \in Docs : catalog'[d] # catalog[d] =>
            d = run.doc /\ run.pc \in {"claim", "ready", "failed"}
      BY <2>1, <2>4, RunFrame
    <3>2. run.pc \in {"claim", "ready", "failed"} => run.by \in {NoUser, catalog[run.doc].owner}
      BY <1>1 DEF OwnershipInv, OwnedRun
    <3>3. QED
      BY <3>1, <3>2 DEF OwnerActs
  <2>5. ASSUME NEW x \in Deleters, RemoveFromCatalog(x)
        PROVE  A
    <3>1. del[x].pc = "remove" /\ del[x].by \in {NoUser, catalog[del[x].doc].owner}
      BY <1>1, <2>5 DEF RemoveFromCatalog, OwnedDeletes
    <3>2. \A d \in Docs : catalog'[d] # catalog[d] => d = del[x].doc
      BY <2>1, <2>5 DEF RemoveFromCatalog, RemoveRow
    <3>3. QED
      BY <3>1, <3>2 DEF OwnerActs
  <2>6. CASE UNCHANGED catalog
    BY <2>6
  <2>7. QED
    BY <1>1, <2>2, <2>3, <2>4, <2>5, <2>6 DEF IndexingNext, AdminStep, Serve, Dispatch,
       RequireOwner, ReadEntry, IndexRequest, DeleteRequest, DeleteStep, LookUpForDelete,
       ListChunkIds, RemoveRuntimeIndexes, RemoveRuntimeIndexesRaises, RemoveEmbedding,
       RemoveChunk, RemoveIndexingStates, RequireEntryForRemove, DeleteFails, Restart,
       vars, catalogVars
<1>2. OwnershipInv /\ OwnedDeletes /\ [IndexingNext]_vars => [A]_vars
  BY <1>1
<1>3. QED
  BY <1>2, OwnershipInvariant, PTL DEF IndexingSafety, OnlyOwnersAct

-----------------------------------------------------------------------------
(* Rankings.                                                               *)

\* A search or a fusion returns members of what it ranked, at most k of them.
LEMMA RankingFacts ==
  ASSUME NEW S, NEW k \in Nat, NEW r \in Rankings(S, k)
  PROVE  r \in Seq(S) /\ Len(r) <= k /\ Range(r) \subseteq S
<1>1. PICK n \in 0..k : r \in [1..n -> S]
  BY DEF Rankings, Injection
<1>2. r \in Seq(S) /\ Len(r) = n
  BY <1>1
<1>3. QED
  BY <1>1, <1>2 DEF Range

\* The cut of a ranking.
LEMMA TopFacts ==
  ASSUME NEW S, NEW r \in Seq(S), NEW k \in Nat
  PROVE  /\ Top(r, k) \in Seq(S)
         /\ Len(Top(r, k)) = IF k < Len(r) THEN k ELSE Len(r)
         /\ \A i \in 1..Len(Top(r, k)) : Top(r, k)[i] = r[i]
         /\ Range(Top(r, k)) \subseteq Range(r)
<1> DEFINE n == IF k < Len(r) THEN k ELSE Len(r)
<1>1. n \in Nat /\ n <= Len(r) /\ \A i \in 1..n : r[i] \in S
  OBVIOUS
<1>2. /\ SubSeq(r, 1, n) \in Seq(S)
      /\ Len(SubSeq(r, 1, n)) = n
      /\ \A i \in 1..n : SubSeq(r, 1, n)[i] = r[i]
  BY <1>1, SubSeqProperties
<1>3. Top(r, k) = SubSeq(r, 1, n)
  BY DEF Top
<1> HIDE DEF n
<1>4. Range(SubSeq(r, 1, n)) \subseteq Range(r)
  BY <1>1, <1>2 DEF Range
<1>5. QED
  BY <1>2, <1>3, <1>4 DEF n

\* The size of an evidence context depends on its blocks only.
LEMMA RenderedTop ==
  ASSUME NEW S, NEW r \in Seq(S), NEW n \in 1..Len(r)
  PROVE  Len(Top(r, n)) = n /\ Rendered(Top(r, n), n) = Rendered(r, n)
<1>1. Len(Top(r, n)) = n /\ \A i \in 1..n : Top(r, n)[i] = r[i]
  BY TopFacts
<1>2. [i \in 1..n |-> BlockSize[Top(r, n)[i]]] = [i \in 1..n |-> BlockSize[r[i]]]
  BY <1>1
<1>3. QED
  BY <1>1, <1>2 DEF Rendered

-----------------------------------------------------------------------------
(* Questions.                                                              *)

\* A chunk a question may know of: its document is registered, the asker's,
\* and was there when the question was asked.
MayKnow(q, c) ==
  /\ c \in Chunks
  /\ Registered(c[1])
  /\ q.by # NoUser => catalog[c[1]].owner = q.by
  /\ c[1] \notin q.gone

Grounded(q) ==
  /\ q.pc \in {"generate", "cite", "answered"} => Rendered(q.hits, Len(q.hits)) <= EvidenceMax
  /\ q.pc = "answered" => /\ q.cited # {}
                          /\ q.cited \subseteq Ranks(q.hits)
                          /\ q.answer = {q.hits[n] : n \in q.cited}

SoundAsk(q) ==
  /\ q \in AskRecord
  /\ \A c \in Known(q) : MayKnow(q, c)
  /\ \A d \in q.gone : catalog[d].status = "removed"
  /\ Grounded(q)
  /\ Len(q.semantic) <= SearchTopK /\ Len(q.lexical) <= SearchTopK

AskInv ==
  /\ OwnershipInv
  /\ AskTypeOK
  /\ \A a \in Askers : SoundAsk(ask[a])

\* A thread that answers nothing.
LEMMA NoAskSound == SoundAsk(NoAsk)
<1>1. NoAsk \in AskRecord
  BY AskMeAssumption DEF NoAsk, AskRecord, AskPcs, Owners
<1>2. Known(NoAsk) = {} /\ NoAsk.gone = {}
  BY DEF NoAsk, Known, Range
<1>3. Grounded(NoAsk) /\ Len(NoAsk.semantic) <= SearchTopK /\ Len(NoAsk.lexical) <= SearchTopK
  BY AskMeAssumption DEF NoAsk, Grounded
<1>4. QED
  BY <1>1, <1>2, <1>3 DEF SoundAsk

\* What a question may know of it may know of after any step of the process.
LEMMA SoundKept ==
  ASSUME CatalogKeeps, NEW q, SoundAsk(q)
  PROVE  SoundAsk(q)'
<1>1. \A c \in Known(q) : c[1] \in Docs
  BY DEF SoundAsk, MayKnow, Chunks
<1>2. \A c \in Known(q) : MayKnow(q, c)'
  BY <1>1 DEF SoundAsk, MayKnow, CatalogKeeps, Registered
<1>3. \A d \in q.gone : catalog'[d].status = "removed"
  BY DEF SoundAsk, CatalogKeeps, AskRecord
<1>4. QED
  BY <1>2, <1>3 DEF SoundAsk

\* The filter of the two reads lets through what the question may know of.
LEMMA FilterIsSound ==
  ASSUME OwnershipInv, NEW a \in Askers, SoundAsk(ask[a]), NEW c \in VisibleChunks(a)
  PROVE  MayKnow(ask[a], c)
<1>1. c \in chunkRows /\ (ask[a].by # NoUser => chunkOwner[c[1]] = ask[a].by)
  BY DEF VisibleChunks
<1>2. c \in Chunks /\ c[1] \in Docs
  BY <1>1, TypeParts DEF OwnershipInv, IndexingInv, StoreTypes, Chunks
<1>3. c \in ChunksOf(c[1])
  BY <1>2 DEF ChunksOf, Chunks
<1>4. durable
  BY <1>1 DEF OwnershipInv, IndexingInv, StoresOK
<1>5. catalog[c[1]].status # "removed"
  BY <1>1, <1>2, <1>3, <1>4 DEF OwnershipInv, IndexingInv, RemovedLeavesNoRows
<1>6. Registered(c[1])
  BY <1>1, <1>2, <1>3 DEF OwnershipInv, IndexingInv, AttemptsOK, StoresOK, Empty, Registered
<1>7. ask[a].by # NoUser => catalog[c[1]].owner = ask[a].by
  BY <1>1, <1>2 DEF OwnershipInv, OwnedRows
<1>8. c[1] \notin ask[a].gone
  BY <1>5 DEF SoundAsk
<1>9. QED
  BY <1>2, <1>6, <1>7, <1>8 DEF MayKnow

\* A question that goes on with what it knows, at another place, or a try
\* later.
LEMMA SameKnowledge ==
  ASSUME NEW q, SoundAsk(q), NEW tries \in 0..(MaxAttempts - 1),
         NEW pc \in (AskPcs \ {"generate", "cite", "answered"}) \cup {q.pc}
  PROVE  SoundAsk([q EXCEPT !.pc = pc, !.tries = tries])
<1> DEFINE n == [q EXCEPT !.pc = pc, !.tries = tries]
<1>1. n \in AskRecord
  BY DEF SoundAsk, AskRecord
<1>2. /\ n.semantic = q.semantic /\ n.lexical = q.lexical /\ n.hits = q.hits
      /\ n.answer = q.answer /\ n.by = q.by /\ n.gone = q.gone /\ n.pc = pc
      /\ n.cited = q.cited
  BY DEF SoundAsk, AskRecord
<1> HIDE DEF n
<1>3. Grounded(n)
  BY <1>2 DEF SoundAsk, Grounded
<1>4. Known(n) = Known(q)
  BY <1>2 DEF Known
<1>5. \A c \in Known(n) : MayKnow(n, c)
  BY <1>2, <1>4 DEF SoundAsk, MayKnow
<1>6. SoundAsk(n)
  BY <1>1, <1>2, <1>3, <1>5 DEF SoundAsk
<1>7. QED
  BY <1>6 DEF n

\* A question that gets a new ranking to work on, out of what it may know of.
LEMMA NewKnowledge ==
  ASSUME NEW q, SoundAsk(q), NEW n \in AskRecord,
         n.by = q.by, n.gone = q.gone, Grounded(n),
         \A c \in Known(n) : c \in Known(q) \/ MayKnow(q, c),
         Len(n.semantic) <= SearchTopK, Len(n.lexical) <= SearchTopK
  PROVE  SoundAsk(n)
<1>1. \A c \in Known(n) : MayKnow(q, c)
  BY DEF SoundAsk
<1>2. \A c \in Known(n) : MayKnow(n, c)
  BY <1>1 DEF MayKnow
<1>3. \A d \in n.gone : catalog[d].status = "removed"
  BY DEF SoundAsk
<1>4. QED
  BY <1>2, <1>3 DEF SoundAsk

\* A new question knows of nothing but its asker.
LEMMA RequestSound ==
  ASSUME OwnershipInv, AskTypeOK, NEW a \in Askers, NEW p \in Principals, AskRequest(a, p)
  PROVE  \E n : SoundAsk(n) /\ ask' = [ask EXCEPT ![a] = n]
<1> DEFINE pc == IF durable THEN "embed" ELSE "unavailable"
           gone == {d \in Docs : catalog[d].status = "removed"}
           n == [NoAsk EXCEPT !.pc = pc, !.by = p, !.gone = gone]
<1>1. n \in AskRecord
  <2>1. NoAsk \in AskRecord
    BY NoAskSound DEF SoundAsk
  <2>2. pc \in AskPcs /\ p \in Owners /\ gone \in SUBSET Docs
    BY DEF AskPcs, Owners
  <2> HIDE DEF pc, gone
  <2>3. QED
    BY <2>1, <2>2 DEF AskRecord
<1>2. Known(n) = {}
  BY DEF NoAsk, Known, Range
<1>3. n.pc = pc /\ n.gone = gone /\ n.semantic = <<>> /\ n.lexical = <<>>
  BY DEF NoAsk
<1>4. Grounded(n)
  BY <1>3 DEF Grounded
<1>5. Len(n.semantic) <= SearchTopK /\ Len(n.lexical) <= SearchTopK
  BY <1>3, AskMeAssumption
<1>6. ask' = [ask EXCEPT ![a] = n]
  BY DEF AskRequest
<1> HIDE DEF n
<1>7. SoundAsk(n)
  BY <1>1, <1>2, <1>3, <1>4, <1>5 DEF SoundAsk
<1>8. QED
  BY <1>6, <1>7

\* Only the place changes, as in a refusal.
LEMMA MoveSound ==
  ASSUME NEW a \in Askers, SoundAsk(ask[a]),
         NEW pc \in AskPcs \ {"generate", "cite", "answered"}, AskGoto(a, pc)
  PROVE  \E n : SoundAsk(n) /\ ask' = [ask EXCEPT ![a] = n]
<1> DEFINE n == [ask[a] EXCEPT !.pc = pc, !.tries = ask[a].tries]
<1>1. ask[a] \in AskRecord
  BY DEF SoundAsk
<1>2. n = [ask[a] EXCEPT !.pc = pc] /\ ask[a].tries \in 0..(MaxAttempts - 1)
  BY <1>1 DEF AskRecord
<1>3. SoundAsk(n)
  BY <1>2, SameKnowledge
<1>4. QED
  BY <1>2, <1>3 DEF AskGoto

\* A call to a provider that fails is refused or repeated.
LEMMA CallFailsSound ==
  ASSUME NEW a \in Askers, SoundAsk(ask[a]), NEW point, CallFails(a, point)
  PROVE  \E n : SoundAsk(n) /\ ask' = [ask EXCEPT ![a] = n]
<1>1. ask[a] \in AskRecord /\ ask[a].tries \in Nat /\ MaxAttempts \in Nat
  BY AskMeAssumption DEF SoundAsk, AskRecord
<1>2. CASE Unavailable(a)
  BY <1>2, MoveSound DEF Unavailable, AskPcs
<1>3. CASE /\ ask[a].tries + 1 < MaxAttempts
           /\ ask' = [ask EXCEPT ![a].tries = @ + 1]
  <2> DEFINE n == [ask[a] EXCEPT !.pc = ask[a].pc, !.tries = ask[a].tries + 1]
  <2>1. n = [ask[a] EXCEPT !.tries = ask[a].tries + 1]
    BY <1>1 DEF AskRecord
  <2>2. ask[a].tries + 1 \in 0..(MaxAttempts - 1)
    BY <1>1, <1>3
  <2>3. SoundAsk(n)
    BY <2>2, SameKnowledge
  <2>4. ask' = [ask EXCEPT ![a] = n]
    BY <1>3, <2>1
  <2>5. QED
    BY <2>3, <2>4
<1>4. QED
  BY <1>2, <1>3 DEF CallFails

\* What a search returns it read through the filter.
LEMMA SearchSound ==
  ASSUME OwnershipInv, NEW a \in Askers, SoundAsk(ask[a]),
         SemanticSearch(a) \/ LexicalSearch(a)
  PROVE  \E n : SoundAsk(n) /\ ask' = [ask EXCEPT ![a] = n]
<1> DEFINE q == ask[a]
<1>1. q \in AskRecord /\ SearchTopK \in Nat
  BY AskMeAssumption DEF SoundAsk
<1>2. ASSUME NEW S \in SUBSET VisibleChunks(a), NEW r \in Rankings(S, SearchTopK)
      PROVE  /\ r \in Seq(Chunks) /\ Len(r) <= SearchTopK
             /\ \A c \in Range(r) : MayKnow(q, c)
  <2>1. r \in Seq(S) /\ Len(r) <= SearchTopK /\ Range(r) \subseteq S
    BY <1>1, RankingFacts
  <2>2. \A c \in S : MayKnow(q, c)
    BY FilterIsSound
  <2>3. S \subseteq Chunks
    BY <2>2 DEF MayKnow
  <2>4. QED
    BY <2>1, <2>2, <2>3, SeqMonotonic
<1>3. ASSUME NEW S \in SUBSET VisibleChunks(a), NEW r \in Rankings(S, SearchTopK)
      PROVE  SoundAsk([q EXCEPT !.pc = "lexical", !.semantic = r])
  <2> DEFINE n == [q EXCEPT !.pc = "lexical", !.semantic = r]
  <2>1. n \in AskRecord
    BY <1>1, <1>2 DEF AskRecord, AskPcs
  <2>2. /\ n.by = q.by /\ n.gone = q.gone /\ n.pc = "lexical" /\ n.semantic = r
        /\ n.lexical = q.lexical /\ n.hits = q.hits /\ n.answer = q.answer
    BY <1>1 DEF AskRecord
  <2> HIDE DEF n
  <2>3. Grounded(n)
    BY <2>2 DEF Grounded
  <2>4. \A c \in Known(n) : c \in Known(q) \/ MayKnow(q, c)
    BY <1>2, <2>2 DEF Known
  <2>5. Len(n.semantic) <= SearchTopK /\ Len(n.lexical) <= SearchTopK
    BY <1>2, <2>2 DEF SoundAsk
  <2>6. SoundAsk(n)
    BY <2>1, <2>2, <2>3, <2>4, <2>5, NewKnowledge
  <2>7. QED
    BY <2>6 DEF n
<1>4. ASSUME NEW S \in SUBSET VisibleChunks(a), NEW r \in Rankings(S, SearchTopK)
      PROVE  SoundAsk([q EXCEPT !.pc = "fuse", !.lexical = r])
  <2> DEFINE n == [q EXCEPT !.pc = "fuse", !.lexical = r]
  <2>1. n \in AskRecord
    BY <1>1, <1>2 DEF AskRecord, AskPcs
  <2>2. /\ n.by = q.by /\ n.gone = q.gone /\ n.pc = "fuse" /\ n.lexical = r
        /\ n.semantic = q.semantic /\ n.hits = q.hits /\ n.answer = q.answer
    BY <1>1 DEF AskRecord
  <2> HIDE DEF n
  <2>3. Grounded(n)
    BY <2>2 DEF Grounded
  <2>4. \A c \in Known(n) : c \in Known(q) \/ MayKnow(q, c)
    BY <1>2, <2>2 DEF Known
  <2>5. Len(n.semantic) <= SearchTopK /\ Len(n.lexical) <= SearchTopK
    BY <1>2, <2>2 DEF SoundAsk
  <2>6. SoundAsk(n)
    BY <2>1, <2>2, <2>3, <2>4, <2>5, NewKnowledge
  <2>7. QED
    BY <2>6 DEF n
<1>5. CASE Unavailable(a)
  BY <1>5, MoveSound DEF Unavailable, AskPcs
<1>6. CASE SemanticSearch(a)
  <2>1. ASSUME NEW r \in Rankings(VisibleChunks(a) \cap embeddingRows, SearchTopK),
               ask' = [ask EXCEPT ![a].pc = "lexical", ![a].semantic = r]
        PROVE  \E n : SoundAsk(n) /\ ask' = [ask EXCEPT ![a] = n]
    <3>1. SoundAsk([q EXCEPT !.pc = "lexical", !.semantic = r])
      BY <1>3
    <3>2. ask' = [ask EXCEPT ![a] = [q EXCEPT !.pc = "lexical", !.semantic = r]]
      BY <2>1
    <3>3. QED
      BY <3>1, <3>2
  <2>2. QED
    BY <1>5, <1>6, <2>1 DEF SemanticSearch
<1>7. CASE LexicalSearch(a)
  <2>1. ASSUME NEW S \in SUBSET VisibleChunks(a), NEW r \in Rankings(S, SearchTopK),
               ask' = [ask EXCEPT ![a].pc = "fuse", ![a].lexical = r]
        PROVE  \E n : SoundAsk(n) /\ ask' = [ask EXCEPT ![a] = n]
    <3>1. SoundAsk([q EXCEPT !.pc = "fuse", !.lexical = r])
      BY <1>4
    <3>2. ask' = [ask EXCEPT ![a] = [q EXCEPT !.pc = "fuse", !.lexical = r]]
      BY <2>1
    <3>3. QED
      BY <3>1, <3>2
  <2>2. QED
    BY <1>5, <1>7, <2>1 DEF LexicalSearch
<1>8. QED
  BY <1>6, <1>7

\* Fusion ranks what the searches found, and forgets their rankings.
LEMMA FusionSound ==
  ASSUME NEW a \in Askers, SoundAsk(ask[a]), FuseResults(a)
  PROVE  \E n : SoundAsk(n) /\ ask' = [ask EXCEPT ![a] = n]
<1> DEFINE q == ask[a]
           found == Range(q.semantic) \cup Range(q.lexical)
<1>1. /\ q \in AskRecord /\ HybridTopK \in Nat /\ SearchTopK \in Nat
      /\ q.semantic \in Seq(Chunks) /\ q.lexical \in Seq(Chunks)
  BY AskMeAssumption DEF SoundAsk, AskRecord
<1>2. found \subseteq Known(q) /\ found \subseteq Chunks
  BY <1>1, RangeOfSeq DEF Known
<1>3. CASE NoEvidence(a)
  BY <1>3, MoveSound DEF NoEvidence, AskPcs
<1>4. ASSUME NEW fused \in Rankings(found, HybridTopK),
             ask' = [ask EXCEPT ![a].pc = "rerank", ![a].hits = fused,
                                ![a].semantic = <<>>, ![a].lexical = <<>>]
      PROVE  \E n : SoundAsk(n) /\ ask' = [ask EXCEPT ![a] = n]
  <2> DEFINE n == [q EXCEPT !.pc = "rerank", !.hits = fused,
                            !.semantic = <<>>, !.lexical = <<>>]
  <2> HIDE DEF found
  <2>1. fused \in Seq(found) /\ Range(fused) \subseteq found
    BY <1>1, RankingFacts
  <2>2. fused \in Seq(Chunks) /\ Range(fused) \subseteq Known(q)
    BY <1>2, <2>1, SeqMonotonic
  <2> DEFINE m == [q EXCEPT !.pc = "rerank", !.hits = fused]
  <2>11. m \in AskRecord
    BY <1>1, <2>2 DEF AskRecord, AskPcs
  <2>12. n = [m EXCEPT !.semantic = <<>>, !.lexical = <<>>]
    OBVIOUS
  <2>3. n \in AskRecord
    BY <2>11, <2>12, EmptySeq DEF AskRecord
  <2>4. /\ n.by = q.by /\ n.gone = q.gone /\ n.pc = "rerank" /\ n.hits = fused
        /\ n.semantic = <<>> /\ n.lexical = <<>> /\ n.answer = q.answer
    BY <1>1 DEF AskRecord
  <2>5. ask' = [ask EXCEPT ![a] = n]
    BY <1>4
  <2> HIDE DEF n
  <2>6. Grounded(n)
    BY <2>4 DEF Grounded
  <2>7. \A c \in Known(n) : c \in Known(q)
    BY <2>2, <2>4 DEF Known, Range
  <2>8. Len(n.semantic) <= SearchTopK /\ Len(n.lexical) <= SearchTopK
    BY <1>1, <2>4
  <2>9. SoundAsk(n)
    BY <2>3, <2>4, <2>6, <2>7, <2>8, NewKnowledge
  <2>10. QED
    BY <2>5, <2>9
<1>5. QED
  BY <1>3, <1>4 DEF FuseResults

\* Reranking permutes and cuts what fusion returned.
LEMMA RerankSound ==
  ASSUME NEW a \in Askers, SoundAsk(ask[a]), Rerank(a)
  PROVE  \E n : SoundAsk(n) /\ ask' = [ask EXCEPT ![a] = n]
<1> DEFINE q == ask[a]
<1>1. /\ q \in AskRecord /\ RerankTopK \in Nat /\ q.hits \in Seq(Chunks)
      /\ q.pc = "rerank"
  BY AskMeAssumption DEF SoundAsk, AskRecord, Rerank
<1>2. Range(q.hits) \subseteq Known(q) /\ Range(q.hits) \subseteq Chunks
  BY <1>1, RangeOfSeq DEF Known
<1>3. CASE Unavailable(a)
  BY <1>3, MoveSound DEF Unavailable, AskPcs
<1>4. ASSUME NEW r \in Seq(Chunks), Range(r) \subseteq Range(q.hits),
             ask' = [ask EXCEPT ![a].pc = "evidence", ![a].hits = r]
      PROVE  \E n : SoundAsk(n) /\ ask' = [ask EXCEPT ![a] = n]
  <2> DEFINE n == [q EXCEPT !.pc = "evidence", !.hits = r]
  <2>1. n \in AskRecord
    BY <1>1, <1>4 DEF AskRecord, AskPcs
  <2>2. /\ n.by = q.by /\ n.gone = q.gone /\ n.pc = "evidence" /\ n.hits = r
        /\ n.semantic = q.semantic /\ n.lexical = q.lexical /\ n.answer = q.answer
    BY <1>1 DEF AskRecord
  <2>3. ask' = [ask EXCEPT ![a] = n]
    BY <1>4
  <2> HIDE DEF n
  <2>4. Grounded(n)
    BY <2>2 DEF Grounded
  <2>5. \A c \in Known(n) : c \in Known(q)
    BY <1>2, <1>4, <2>2 DEF Known
  <2>6. Len(n.semantic) <= SearchTopK /\ Len(n.lexical) <= SearchTopK
    BY <2>2 DEF SoundAsk
  <2>7. SoundAsk(n)
    BY <2>1, <2>2, <2>4, <2>5, <2>6, NewKnowledge
  <2>8. QED
    BY <2>3, <2>7
<1>5. ASSUME NEW r \in Rankings(Range(q.hits), RerankTopK)
      PROVE  r \in Seq(Chunks) /\ Range(r) \subseteq Range(q.hits)
  <2>1. r \in Seq(Range(q.hits)) /\ Range(r) \subseteq Range(q.hits)
    BY <1>1, RankingFacts
  <2>2. QED
    BY <1>2, <2>1, SeqMonotonic
<1>6. /\ Top(q.hits, RerankTopK) \in Seq(Chunks)
      /\ Range(Top(q.hits, RerankTopK)) \subseteq Range(q.hits)
  BY <1>1, TopFacts
<1>7. QED
  BY <1>3, <1>4, <1>5, <1>6 DEF Rerank

\* The evidence is a prefix of what was ranked, within the budget.
LEMMA EvidenceSound ==
  ASSUME NEW a \in Askers, SoundAsk(ask[a]), BuildEvidence(a)
  PROVE  \E n : SoundAsk(n) /\ ask' = [ask EXCEPT ![a] = n]
<1> DEFINE q == ask[a]
<1>1. q \in AskRecord /\ q.hits \in Seq(Chunks) /\ q.pc = "evidence"
  BY DEF SoundAsk, AskRecord, BuildEvidence
<1>2. CASE Unavailable(a)
  BY <1>2, MoveSound DEF Unavailable, AskPcs
<1>3. ASSUME NEW k \in Ranks(q.hits), Rendered(q.hits, k) <= EvidenceMax,
             ask' = [ask EXCEPT ![a].pc = "generate", ![a].hits = Top(q.hits, k)]
      PROVE  \E n : SoundAsk(n) /\ ask' = [ask EXCEPT ![a] = n]
  <2> DEFINE r == Top(q.hits, k)
             n == [q EXCEPT !.pc = "generate", !.hits = r]
  <2>1. k \in 1..Len(q.hits) /\ k \in Nat
    BY <1>1 DEF Ranks
  <2>2. /\ r \in Seq(Chunks) /\ Range(r) \subseteq Range(q.hits)
        /\ Len(r) = k /\ Rendered(r, k) = Rendered(q.hits, k)
    BY <1>1, <2>1, TopFacts, RenderedTop
  <2>3. ask' = [ask EXCEPT ![a] = n]
    BY <1>3
  <2> HIDE DEF r
  <2>4. n \in AskRecord
    BY <1>1, <2>2 DEF AskRecord, AskPcs
  <2>5. /\ n.by = q.by /\ n.gone = q.gone /\ n.pc = "generate" /\ n.hits = r
        /\ n.semantic = q.semantic /\ n.lexical = q.lexical /\ n.answer = q.answer
    BY <1>1 DEF AskRecord
  <2> HIDE DEF n
  <2>6. Grounded(n)
    BY <1>3, <2>2, <2>5 DEF Grounded
  <2>7. \A c \in Known(n) : c \in Known(q)
    BY <2>2, <2>5 DEF Known
  <2>8. Len(n.semantic) <= SearchTopK /\ Len(n.lexical) <= SearchTopK
    BY <2>5 DEF SoundAsk
  <2>9. SoundAsk(n)
    BY <2>4, <2>5, <2>6, <2>7, <2>8, NewKnowledge
  <2>10. QED
    BY <2>3, <2>9
<1>4. QED
  BY <1>2, <1>3 DEF BuildEvidence

\* Generation only adds the numbers the model cited.
LEMMA GenerateSound ==
  ASSUME NEW a \in Askers, SoundAsk(ask[a]), Generate(a)
  PROVE  \E n : SoundAsk(n) /\ ask' = [ask EXCEPT ![a] = n]
<1> DEFINE q == ask[a]
<1>1. q \in AskRecord /\ q.pc = "generate" /\ 0 \in 0..(MaxAttempts - 1)
  BY AskMeAssumption DEF SoundAsk, Generate
<1>2. CASE CallFails(a, "generate")
  BY <1>2, CallFailsSound
<1>3. ASSUME NEW cited \in SUBSET (1..(RerankTopK + 1)),
             ask' = [ask EXCEPT ![a].pc = "cite", ![a].tries = 0, ![a].cited = cited]
      PROVE  \E n : SoundAsk(n) /\ ask' = [ask EXCEPT ![a] = n]
  <2> DEFINE n == [q EXCEPT !.pc = "cite", !.tries = 0, !.cited = cited]
  <2>1. n \in AskRecord
    BY <1>1 DEF AskRecord, AskPcs
  <2>2. /\ n.by = q.by /\ n.gone = q.gone /\ n.pc = "cite" /\ n.hits = q.hits
        /\ n.semantic = q.semantic /\ n.lexical = q.lexical /\ n.answer = q.answer
    BY <1>1 DEF AskRecord
  <2>3. ask' = [ask EXCEPT ![a] = n]
    BY <1>3
  <2> HIDE DEF n
  <2>4. Grounded(n)
    BY <1>1, <2>2 DEF SoundAsk, Grounded
  <2>5. \A c \in Known(n) : c \in Known(q)
    BY <2>2 DEF Known
  <2>6. Len(n.semantic) <= SearchTopK /\ Len(n.lexical) <= SearchTopK
    BY <2>2 DEF SoundAsk
  <2>7. SoundAsk(n)
    BY <2>1, <2>2, <2>4, <2>5, <2>6, NewKnowledge
  <2>8. QED
    BY <2>3, <2>7
<1>4. QED
  BY <1>2, <1>3 DEF Generate

\* What passes the enforcement cites, and cites the evidence.
LEMMA CitationsSound ==
  ASSUME NEW a \in Askers, SoundAsk(ask[a]), EnforceCitations(a)
  PROVE  \E n : SoundAsk(n) /\ ask' = [ask EXCEPT ![a] = n]
<1> DEFINE q == ask[a]
           answer == {q.hits[i] : i \in q.cited}
<1>1. q \in AskRecord /\ q.pc = "cite" /\ q.hits \in Seq(Chunks)
  BY DEF SoundAsk, AskRecord, EnforceCitations
<1>2. CASE Unavailable(a)
  BY <1>2, MoveSound DEF Unavailable, AskPcs
<1>3. ASSUME q.cited # {}, q.cited \subseteq Ranks(q.hits),
             ask' = [ask EXCEPT ![a].pc = "answered", ![a].answer = answer]
      PROVE  \E n : SoundAsk(n) /\ ask' = [ask EXCEPT ![a] = n]
  <2> DEFINE n == [q EXCEPT !.pc = "answered", !.answer = answer]
  <2>1. Range(q.hits) = {q.hits[i] : i \in 1..Len(q.hits)} /\ Range(q.hits) \subseteq Chunks
    BY <1>1, RangeEquality, RangeOfSeq
  <2>2. answer \subseteq Range(q.hits) /\ answer \subseteq Chunks
    BY <1>3, <2>1 DEF Ranks
  <2>3. ask' = [ask EXCEPT ![a] = n]
    BY <1>3
  <2>4. answer = {q.hits[i] : i \in q.cited}
    OBVIOUS
  <2> HIDE DEF answer
  <2>5. n \in AskRecord
    BY <1>1, <2>2 DEF AskRecord, AskPcs
  <2>6. /\ n.by = q.by /\ n.gone = q.gone /\ n.pc = "answered" /\ n.hits = q.hits
        /\ n.semantic = q.semantic /\ n.lexical = q.lexical /\ n.answer = answer
        /\ n.cited = q.cited
    BY <1>1 DEF AskRecord
  <2> HIDE DEF n
  <2>7. Grounded(n)
    BY <1>1, <1>3, <2>4, <2>6 DEF SoundAsk, Grounded
  <2>8. \A c \in Known(n) : c \in Known(q)
    BY <2>2, <2>6 DEF Known
  <2>9. Len(n.semantic) <= SearchTopK /\ Len(n.lexical) <= SearchTopK
    BY <2>6 DEF SoundAsk
  <2>10. SoundAsk(n)
    BY <2>5, <2>6, <2>7, <2>8, <2>9, NewKnowledge
  <2>11. QED
    BY <2>3, <2>10
<1>4. QED
  BY <1>2, <1>3 DEF EnforceCitations

\* The query goes out to be embedded.
LEMMA EmbedSound ==
  ASSUME NEW a \in Askers, SoundAsk(ask[a]), EmbedQuery(a)
  PROVE  \E n : SoundAsk(n) /\ ask' = [ask EXCEPT ![a] = n]
<1>1. CASE CallFails(a, "embed")
  BY <1>1, CallFailsSound
<1>2. CASE ask' = [ask EXCEPT ![a].pc = "semantic", ![a].tries = 0]
  <2>1. ask' = [ask EXCEPT ![a] = [ask[a] EXCEPT !.pc = "semantic", !.tries = 0]]
    BY <1>2
  <2>2. "semantic" \in AskPcs \ {"generate", "cite", "answered"} /\ 0 \in 0..(MaxAttempts - 1)
    BY AskMeAssumption DEF AskPcs
  <2>3. SoundAsk([ask[a] EXCEPT !.pc = "semantic", !.tries = 0])
    BY <2>2, SameKnowledge
  <2>4. QED
    BY <2>1, <2>3
<1>3. QED
  BY <1>1, <1>2 DEF EmbedQuery

\* All the steps of a question.
LEMMA AnswerSound ==
  ASSUME OwnershipInv, NEW a \in Askers, SoundAsk(ask[a]), Answer(a)
  PROVE  \E n : SoundAsk(n) /\ ask' = [ask EXCEPT ![a] = n]
<1>1. CASE Reply(a)
  BY <1>1, NoAskSound DEF Reply
<1>2. QED
  BY <1>1, EmbedSound, SearchSound, FusionSound, RerankSound, EvidenceSound, GenerateSound,
     CitationsSound DEF Answer

\* The invariant, for every step of questions and of indexing.
LEMMA AskStepInv == AskInv /\ [AskNext]_askVars => AskInv'
<1> SUFFICES ASSUME AskInv, [AskNext]_askVars
             PROVE  AskInv'
  OBVIOUS
<1>1. OwnershipInv /\ ask \in [Askers -> AskRecord] /\ \A a \in Askers : SoundAsk(ask[a])
  BY DEF AskInv, AskTypeOK
<1>2. [IndexingNext]_vars
  BY DEF AskNext, askVars
<1>3. OwnershipInv' /\ CatalogKeeps
  BY <1>1, <1>2, OwnershipStep
<1>4. \A q : SoundAsk(q) => SoundAsk(q)'
  BY <1>3, SoundKept
<1>5. ASSUME NEW a \in Askers, NEW n, SoundAsk(n), ask' = [ask EXCEPT ![a] = n]
      PROVE  AskInv'
  <2>1. n \in AskRecord
    BY <1>5 DEF SoundAsk
  <2>2. ask' \in [Askers -> AskRecord]
    BY <1>1, <1>5, <2>1
  <2>3. \A b \in Askers : \E q : ask'[b] = q /\ SoundAsk(q)
    BY <1>1, <1>5
  <2>4. \A b \in Askers : SoundAsk(ask[b])'
    <3> TAKE b \in Askers
    <3>1. PICK q : ask'[b] = q /\ SoundAsk(q)
      BY <2>3
    <3>2. SoundAsk(q)'
      BY <1>4, <3>1
    <3>3. QED
      BY <3>1, <3>2 DEF SoundAsk, MayKnow, Known, Grounded, Registered
  <2>5. QED
    BY <1>3, <2>2, <2>4 DEF AskInv, AskTypeOK
<1>6. CASE AskStep
  <2>1. ASSUME NEW a \in Askers, NEW p \in Principals, AskRequest(a, p)
        PROVE  AskInv'
    BY <1>1, <1>5, <2>1, RequestSound DEF AskInv
  <2>2. ASSUME NEW a \in Askers, Answer(a)
        PROVE  AskInv'
    BY <1>1, <1>5, <2>2, AnswerSound
  <2>3. QED
    BY <1>6, <2>1, <2>2 DEF AskStep
<1>7. CASE ask' = ask
  <2>1. ASSUME NEW b \in Askers
        PROVE  SoundAsk(ask[b])'
    <3>1. PICK q : ask[b] = q /\ SoundAsk(q)
      BY <1>1
    <3>2. SoundAsk(q)' /\ ask'[b] = q
      BY <1>4, <1>7, <3>1
    <3>3. QED
      BY <3>2 DEF SoundAsk, MayKnow, Known, Grounded, Registered
  <2>2. QED
    BY <1>1, <1>3, <1>7, <2>1 DEF AskInv, AskTypeOK
<1>8. CASE ask' = [a \in Askers |-> NoAsk]
  <2>1. SoundAsk(NoAsk)' /\ NoAsk \in AskRecord
    BY <1>4, NoAskSound DEF SoundAsk
  <2>2. ASSUME NEW b \in Askers
        PROVE  SoundAsk(ask[b])'
    <3>1. ask'[b] = NoAsk
      BY <1>8
    <3>2. QED
      BY <2>1, <3>1 DEF SoundAsk, MayKnow, Known, Grounded, Registered
  <2>3. QED
    BY <1>3, <1>8, <2>1, <2>2 DEF AskInv, AskTypeOK
<1>9. QED
  BY <1>6, <1>7, <1>8 DEF AskNext, askVars

\* The start.
LEMMA AskInitInv == AskInit => AskInv
<1> SUFFICES ASSUME AskInit
             PROVE  AskInv
  OBVIOUS
<1>1. IndexingInit /\ ask = [a \in Askers |-> NoAsk]
  BY DEF AskInit
<1>2. IndexingInv
  BY <1>1, InitEstablishes
<1>3. CatalogInv
  BY <1>1, CatalogInitInv DEF IndexingInit
<1>4. OwnedRun /\ OwnedRows
  BY <1>1 DEF IndexingInit, NoRun, OwnedRun, OwnedRows
<1>5. NoAsk \in AskRecord
  BY NoAskSound DEF SoundAsk
<1>6. QED
  BY <1>1, <1>2, <1>3, <1>4, <1>5, NoAskSound DEF AskInv, AskTypeOK, OwnershipInv

\* The inductive invariant of questions and indexing together.
THEOREM AskInvariant == AskSafety => []AskInv
BY AskInitInv, AskStepInv, PTL DEF AskSafety

-----------------------------------------------------------------------------

\* The record of a question keeps its shape; no provider is tried more often
\* than max_attempts (call_with_gemini_retries).
THEOREM AskTypeCorrect == AskSafety => []AskTypeOK
<1>1. AskInv => AskTypeOK
  BY DEF AskInv
<1>2. QED
  BY <1>1, AskInvariant, PTL

\* Owner isolation of the query path: nothing a question reads, ranks, puts in
\* front of the model or cites belongs to another user, whatever uploads,
\* deletions and restarts happen meanwhile (_filtered_chunk_statement).
THEOREM OwnerIsolationOfAnswers == AskSafety => []OnlyOwnDocuments
<1>1. AskInv => OnlyOwnDocuments
  BY DEF AskInv, SoundAsk, MayKnow, Known, OnlyOwnDocuments
<1>2. QED
  BY <1>1, AskInvariant, PTL

\* A document whose row was gone when the question came is not in the answer.
THEOREM RemovedIsNotCited == AskSafety => []NothingRemovedIsCited
<1>1. AskInv => NothingRemovedIsCited
  BY DEF AskInv, SoundAsk, MayKnow, Known, NothingRemovedIsCited
<1>2. QED
  BY <1>1, AskInvariant, PTL

\* An answer cites, and cites evidence within the budget (_enforce_citations,
\* build_evidence_context).
THEOREM Grounding == AskSafety => []AnswersAreGrounded
<1>1. AskInv => AnswersAreGrounded
  BY DEF AskInv, SoundAsk, Grounded, AnswersAreGrounded
<1>2. QED
  BY <1>1, AskInvariant, PTL

-----------------------------------------------------------------------------
(* Fusion.                                                                 *)

\* Two ranks within k + 1 of the top beat one rank, be it the first:
\* 1/(k+r) + 1/(k+s) > 1/(k+t).
LEMMA TwoBeatOne ==
  ASSUME NEW k \in Nat \ {0}, NEW r \in 1..(k + 1), NEW s \in 1..(k + 1), NEW t \in Nat \ {0}
  PROVE  ((k + r) + (k + s)) * (k + t) > (k + r) * (k + s)
<1> DEFINE x == k + r
           y == k + s
           z == k + t
           m == k + 1
<1>1. /\ x \in Nat /\ y \in Nat /\ z \in Nat /\ m \in Nat
      /\ x >= 1 /\ y >= 1 /\ m >= 1 /\ z >= m
      /\ x < 2 * m /\ y < 2 * m
  OBVIOUS
<1> HIDE DEF x, y, z, m
<1>2. (x + y) * z >= (x + y) * m
  BY <1>1
<1>3. x * y < x * (2 * m) /\ x * y < y * (2 * m)
  BY <1>1
<1>4. 2 * (x * y) < 2 * ((x + y) * m)
  BY <1>1, <1>3
<1>5. (x + y) * z > x * y
  BY <1>1, <1>2, <1>4
<1>6. QED
  BY <1>5 DEF x, y, z

\* The rank of a chunk that a ranking holds.
LEMMA RankBounds ==
  ASSUME NEW S, NEW r \in Seq(S), NEW c \in Range(r)
  PROVE  RankOf(r, c) \in 1..Len(r)
<1>1. PICK i \in 1..Len(r) : r[i] = c
  BY RangeEquality
<1>2. QED
  BY <1>1 DEF RankOf, Ranks

\* The score of a chunk both searches found exceeds that of one only one of
\* them found (reciprocal_rank_fusion).
LEMMA AgreementScores ==
  ASSUME SearchTopK <= RrfK + 1,
         NEW semantic \in Seq(Chunks), NEW lexical \in Seq(Chunks),
         Len(semantic) <= SearchTopK, Len(lexical) <= SearchTopK,
         NEW c \in Range(semantic) \cap Range(lexical),
         NEW e \in Range(semantic) \cup Range(lexical),
         e \notin Range(semantic) \cap Range(lexical)
  PROVE  Exceeds(RrfScore(semantic, lexical, c), RrfScore(semantic, lexical, e))
<1> DEFINE r == RankOf(semantic, c)
           s == RankOf(lexical, c)
<1>1. RrfK \in Nat \ {0} /\ SearchTopK \in Nat
      /\ Len(semantic) \in Nat /\ Len(lexical) \in Nat
  BY AskMeAssumption
<1>2. r \in 1..(RrfK + 1) /\ s \in 1..(RrfK + 1)
  BY <1>1, RankBounds
<1> HIDE DEF r, s
<1>3. /\ Reciprocal(semantic, c) = <<1, RrfK + r>>
      /\ Reciprocal(lexical, c) = <<1, RrfK + s>>
  BY DEF Reciprocal, r, s
<1>4. RrfScore(semantic, lexical, c)
        = <<(RrfK + r) + (RrfK + s), (RrfK + r) * (RrfK + s)>>
  <2>1. 1 * (RrfK + s) + 1 * (RrfK + r) = (RrfK + r) + (RrfK + s)
    BY <1>1, <1>2
  <2>2. QED
    BY <1>3, <2>1 DEF RrfScore, FractionSum
<1>5. PICK t \in Nat \ {0} : RrfScore(semantic, lexical, e) = <<1, RrfK + t>>
  <2>1. CASE e \in Range(semantic)
    <3> DEFINE t == RankOf(semantic, e)
    <3>1. t \in Nat \ {0}
      BY <1>1, <2>1, RankBounds
    <3> HIDE DEF t
    <3>2. Reciprocal(semantic, e) = <<1, RrfK + t>> /\ Reciprocal(lexical, e) = <<0, 1>>
      BY <2>1 DEF Reciprocal, t
    <3>3. 1 * 1 + 0 * (RrfK + t) = 1 /\ (RrfK + t) * 1 = RrfK + t
      BY <1>1, <3>1
    <3>4. RrfScore(semantic, lexical, e) = <<1, RrfK + t>>
      BY <3>2, <3>3 DEF RrfScore, FractionSum
    <3>5. QED
      BY <3>1, <3>4
  <2>2. CASE e \in Range(lexical)
    <3> DEFINE t == RankOf(lexical, e)
    <3>1. t \in Nat \ {0}
      BY <1>1, <2>2, RankBounds
    <3> HIDE DEF t
    <3>2. Reciprocal(semantic, e) = <<0, 1>> /\ Reciprocal(lexical, e) = <<1, RrfK + t>>
      BY <2>2 DEF Reciprocal, t
    <3>3. 0 * (RrfK + t) + 1 * 1 = 1 /\ 1 * (RrfK + t) = RrfK + t
      BY <1>1, <3>1
    <3>4. RrfScore(semantic, lexical, e) = <<1, RrfK + t>>
      BY <3>2, <3>3 DEF RrfScore, FractionSum
    <3>5. QED
      BY <3>1, <3>4
  <2>3. QED
    BY <2>1, <2>2
<1>6. ((RrfK + r) + (RrfK + s)) * (RrfK + t) > (RrfK + r) * (RrfK + s)
  BY <1>1, <1>2, TwoBeatOne
<1>7. 1 * ((RrfK + r) * (RrfK + s)) = (RrfK + r) * (RrfK + s)
  BY <1>1, <1>2
<1>8. QED
  BY <1>4, <1>5, <1>6, <1>7 DEF Exceeds

\* Fusion prefers agreement, at whatever ranks, as long as the searches return
\* at most rrf_k + 1 results each (rrf_k is 60, both searches return 10).
THEOREM AgreementIsPreferred ==
  ASSUME SearchTopK <= RrfK + 1
  PROVE  AskSafety => AgreementWins
<1> DEFINE A == \A a \in Askers : ask[a].pc = "fuse" /\ ask'[a].pc = "rerank" =>
       LET fused == ask'[a].hits
           semantic == Range(ask[a].semantic)
           lexical  == Range(ask[a].lexical) IN
       \A c \in semantic \cap lexical, i \in Ranks(fused) :
         fused[i] \notin semantic \cap lexical => \E j \in 1..(i - 1) : fused[j] = c
<1>1. AskInv /\ [AskNext]_askVars => [A]_askVars
  <2> SUFFICES ASSUME AskInv, AskNext, NEW a \in Askers,
                      ask[a].pc = "fuse", ask'[a].pc = "rerank",
                      NEW c \in Range(ask[a].semantic) \cap Range(ask[a].lexical),
                      NEW i \in Ranks(ask'[a].hits),
                      ask'[a].hits[i] \notin Range(ask[a].semantic) \cap Range(ask[a].lexical)
               PROVE  \E j \in 1..(i - 1) : ask'[a].hits[j] = c
    BY DEF askVars
  <2> DEFINE semantic == ask[a].semantic
             lexical  == ask[a].lexical
             found    == Range(semantic) \cup Range(lexical)
  <2>1. /\ ask \in [Askers -> AskRecord] /\ ask[a] \in AskRecord
        /\ semantic \in Seq(Chunks) /\ lexical \in Seq(Chunks)
        /\ Len(semantic) <= SearchTopK /\ Len(lexical) <= SearchTopK
    BY DEF AskInv, AskTypeOK, SoundAsk, AskRecord
  <2>2. FuseResults(a)
    <3>1. ask' # ask /\ ask' # [b \in Askers |-> NoAsk]
      BY DEF NoAsk
    <3>2. PICK b \in Askers : Answer(b) \/ \E p \in Principals : AskRequest(b, p)
      BY <3>1 DEF AskNext, AskStep
    <3>3. ASSUME NEW n, ask' = [ask EXCEPT ![b] = n]
          PROVE  b = a
      BY <2>1, <3>3
    <3>4. \E n : ask' = [ask EXCEPT ![b] = n]
      BY <3>2, AnswerSound, RequestSound DEF AskInv
    <3>5. b = a
      BY <3>3, <3>4
    <3>6. QED
      BY <3>2, <3>5 DEF Answer, AskRequest, EmbedQuery, SemanticSearch, LexicalSearch, Rerank,
         BuildEvidence, Generate, EnforceCitations, Reply
  <2>3. PICK fused \in Rankings(found, HybridTopK) :
          /\ ByScore(fused, semantic, lexical)
          /\ ask' = [ask EXCEPT ![a].pc = "rerank", ![a].hits = fused,
                                ![a].semantic = <<>>, ![a].lexical = <<>>]
    <3>1. ask'[a].pc # "grounding"
      OBVIOUS
    <3>2. NoEvidence(a) => ask'[a].pc = "grounding"
      BY <2>1 DEF NoEvidence, AskGoto, AskRecord
    <3>3. QED
      BY <2>2, <3>1, <3>2 DEF FuseResults
  <2>4. ask'[a].hits = fused
    BY <2>1, <2>3 DEF AskRecord
  <2>5. fused \in Seq(found) /\ i \in 1..Len(fused) /\ fused[i] \in found
    <3>1. fused \in Seq(found)
      BY RankingFacts, AskMeAssumption
    <3>2. QED
      BY <2>4, <3>1, ElementOfSeq DEF Ranks
  <2>6. Exceeds(RrfScore(semantic, lexical, c), RrfScore(semantic, lexical, fused[i]))
    BY <2>1, <2>4, <2>5, AgreementScores
  <2>7. QED
    BY <2>3, <2>4, <2>5, <2>6 DEF ByScore, Ranks
<1>2. QED
  BY <1>1, AskInvariant, PTL DEF AskSafety, AgreementWins

=============================================================================
