SPECIFICATION IndexingSafety
CONSTANTS
  Docs = {d1}
  Threads = {t1}
  Deleters = {x1}
  NoUser = NoUser
  Principals = {u1}
  ChunkCounts = {1}
  AdminOps = {"INGESTING", "READY", "FAILED", "DELETED"}
  Pieces = {p1, p2}
  Deployments = {TRUE, FALSE}
  Failures = {"start", "ingest", "chunks", "embed", "embeddings", "vector", "lexical", "ready", "complete", "fail_state", "failed", "delete"}
  MaxRestarts = 1
SYMMETRY Interchangeable
INVARIANTS IndexingTypeOK AtMostOneAttempt FailedRunLeavesNothing ReturnedRunIsComplete RemovedLeavesNoRows
