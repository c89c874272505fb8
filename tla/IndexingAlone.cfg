SPECIFICATION IndexingSpec
CONSTANTS
  Docs = {d1, d2}
  Threads = {t1}
  Deleters = {x1}
  NoUser = NoUser
  Principals = {u1}
  ChunkCounts = {}
  AdminOps = {"DELETED"}
  Pieces = {p1}
  Deployments = {TRUE}
  Failures = {"ingest", "chunks", "embed", "embeddings", "vector", "lexical", "ready"}
  MaxRestarts = 0
INVARIANTS ReadyMeansComplete FailureMarksDocument
PROPERTIES ImplementsLifecycle IngestingEnds
