SPECIFICATION AskSafety
CONSTANTS
  Docs = {d1}
  Threads = {t1}
  Deleters = {}
  NoUser = NoUser
  Principals = {u1}
  ChunkCounts = {}
  AdminOps = {"DELETED"}
  Pieces = {p1, p2}
  Deployments = {TRUE}
  Failures = {}
  MaxRestarts = 0
  Askers = {a1}
  AskFailures = {}
  MaxAttempts = 2
  Reranks = TRUE
  SearchTopK = 2
  HybridTopK = 2
  RerankTopK = 2
  RrfK = 60
  BlockSize <- MCBlockSize
  EvidenceMax = 11
PROPERTIES RetrievalAcrossReady
