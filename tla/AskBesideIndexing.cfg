SPECIFICATION AskSpec
CONSTANTS
  Docs = {d1}
  Threads = {}
  Deleters = {x1}
  NoUser = NoUser
  Principals = {u1, u2}
  ChunkCounts = {}
  AdminOps = {}
  Pieces = {p1, p2}
  Deployments = {TRUE}
  Failures = {}
  MaxRestarts = 0
  Askers = {a1}
  AskFailures = {"embed", "semantic", "lexical", "rerank", "generate"}
  MaxAttempts = 2
  Reranks = TRUE
  SearchTopK = 2
  HybridTopK = 2
  RerankTopK = 2
  RrfK = 60
  BlockSize <- MCBlockSize
  EvidenceMax = 11
INVARIANTS AskTypeOK OnlyOwnDocuments NothingRemovedIsCited AnswersAreGrounded
PROPERTIES AgreementWins AskEnds
