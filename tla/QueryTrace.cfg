SPECIFICATION TraceSpec
CONSTANTS
  None = None
  a = a
  b = b
  Threads <- MCThreads
  Deployments <- MCDeployments
  ProviderErrors <- MCProviderErrors
  MaxAttempts = 3
  SearchTopK = 1
  HybridTopK = 1
  RerankTopK = 1
  MaxQuestions = 2
  Followed <- MCFollowed
INVARIANTS
  TraceTypeOK
  CallsAreBounded
  LoadsAreBounded
  TraceTellsTheStages
  OneTracePerQuestion
  CountersAgree
PROPERTIES
  QuestionsAreCounted
CHECK_DEADLOCK FALSE
