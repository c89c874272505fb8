SPECIFICATION IndexingSafety
CONSTANTS
  Docs = {d1}
  Threads = {}
  Deleters = {}
  NoUser = NoUser
  Principals = {u1}
  ChunkCounts = {}
  AdminOps = {}
  Pieces = {p1, p2}
  Deployments = {TRUE}
  Failures = {"complete"}
  MaxRestarts = 0
INVARIANT FailureMarksDocument
