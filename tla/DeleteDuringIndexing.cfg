SPECIFICATION IndexingSafety
CONSTANTS
  Docs = {d1}
  Threads = {}
  Deleters = {x1}
  NoUser = NoUser
  Principals = {u1}
  ChunkCounts = {}
  AdminOps = {}
  Pieces = {p1, p2}
  Deployments = {TRUE}
  Failures = {}
  MaxRestarts = 0
INVARIANT DeletionIsTotal
