SPECIFICATION CatalogSpec
CONSTANTS
  Docs = {d1}
  Threads = {t1, t2}
  NoUser = NoUser
  Principals = {u1}
  ChunkCounts = {1}
  AdminOps = {"INGESTING", "READY", "FAILED", "DELETED", "remove"}
PROPERTY LifecycleEnforced
