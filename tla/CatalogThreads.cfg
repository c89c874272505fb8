SPECIFICATION CatalogSpec
CONSTANTS
  Docs = {d1}
  Threads = {t1, t2}
  NoUser = NoUser
  Principals = {u1, u2}
  ChunkCounts = {1}
  AdminOps = {"INGESTING", "READY", "FAILED", "DELETED", "remove"}
INVARIANT CatalogTypeOK
PROPERTIES OnlyTheOwnerWrites RemovalIsFinal
