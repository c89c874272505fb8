SPECIFICATION ChunkSpec
CONSTANTS
  Texts <- MCTexts
  Configs <- MCConfigs
INVARIANTS ChunkTypeOK NothingLost
PROPERTIES EndsAdvance ChunkingEnds
CHECK_DEADLOCK FALSE
