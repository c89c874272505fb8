SPECIFICATION LimiterSpec
CONSTANTS
  Threads = {t1, t2}
  MaxRequests = 2
  Window = 2
  MaxClock = 5
INVARIANTS LimiterTypeOK QueueIsBounded
PROPERTIES ExactAlone AllowEnds
