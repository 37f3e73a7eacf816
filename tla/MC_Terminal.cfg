SPECIFICATION FairSpec
CONSTANTS
  s1 = s1
  s2 = s2
  Sessions <- MCSessions
  Output <- MCOutput
  NoSession = NoSession
  maxReconnectAttempts = 1
  MaxEffects = 2
  Window = 3
  Queue = 2
  MaxDrops = 1
  MaxKeys = 1
INVARIANTS TypeOK SoleSocket SoleTerminal NoForeignOutput CaughtUp
PROPERTIES Settles
CHECK_DEADLOCK FALSE
