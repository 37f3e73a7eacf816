SPECIFICATION MCSpec
CONSTANTS
  Agents = {a1, a2}
  NoAgent = NoAgent
  a1 = a1
  v1 = v1
  v2 = v2
  i1 = i1
  Configs = {v1, v2}
  FormConfigs <- Typed
  OtherConfigs <- Scripted
  NoConfig = NoConfig
  Clients = {c1, c2}
  NoClient = NoClient
  Torn = Torn
  MaxAsks = 2
  MaxCrashes = 1
  MaxFaults = 1
  Ids = {i1, i2}
  NoId = NoId
  MaxTroubles = 1
  MaxMounts = 2
  MaxLists = 1
INVARIANTS AckedSurvives OneSave OneCreation RecordHasItsLog LogIsOfTarget
PROPERTIES ImplementsDurableMap RequestsSettle
CHECK_DEADLOCK FALSE
