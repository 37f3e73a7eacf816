SPECIFICATION FairSpec
CONSTANTS
  Workspaces = {w1, w2}
  NoWs = NoWs
  FirstWs = w1
  MaxSid = 2
  MaxCalls = 2
  MaxActs = 2
  MaxOthers = 1
  MaxFaults = 1
INVARIANTS StoppedIsBacked SpinnersAreTrue
PROPERTIES ServesSessions NoForeignRead PageConverges ListConverges
CHECK_DEADLOCK FALSE
