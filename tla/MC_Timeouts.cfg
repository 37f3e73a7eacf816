SPECIFICATION FairSpec
CONSTANTS
  r1 = r1
  r2 = r2
  r3 = r3
  r4 = r4
  Sids = {s1, s2}
  Workspaces = {w1}
  Requests = {r1, r2, r3, r4}
  NoWs = NoWs
  NoSid = NoSid
  NoChan = NoChan
  Calls <- TimeoutCalls
  Asked = {w1, NoWs}
  Repos = {"none"}
  Workers = {}
  MaxSessions = 1
  SandboxFaults = FALSE
PROPERTIES CallsReturn
INVARIANTS GuardHasOneOwner OneCleaner WaitCoversCleanup HistoryKept ContainerOwned
