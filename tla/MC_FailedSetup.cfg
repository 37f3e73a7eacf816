SPECIFICATION Spec
CONSTANTS
  r1 = r1
  r2 = r2
  r3 = r3
  r4 = r4
  Sids = {s1, s2}
  Workspaces = {w1}
  Requests = {r1, r2, r3}
  NoWs = NoWs
  NoSid = NoSid
  NoChan = NoChan
  Calls <- FailedSetupCalls
  Asked = {w1}
  Repos = {"branch"}
  Workers = {s1, s2}
  MaxSessions = 0
  SandboxFaults = FALSE
INVARIANTS RemovedVolumeIsEmpty
