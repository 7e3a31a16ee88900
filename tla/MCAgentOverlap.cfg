SPECIFICATION AgentSpec
CONSTANTS
  Devices = {d1}
  Owners = {alice}
  Anonymous = {}
  Durations = {0, 1}
  DefaultDuration = 1
  MaxTime = 1
  NoHold = NoHold
  Runs = {r1, r2}
  MaxModules = 1
  SameUserOverlap = TRUE
  ForcedUnlock = FALSE
INVARIANTS
  BusyWhileExecuting
