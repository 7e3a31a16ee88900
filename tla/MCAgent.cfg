SPECIFICATION AgentSpec
CONSTANTS
  Devices = {d1}
  Owners = {alice, anon}
  Anonymous = {anon}
  Durations = {0, 1}
  DefaultDuration = 1
  MaxTime = 2
  NoHold = NoHold
  Runs = {r1, r2}
  MaxModules = 1
  SameUserOverlap = TRUE
  ForcedUnlock = TRUE
SYMMETRY RunSymmetry
INVARIANTS
  AgentTypeOK
  BusyHasRun
  OkIsHonest
PROPERTIES
  RunsTakeOnlyTheirs
