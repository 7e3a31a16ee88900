SPECIFICATION OrderedFairSpec
CONSTANTS
  Devices = {d1}
  Owners = {alice, bob}
  Anonymous = {}
  Durations = {1}
  DefaultDuration = 1
  MaxTime = 2
  NoHold = NoHold
  Runs = {r1, r2}
  MaxModules = 1
  SameUserOverlap = FALSE
  ForcedUnlock = FALSE
INVARIANTS
  HandlerExclusion
  BusyWhileExecuting
PROPERTIES
  HeldIsReleased
  CancelledRunReturns
