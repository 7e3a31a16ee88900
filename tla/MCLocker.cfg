SPECIFICATION LockerSpec
CONSTANTS
  Devices = {d1, d2}
  Owners = {alice, bob}
  Durations = {0, 1, 2}
  MaxTime = 4
  NoHold = NoHold
INVARIANTS
  SameOwner
PROPERTIES
  ReservationKept
  LeaseSpec
