SPECIFICATION LifecycleFairSpec
CONSTANTS
  a1 = a1
  a2 = a2
  d1 = d1
  d2 = d2
  Agents = {a1, a2}
  Devices = {d1, d2}
  DevicesOf <- MCDevicesOf
  ModulesOf <- MCModulesOf
  ModesOf <- MCModesOf
  NoAgent = NoAgent
  MaxServerRuns = 2
  m1 = m1
  m2 = m2
  MaxStarts = 2
INVARIANTS
  LifecycleInv
  RegistryWhole
  ServingIsReachable
PROPERTIES
  FirstWins
  SignalEnds
