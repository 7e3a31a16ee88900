SPECIFICATION DevicesSpec
CONSTANTS
  Instances <- MCInstances
  FilePaths <- MCFilePaths
  DotDotNames <- MCDotDotNames
  MaxRuns = 2
  MaxOverlap = 2
  LastOutlet = 1
  MaxMeddling = 1
  Neighbour = TRUE
INVARIANTS
  DevicesTypeOK
  GpioTrue
  PowerTrue
  
  NothingLeft
  TransferTrue
PROPERTIES
  ChipWhole
  CancelEnds
