\* Set-time by registers and by frame.
SPECIFICATION Spec
CONSTANTS
  N = 3
  Radix <- MC_Radix
  CLOCK_FIELDS <- MC_ClockFields
  NoPlace = NoPlace
  NoTime = NoTime
INVARIANTS
  TypeOK
  FailureLeavesPrefix
PROPERTIES
  SetTimeSetsClock
