\* The hour changes between the registers.
SPECIFICATION Spec
CONSTANTS
  N = 3
  Radix <- MC_Radix
  CLOCK_FIELDS <- MC_ClockFields
  NoPlace = NoPlace
  NoTime = NoTime
PROPERTIES
  SetTimeIsSystemTime
