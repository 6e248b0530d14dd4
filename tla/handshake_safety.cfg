SPECIFICATION Spec
CONSTANTS
  rA = rA
  rB = rB
  Registers = {rA, rB}
  Values = {0, 1}
  NoOp = NoOp
  Ops <- MC_Ops
  MAX_RETRY = 2
  INPUT_BUFFER_LENGTH = 8
  MaxFaults = 3
  MaxConversations = 4
  GivesUp = {TRUE, FALSE}
INVARIANTS
  TypeOK
PROPERTIES
  KeepsPromise
CHECK_DEADLOCK FALSE
