SPECIFICATION FairSpec
CONSTANTS
  rA = rA
  rB = rB
  Registers = {rA, rB}
  Values = {0, 1}
  NoOp = NoOp
  Ops <- MC_Ops
  MAX_RETRY = 3
  INPUT_BUFFER_LENGTH = 8
  MaxFaults = 3
  MaxConversations = 0
  GivesUp = {TRUE}
PROPERTIES
  ConversationEnds
  Recovers
