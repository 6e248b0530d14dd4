\* Definition files of up to four channels, and calls that read them.
SPECIFICATION Spec
CONSTANTS
  a = a
  b = b
  c = c
  fb = fb
  FB = FB
  f4 = f4
  F4 = F4
  Definitions <- MC_Definitions
  Bytes = {fb, FB, f4, F4}
  Upper <- MC_Upper
  NoByte = NoByte
  MaxChannels = 4
  MaxWanted = 2
INVARIANTS
  TypeOK
  GroupedByCommand
  NoNeedlessConversation
  AnswerIsWanted
