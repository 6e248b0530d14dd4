\* Two threads read and write; the pump changes values, the line and the cable interfere.
SPECIFICATION Spec
CONSTANTS
  t1 = t1
  t2 = t2
  c1 = c1
  c2 = c2
  s1 = s1
  rA = rA
  rB = rB
  Threads = {t1, t2}
  Channels = {c1, c2, s1}
  Registers = {rA, rB}
  RegisterOf <- MC_RegisterOf
  Writable = {c1, c2}
  StubChannels = {c2}
  Values = {0, 1}
  Offered <- MC_ReadOffered
  Panel = {c2}
  Damaged <- MC_Damaged
  MAX_TRIES = 2
  FooterValue = FooterValue
  NoThread = NoThread
  NoValue = NoValue
  UnknownId = UnknownId
  TooLarge = TooLarge
  NotANumber = NotANumber
SYMMETRY Symmetry
INVARIANTS
  TypeOK
  ReadsWereHeld
  ClientErrorNeverWrites
  NoOrphanPort
