\* Liveness: no symmetry; a PUT and a read of two registers,
\* three attempts as in the code, one value.
SPECIFICATION FairSpec
CONSTANTS
  t1 = t1
  t2 = t2
  c1 = c1
  c2 = c2
  s1 = s1
  rA = rA
  rB = rB
  Threads = {t1, t2}
  Channels = {c1, c2, s1}
  Registers = {rA, rB}
  RegisterOf <- MC_RegisterOf
  Writable = {c1, c2}
  StubChannels = {c2}
  Values = {0}
  Offered <- MC_LiveOffered
  Panel = {}
  Damaged <- MC_Damaged
  MAX_TRIES = 3
  FooterValue = FooterValue
  NoThread = NoThread
  NoValue = NoValue
  UnknownId = UnknownId
  TooLarge = TooLarge
  NotANumber = NotANumber
PROPERTIES
  LockIsReleased
  ShutdownDrains
