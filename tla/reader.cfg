\* The port opened and closed without end, plugged and unplugged, with a read that raises.
SPECIFICATION FairSpec
CONSTANTS
  r1 = r1
  r2 = r2
  Readers = {r1, r2}
  NoReader = NoReader
  NoByte = NoByte
  MaxBytes = 4
  MaxErrors = 1
INVARIANTS
  TypeOK
  InOrder
  NoReaderLeft
  EveryByteOnce
PROPERTIES
  ByteArrives
  CloseEndsReader
