\* Values of every type put to channels of every shape.
SPECIFICATION Spec
CONSTANTS
  Channels <- MC_Channels
  Numbers <- MC_Numbers
  Infinity = Infinity
  NotANumber = NotANumber
  On = On
  Off = Off
  Word = Word
  Nothing = Nothing
INVARIANTS
  TypeOK
  StaysInRange
  TypeAsPublished
  NearestIsShown
PROPERTIES
  PutBackKeeps
