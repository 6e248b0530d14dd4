SPECIFICATION Spec
CONSTANTS
  byte = byte
  short = short
  monday = monday
  sunday = sunday
  enabled = enabled
  NoValue = NoValue
  Channels = {byte, short, monday, sunday, enabled}
  Layout <- MC_Layout
  Commands <- MC_Commands
  Payloads <- MC_Payloads
  Offered <- MC_Offered
INVARIANTS
  TypeOK
  LedgerHolds
  CleanLineConfirms
  DamagedReadsAreTrue
