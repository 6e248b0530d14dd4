\* A counter read in two commands.
SPECIFICATION Spec
CONSTANTS
  Base = 3
  MaxHigh = 2
  MAX_TRIES = 2
  NoValue = NoValue
INVARIANTS
  TypeOK
  CounterWasHeld
  CounterNeverLow
