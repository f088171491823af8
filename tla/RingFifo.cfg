\* A buffer of four items, none received while it is full.
CONSTANTS
  Slots = 4
  Bytes = 9
  Overrun = FALSE
  Button = "never"
SPECIFICATION FairSpec
INVARIANTS TypeOK
PROPERTIES IsFifo EveryByteRead
