\* The button handler drains the buffer the main thread is reading.
CONSTANTS
  Slots = 4
  Bytes = 9
  Overrun = FALSE
  Button = "any"
SPECIFICATION Spec
INVARIANTS RemovesFromNonEmpty
