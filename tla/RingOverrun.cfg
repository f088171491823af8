\* The same buffer, with bytes received whenever they come and the button
\* pressed between two reads.
CONSTANTS
  Slots = 4
  Bytes = 12
  Overrun = TRUE
  Button = "between"
SPECIFICATION Spec
INVARIANTS RemovesFromNonEmpty
PROPERTIES InOrder
