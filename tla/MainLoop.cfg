CONSTANTS
  TERMINAL_BUFFER_SIZE = 2
  TERMINAL_MAX_ARGUMENTS = 1
  Chars <- Letters
  Rhock <- RhockName
  Rc <- RcName
  rhock_exit <- Exit
  Byte <- Bytes
SPECIFICATION FairSpec
INVARIANT StreamIsWhole
PROPERTIES TwiceEnds EndsOnExit Ticks
