\* The button pressed while `start' enables the servos one by one.
CONSTANTS
  PerChannel = 1
  Channels = 2
  Overflow = 2
  DefaultInit = 1
  Pins = {p1, p2}
  Positions = {}
  Calibrations <- None
  Punctual = TRUE
  RegisterLive = FALSE
SPECIFICATION StopSpec
SYMMETRY PinSymmetry
INVARIANTS AllOrNone
