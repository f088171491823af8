\* Two channels of one servo each; interrupts served late, registration while
\* the other servo is driven, orders below and above every range.
CONSTANTS
  PerChannel = 1
  Channels = 2
  Overflow = 2
  DefaultInit = 1
  Pins = {p1, p2, p3}
  Positions = {0, 3}
  Calibrations <- Calibrated
  Punctual = FALSE
  RegisterLive = TRUE
SPECIFICATION Spec
SYMMETRY PinSymmetry
INVARIANTS TypeOK DisabledIsLow PositionInRange
