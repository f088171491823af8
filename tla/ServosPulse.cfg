\* Two servos sharing one channel; interrupts served in time, registration
\* before start, positions away from the ends of the period.
CONSTANTS
  PerChannel = 2
  Channels = 1
  Overflow = 4
  DefaultInit = 1
  Pins = {p1, p2}
  Positions = {2, 3}
  Calibrations <- None
  Punctual = TRUE
  RegisterLive = FALSE
SPECIFICATION FairSpec
INVARIANTS PulseWithinSlot
PROPERTIES PulseWidth Refreshed
