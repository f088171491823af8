CONSTANTS
  Axes <- Axis
  Positions <- Position
  None = None
  Events = 3
  Cuts = 0
SPECIFICATION Spec
INVARIANTS Enabling
CHECK_DEADLOCK FALSE
