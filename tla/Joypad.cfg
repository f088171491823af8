CONSTANTS
  Axes <- Axis
  Positions <- Position
  None = None
  Events = 2
  Cuts = 1
SPECIFICATION FairSpec
INVARIANTS TypeOK Agreed
PROPERTIES IsMailbox Reaches Quits Noticed
CHECK_DEADLOCK FALSE
