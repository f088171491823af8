\* Servo 1 stays at a position whose status ends in 255.
CONSTANTS
  DXL_MAX_PARAMS = 12
  Servos = {1, 2}
  Requests <- Asked
  Data <- DeafPositions
  MaxWaiting = 2
  MaxWire = 1
  MaxCuts = 1
  Stalls = FALSE
SPECIFICATION BusFairSpec
PROPERTIES Resynchronized
