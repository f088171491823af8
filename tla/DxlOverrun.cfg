\* The same bus, asked whether every reply is a packet that has come to its end.
CONSTANTS
  DXL_MAX_PARAMS = 12
  Servos = {1, 2}
  Requests <- Asked
  Data <- Positions
  MaxWaiting = 2
  MaxWire = 1
  MaxCuts = 1
  Stalls = FALSE
SPECIFICATION BusSpec
INVARIANTS RepliesEnd
