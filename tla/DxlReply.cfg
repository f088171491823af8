\* The same bus, asked whose reply dxl_get_reply returns.
CONSTANTS
  DXL_MAX_PARAMS = 12
  Servos = {1, 2}
  Requests <- Asked
  Data <- Positions
  MaxWaiting = 2
  MaxWire = 1
  MaxCuts = 1
  Stalls = FALSE
SPECIFICATION BusSpec
PROPERTIES ReplyOfLast
