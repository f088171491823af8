\* No status ends in 255; data that look like a header; late and cut answers.
CONSTANTS
  DXL_MAX_PARAMS = 12
  Servos = {1, 2}
  Requests <- Asked
  Data <- Positions
  MaxWaiting = 2
  MaxWire = 4
  MaxCuts = 1
  Stalls = FALSE
SPECIFICATION BusFairSpec
INVARIANTS BusTypeOK Genuine
PROPERTIES Resynchronized
