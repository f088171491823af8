CONSTANTS
  RX_EPSIZE = 2
  TX_EPSIZE = 2
  MAGIC <- Magic
  Packets <- HostPackets
  Writes <- Buffers
SPECIFICATION Spec
INVARIANTS NoOverwrite
CHECK_DEADLOCK FALSE
