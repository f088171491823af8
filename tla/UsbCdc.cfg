CONSTANTS
  RX_EPSIZE = 2
  TX_EPSIZE = 2
  MAGIC <- Magic
  Packets <- HostPackets
  Writes <- Buffers
SPECIFICATION FairSpec
INVARIANTS TypeOK InputInOrder Kept OutputInOrder NotStuck Configured
PROPERTIES MagicHeeded WriteEnds Listens
CHECK_DEADLOCK FALSE
