\* Three servos of which two are followed, and packets of one servo.
SPECIFICATION FairSpec
CONSTANTS
  MaxId = 3
  PerPacket = 1
  Span = 4
  Resolution = 4
  Orders <- Asked
  Limits <- Shifted
  Unknown = Unknown
INVARIANTS TypeOK Delivered
PROPERTIES Flushed
