\* Three frames of any kind in any order, and a reply at any time.
CONSTANTS
  Frames <- Browsers
  MaxLen = 65536
  MaxRx = 4096
  SizeMax = 1073741823
  MaxFrames = 3
  Replies <- Lengths
  MaxReplies = 1
SPECIFICATION FairSpec
INVARIANTS
  TypeOK
  WireIsFramed
PROPERTIES
  ReadsFrames
  EventuallyPassedOn
CHECK_DEADLOCK FALSE
