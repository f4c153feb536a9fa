\* Every kind of text, two receives in a full queue, a full out queue.
CONSTANTS
  Texts <- EveryText
  Handlers = {"leave", "decref"}
  MaxReceived = 3
  InCapacity = 2
  OutCapacity = 1
SPECIFICATION FairSpec
INVARIANTS
  TypeOK
  OwnedIsAlive
  ExecutedInOrder
  
PROPERTY EventuallyDispatched
CHECK_DEADLOCK FALSE
