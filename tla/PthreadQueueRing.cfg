\* Three threads, a ring of two slots, elements v1 and NULL.
CONSTANTS
  t1 = t1
  t2 = t2
  t3 = t3
  v1 = v1
  NULL = NULL
  Threads <- ThreeThreads
  Values <- OneValue
  Capacity = 2
SPECIFICATION FairSpec
INVARIANTS
  TypeOK
  QueueInv
PROPERTIES
  Linearizable
  LockReleased
