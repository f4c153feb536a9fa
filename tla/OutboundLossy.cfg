\* Both browsers join and may leave; one bucket, three posts, a queue of two. The process may die.
CONSTANTS
  c1 = c1
  c2 = c2
  Conns <- TwoConns
  Bucket <- SameBucket
  Buckets = 1
  Initially <- Neither
  Unreliable <- TwoConns
  Capacity = 2
  MaxPosts = 3
SPECIFICATION FairSpec
INVARIANTS
  TypeOK
  OnePlace
  OvertakenIsHeld
  ExitAfterLoss
PROPERTY Drained
CHECK_DEADLOCK FALSE
