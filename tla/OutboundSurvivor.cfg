\* A browser that stays, and one that leaves while a message is broadcast.
CONSTANTS
  c1 = c1
  c2 = c2
  Conns <- TwoConns
  Bucket <- SameBucket
  Buckets = 1
  Initially <- TwoConns
  Unreliable <- OneConn
  Capacity = 2
  MaxPosts = 1
SPECIFICATION FairSpec
PROPERTY PostedIsSent
CHECK_DEADLOCK FALSE
