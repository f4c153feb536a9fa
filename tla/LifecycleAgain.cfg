\* A second init after the shutdown.
CONSTANTS
  c1 = c1
  c2 = c2
  c3 = c3
  c4 = c4
  listener = listener
  http = http
  command = command
  Listener = listener
  Proxies <- TwoProxies
  Conns <- OneConn
  Bucket <- OwnBucket
  Buckets = 6
  MaxInits = 2
SPECIFICATION Spec
INVARIANT ServesWhenUp
CHECK_DEADLOCK FALSE
