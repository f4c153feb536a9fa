\* Three inits, posts and shutdowns: by a careful application, or in any order;
\* three sockets in one bucket and four in the other.
CONSTANTS
  c1 = c1
  c2 = c2
  c3 = c3
  c4 = c4
  listener = listener
  http = http
  command = command
  Listener = listener
  Proxies <- TwoProxies
  Conns <- FourConns
  Bucket <- SharedBucket
  Buckets = 2
  MaxInits = 3
SPECIFICATION FairSpec
INVARIANTS
  TypeOK
  ServedIsAlive
  ContextPerThread
  
PROPERTY ShutdownReturns
CHECK_DEADLOCK FALSE
