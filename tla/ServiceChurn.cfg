\* Three browsers that come and go and want the two places beside the listener.
CONSTANTS
  c1 = c1
  c2 = c2
  c3 = c3
  listener = listener
  Conns <- ThreeConns
  Listener = listener
  MaxClients = 3
  Requests <- EachItsOwn
  MaxAsked = 2
SPECIFICATION FairSpec
INVARIANTS
  TypeOK
  NeverBlocked
  UserIsTold
  AnswersTheRequest
PROPERTIES
  EventuallyClosed
  EventuallyAccepted
CHECK_DEADLOCK FALSE
