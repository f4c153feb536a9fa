\* Pages that lose messages, fill the queues of two, or stay connected.
CONSTANTS
  MaxConnects = 2
  MaxIssues = 3
  Worlds <- Pages
  InCapacity = 2
  OutCapacity = 2
SPECIFICATION FairSpec
PROPERTIES
  Implements
  RoundTrip
CHECK_DEADLOCK FALSE
