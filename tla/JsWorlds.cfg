\* Two connections, lost messages and callbacks that throw; one connection that
\* loses messages, with three commands or two replies each; one that stays open.
CONSTANTS
  MaxConnects = 2
  MaxIssues = 3
  Worlds <- RoughToSteady
SPECIFICATION FairSpec
INVARIANTS
  OnlyReconnectConfuses
  RightCallbackOnce
  Remembered
PROPERTY Answered
CHECK_DEADLOCK FALSE
