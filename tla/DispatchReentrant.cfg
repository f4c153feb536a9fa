\* Two bindings, three commands nested two deep, and every way to crash.
CONSTANTS
  global = global
  flock = flock
  getall = getall
  pause = pause
  boids = boids
  null = null
  Names <- TwoNames
  Global = global
  NULL = null
  Verbs <- TwoVerbs
  Targets <- TwoTargets
  Hooks <- AllHooks
  Clearable <- TwoNames
  Rebindable <- Flock
  MaxBinds = 2
  MaxExecutes = 3
  MaxDepth = 2
SPECIFICATION Spec
INVARIANTS
  TypeOK
  TableInv
  PreAndPostPair
  PassedAreCalled
PROPERTY Implements
CHECK_DEADLOCK FALSE
