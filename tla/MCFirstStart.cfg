CONSTANTS
  h1 = h1
  h2 = h2
  h3 = h3
  h4 = h4
  Handles <- MCHandles
  CounterMax = 7
SPECIFICATION FirstSpec
CHECK_DEADLOCK FALSE
INVARIANTS
  FirstTypeOK
  ConnectedWhileAlive
  CounterIsExact
  RunningHasTables
