CONSTANTS
  t1 = t1
  t2 = t2
  t3 = t3
  strs = strs
  builder = builder
  plain = plain
  another = another
  nosy = nosy
  u0 = u0
  u1 = u1
  u2 = u2
  Thread <- MCThread
  Part <- MCPart
  Handler <- MCHandler
  Pairs <- MCPairs
  Default <- MCDefault
  Calls <- MCCalls
  LogMutex = LogMutex
  Nobody = Nobody
  MaxLogs = 1
  MaxCalls = 2
SPECIFICATION Spec
INVARIANTS
  TypeOK
  HandlerIsCurrent
  WaitsAreCallbacks
PROPERTIES
  CallsReturn
CHECK_DEADLOCK FALSE
