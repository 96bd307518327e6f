SPECIFICATION TransportSpec
CONSTANTS
  m1 = m1
  m2 = m2
  m3 = m3
  c1 = c1
  c2 = c2
  none = none
  None = none
  Message = {m1, m2}
  Closure = {}
  MaxRetry = 2
  MaxTasks = 0
CHECK_DEADLOCK FALSE
INVARIANT FlushedBeforeExit
