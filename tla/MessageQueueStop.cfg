SPECIFICATION MQFairSpec
CONSTANTS
  j1 = j1
  j2 = j2
  j3 = j3
  a = a
  b = b
  r = r
  idle = idle
  Job = {j1}
  Caller = {a}
  Runner = r
  Idle = idle
  MaxTime = 2
CHECK_DEADLOCK FALSE
PROPERTY StopEndsRun
