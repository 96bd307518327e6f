SPECIFICATION TQFairSpec
CONSTANTS
  j1 = j1
  j2 = j2
  j3 = j3
  a = a
  b = b
  w = w
  idle = idle
  Job = {j1, j2, j3}
  Caller = {a, b}
  Worker = w
  Idle = idle
CHECK_DEADLOCK FALSE
INVARIANTS TQTypeOK NoLostWakeUp AllRunBeforeDestroyed
PROPERTIES ImplementsExecutor SafeOnceCallersLeft TQDestructorReturns
