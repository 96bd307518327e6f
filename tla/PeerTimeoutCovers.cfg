SPECIFICATION Spec
CONSTANTS
  r1 = r1
  r2 = r2
  r3 = r3
  n1 = n1
  i1 = i1
  i2 = i2
  i3 = i3
  a = a
  b = b
  none = none
  None = none
  Request = {r1, r2}
  Notification = {}
  Message = {r1, r2}
  Id = {i1, i2}
  Closure = {i1, i2}
  Caller = {a}
  MaxRetry = 1
  MaxTasks = 0
CHECK_DEADLOCK FALSE
INVARIANT TimeoutCovers
