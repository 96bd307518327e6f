SPECIFICATION FairSpec
CONSTANTS
  r1 = r1
  r2 = r2
  r3 = r3
  n1 = n1
  i1 = i1
  i2 = i2
  i3 = i3
  a = a
  b = b
  none = none
  None = none
  Request = {r1, r2}
  Notification = {n1}
  Message = {r1, r2, n1}
  Id = {i1, i2}
  Closure = {i1, i2}
  Caller = {a}
  MaxRetry = 1
  MaxTasks = 0
CONSTRAINT InOrder
CHECK_DEADLOCK FALSE
INVARIANTS TypeOK ConnectedFlag DestructorReleases
PROPERTY TimeoutWorks
