SPECIFICATION RtmFairSpec
CONSTANTS
  k1 = k1
  lobby = lobby
  room = room
  empty = empty
  Call = {k1}
  Channel = {lobby, room}
  NoChannel = empty
  Lobby = lobby
  MaxFailures = 2
  MaxNotifications = 1
CHECK_DEADLOCK FALSE
INVARIANTS RtmTypeOK ReconnectRestores NoFutureLeft PromiseInOnePlace OneAtATime
PROPERTIES TasksInTurn RtmDestructorReturns CallsServed
