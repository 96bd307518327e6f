SPECIFICATION RtmSpec
CONSTANTS
  k1 = k1
  lobby = lobby
  room = room
  empty = empty
  Call = {k1}
  Channel = {lobby, room}
  NoChannel = empty
  Lobby = lobby
  MaxFailures = 1
  MaxNotifications = 0
CHECK_DEADLOCK FALSE
INVARIANT ResultSet
