CONSTANTS
  Conn = {me, other}
  Me = me
  Name = {ann, bob}
  Nick = {ann}
  Room = {red, blue, Void, Garbage}
  LongRoom = {}
  Text = {hi}
  None = None
  Serv = Serv
  Stdin = Stdin
  UsrMax = 2
  HistMax = 1
  RoomMax = 2
  EINVAL = 22
  AbruptClose = TRUE
  Void = Void
  Garbage = Garbage
  Unnamed = Unnamed
  Freed = Freed
  Segv = Segv
  CR = 2
  Line <- Commands
  FlightMax = 0
  LastCmds = {"exit"}
  OthersRoom = {red}
  OthersMax = 1
  OthersFlightMax = 1

VIEW View
ACTION_CONSTRAINT BetweenLines
SPECIFICATION SysSpec
CHECK_DEADLOCK FALSE
INVARIANTS
  SysTypeOK
  ShowsItsRooms
  NoRoomTooMany
  MessageFindsItsRoom
  CountsRooms
  CurrentExists
  LogonComesFirst
PROPERTIES
  EndsAfterExit
