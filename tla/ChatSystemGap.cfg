CONSTANTS
  Conn = {me}
  Me = me
  Name = {ann}
  Nick = {ann}
  Room = {red, blue, Void, Garbage}
  LongRoom = {}
  Text = {hi}
  None = None
  Serv = Serv
  Stdin = Stdin
  UsrMax = 2
  HistMax = 1
  RoomMax = 3
  EINVAL = 22
  AbruptClose = FALSE
  Void = Void
  Garbage = Garbage
  Unnamed = Unnamed
  Freed = Freed
  Segv = Segv
  CR = 13
  Line <- Commands
  FlightMax = 1
  LastCmds = {"exit"}
  OthersRoom = {red}
  OthersMax = 1
  OthersFlightMax = 1

VIEW View
SPECIFICATION SysSpec
CHECK_DEADLOCK FALSE
INVARIANTS
  LineIsSent
