CONSTANTS
  Conn = {c1, c2}
  Name = {ann, bob}
  Room = {red, blue, green}
  LongRoom = {}
  Text = {hi}
  None = None
  Serv = Serv
  Stdin = Stdin
  UsrMax = 2
  HistMax = 1
  RoomMax = 2
  EINVAL = 22
  AbruptClose = TRUE
SYMMETRY Symmetry
VIEW ViewWithoutTexts
SPECIFICATION Spec
CHECK_DEADLOCK FALSE
INVARIANTS
  TypeOK
  NoGhosts
  RoomsCount
  JoinReplyTrue
  AtMostRoomMax
  WatchesOnlyOpen
  MessageReachesMembers
PROPERTIES
  OneUserAtATime
  RefusalChangesNothing
