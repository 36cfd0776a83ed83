CONSTANTS
  Conn = {c1, c2, c3}
  Name = {ann, bob}
  Room = {red, blue}
  LongRoom = {}
  Text = {hi}
  None = None
  Serv = Serv
  Stdin = Stdin
  UsrMax = 2
  HistMax = 1
  RoomMax = 1
  EINVAL = 22
  AbruptClose = TRUE
SYMMETRY Symmetry
SPECIFICATION Spec
CHECK_DEADLOCK FALSE
PROPERTIES
  DropsAndMovesOn
