CONSTANTS
  Conn = {c1, c2}
  Name = {ann, bob}
  Room = {red, blue}
  LongRoom = {toolong}
  Text = {hi}
  None = None
  Serv = Serv
  Stdin = Stdin
  UsrMax = 2
  HistMax = 1
  RoomMax = 2
  EINVAL = 22
  AbruptClose = FALSE
SYMMETRY Symmetry
SPECIFICATION Spec
INVARIANTS
  RefusedAtMaximum
