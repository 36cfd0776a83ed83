CONSTANTS
  Conn = {c1, c2, c3}
  Name = {ann, bob, cat}
  Room = {red}
  LongRoom = {toolong}
  Text = {hi, bye}
  None = None
  Serv = Serv
  Stdin = Stdin
  UsrMax = 2
  HistMax = 2
  RoomMax = 1
  EINVAL = 22
  AbruptClose = FALSE
SYMMETRY Symmetry
SPECIFICATION Spec
INVARIANTS
  NamesUnique
  ListsAgree
PROPERTIES
  ImplementsService
  KeepsTheLastMessages
