CONSTANTS
  Name <- Names
  Room <- Rooms
  Text <- Texts
  RoomNameMax = 3
  UsrMax = 14
  EINVAL = 22
  IoBuff = 14
  WaitingMax = 2
SPECIFICATION Spec
INVARIANTS
  JoinAnswersRead
