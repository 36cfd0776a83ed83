CONSTANTS
  Peer = {p1, p2, p3}
  InboxMax = 1
SPECIFICATION Spec
CHECK_DEADLOCK FALSE
INVARIANTS
  TypeOK
  NeverBlocks
PROPERTIES
  EverybodyIsRead
  ExitIsGranted
