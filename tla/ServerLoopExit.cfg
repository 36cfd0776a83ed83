CONSTANTS
  Peer = {p1, p2}
  InboxMax = 2
SPECIFICATION Spec
CHECK_DEADLOCK FALSE
PROPERTIES
  ExitIsAnswered
