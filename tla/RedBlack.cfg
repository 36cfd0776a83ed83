CONSTANTS
  Name <- MCName
  NodeMax = 7
SPECIFICATION Spec
INVARIANTS
  TypeOK
  FindMatchFinds
  OneRoomPerName
  RedBlackRules
  Shallow
PROPERTIES
  EveryCallEnds
