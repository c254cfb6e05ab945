CONSTANTS
  Nodes = {n1, n2, n3}
  Null = null
  RxLen = 2
  CmdLen = 1
  MaxWrite = 2
  MaxSent = 3
SPECIFICATION Spec
INVARIANTS
  TypeOK
  ListWhole
PROPERTY
  TextInOrder
CHECK_DEADLOCK FALSE
