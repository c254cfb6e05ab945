CONSTANTS
  TxLen = 4
  BufSize = 8
  TextSizes = {4}
  Mtus = {9, 10}
  DefaultMtu = 9
SPECIFICATION FairSpec
INVARIANTS
  TypeOK
  LineArrives
PROPERTY
  FullQueueDrains
