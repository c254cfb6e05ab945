CONSTANTS
  Slots = {ota0, ota1}
  MaxChunks = 2
  MaxLosses = 2
SPECIFICATION FairSpec
INVARIANTS
  TypeOK
  Recoverable
  WorkingCredentialsKept
PROPERTIES
  WrongForgotten
  ProbationEnds
