CONSTANTS
  Users = {u1, u2}
  Main = main
  Channels = {0, 1, 3}
  Values = {0, 2748}
  None = none
SPECIFICATION FairSpec
INVARIANTS
  TypeOK
  ValueKept
PROPERTY
  InitWakes
