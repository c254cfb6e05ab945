CONSTANTS
  Consoles = {k1, k2, k3}
  Fds = {f1, f2, f3, f4}
  NoTask = null
  NoFd = closed
SPECIFICATION FairSpec
INVARIANTS
  TypeOK
  ConsoleOwned
  GiveSucceeds
PROPERTY
  ExitListensAgain
CHECK_DEADLOCK FALSE
