CONSTANTS
  Slots = {ota0, ota1}
  MaxChunks = 2
  MaxLosses = 2
SPECIFICATION FairSpec
PROPERTY CleanedUp
