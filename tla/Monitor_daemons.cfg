SPECIFICATION FairSpec
CONSTANTS
  Daemons <- MCDaemons
  Window = 2
  StaleAfter = 1
  SeedAfter = 1
  Raw <- MCRaw
  Fstabs <- MCFstabs
  Elapsed <- MCElapsed
  MaxNow = 2
  MaxInbox = 1
  None = None
INVARIANTS TypeOK Covered
PROPERTIES Grounded NotFlooded Stops ExitsWithBridge
