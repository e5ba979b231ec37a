CONSTANTS
  MaxEntries = 4
  MaxLives = 2
  MaxOthers = 1
  Total <- MCTotal
  RingMax = 4
  SockCap = 1
  ChanCap = 1
  Decoded = {"Ack", "Reject", "Stop", "Forward"}

SPECIFICATION FairSpec
INVARIANTS TypeOK RingAccounted Kept BootstrapEmpty StopKeeps
PROPERTIES AppendsOnly Endures EndsWithBridge
CHECK_DEADLOCK FALSE
