CONSTANTS
  MaxEntries = 4
  MaxLives = 1
  MaxOthers = 1
  Total <- MCTotal
  RingMax = 4
  SockCap = 1
  ChanCap = 1
  Decoded = {"Ack", "Reject", "Stop"}

SPECIFICATION FairSpec
PROPERTY Endures
CHECK_DEADLOCK FALSE
