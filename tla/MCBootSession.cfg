CONSTANTS
  b0 = b0
  Bit = {b0}
  PageWords = 2
  BlockWords = 3
  AppBlocks = 1
  USER_APP_START = 1
  AddrSpace = 6
  Record <- TwoRecords
  Upload <- TwoPages
  MaxFile = 2
  MaxLeaked = 4
  MaxFaults = 3
SPECIFICATION SessionSpec
INVARIANTS SessionTypeOK DoneMeansInstalled NeverHangs LeaksNeedFaults
PROPERTIES Finishes ImplementsUpdate
CHECK_DEADLOCK FALSE
