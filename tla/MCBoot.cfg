CONSTANTS
  b0 = b0
  Bit = {b0}
  PageWords = 2
  BlockWords = 2
  AppBlocks = 1
  USER_APP_START = 1
  AddrSpace = 5
  Record <- Records
  MaxFile = 2
  MaxLeaked = 1
SPECIFICATION Spec
INVARIANTS TypeOK AckedBitsStay NoStrayBits BootInstalls CommittedWhole FailureShown
PROPERTIES CommandsKeepBootloader
CHECK_DEADLOCK FALSE
