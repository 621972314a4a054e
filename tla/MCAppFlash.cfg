\* A one-bit word, pages and erase blocks of two words, one bootloader block,
\* two application blocks, and two illegal word addresses before the wrap.
CONSTANTS
  Bit = {b0}
  PageWords = 2
  BlockWords = 2
  AppBlocks = 2
  USER_APP_START = 1
  AddrSpace = 7
SPECIFICATION FlashSpec
INVARIANTS FlashTypeOK WriteExact RefusalHeals EraseComplete ReadExact
PROPERTIES BootloaderIntact
CHECK_DEADLOCK FALSE
