\* Two blocks of two sectors of one page of two bytes.
CONSTANTS
  b0 = b0
  Bit = {b0}
  PageSize = 2
  SectorPages = 1
  BlockSectors = 2
  Blocks = 2
  Calls <- BlockCalls
SPECIFICATION SpiSpec
INVARIANT BlockWritten
