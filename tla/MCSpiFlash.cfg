\* Two sectors of two pages of two bytes, with any content at first.
CONSTANTS
  b0 = b0
  Bit = {b0}
  PageSize = 2
  SectorPages = 2
  BlockSectors = 1
  Blocks = 2
  Calls <- AllCalls
SPECIFICATION FairSpiSpec
INVARIANTS SpiTypeOK ProgExact FetchExact EraseExact LostOnlyAfterReset
PROPERTIES CallsReturn
