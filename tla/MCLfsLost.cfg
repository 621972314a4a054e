CONSTANTS
  BlockCount = 5
  BlockWords = 6
  Lookahead = 3
  RecordWords = 4
  AsBlock <- Numbers
  MaxRecords = 8
  MaxBad <- OneBad
  Others <- Alone
SPECIFICATION FileSpec
PROPERTY NotCollected
