CONSTANTS
  BlockCount = 6
  BlockWords = 6
  Lookahead = 3
  RecordWords = 4
  AsBlock <- Numbers
  MaxRecords = 8
  MaxBad <- NoneBad
  Others <- Alone
SPECIFICATION FileSpec
INVARIANT WholeRecords
