CONSTANTS
  BlockCount = 12
  BlockWords = 6
  Lookahead = 5
  RecordWords = 5
  AsBlock <- Numbers
  MaxRecords = 6
  MaxBad <- OneRoomy
  Others <- Shared
SPECIFICATION FairFileSpec
INVARIANTS FileTypeOK ReadsBack TraverseWhole
PROPERTIES CommitsAllSent FailsWhenFull WritesReturn CopyOnWrite
