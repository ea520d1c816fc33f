SPECIFICATION FairSpec
CONSTANTS
  Document <- MCDocument
  MaxBoxes = 2
  MaxChars = 4
  MaxBatchChars = 6
  ChunksPerGroup = 3
  Workers = 1
  MinSplit = 2
CHECK_DEADLOCK FALSE
INVARIANTS TypeOK TextAccounted
PROPERTIES JobEnds
