SPECIFICATION FairSpec
CONSTANTS
  Files <- MCFiles
  StartLimit = 3
INVARIANTS
  TypeOK
PROPERTIES
  ComesUp
  ReaderRuns
