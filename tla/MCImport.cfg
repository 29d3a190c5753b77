SPECIFICATION FairSpec
CONSTANTS
  File <- MCFile
  Root = "main.sq"
  Module <- MCModule
  Candidates <- MCCandidates
  Global <- MCGlobal
  Type <- MCType
  AnyType = "Any"
  Programs <- MCPrograms
CHECK_DEADLOCK FALSE
INVARIANTS
  LoadedOnce
  MissingExhausted
  NearestWins
  SelfContainedReads
PROPERTY LoadingEnds
