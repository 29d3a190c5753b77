SPECIFICATION FairSpec
CONSTANTS
  Thread = {t1}
  Main = t1
  Addr = {a1, a2, a3}
  NULL = NULL
  Size = {1, 2}
  Threshold = 2
  RootCallback = TRUE
  MaxAllocs = 5
CHECK_DEADLOCK FALSE
INVARIANTS
  TypeOK
  ListIntact
  MarksCleared
  RootsKept
PROPERTY CallsReturn
