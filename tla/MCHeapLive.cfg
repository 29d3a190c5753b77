SPECIFICATION Spec
CONSTANTS
  Thread = {t1}
  Main = t1
  Addr = {a1, a2, a3}
  NULL = NULL
  Size = {1}
  Threshold = 1
  RootCallback = FALSE
  MaxAllocs = 3
CHECK_DEADLOCK FALSE
INVARIANT RootsSurvive
