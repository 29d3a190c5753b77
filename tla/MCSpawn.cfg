SPECIFICATION FairSpec
CONSTANTS
  Worker = {w1, w2, w3}
  Waits = {TRUE, FALSE}
  CreateMayFail = TRUE
CHECK_DEADLOCK FALSE
INVARIANTS
  ArgsHandedOver
  TeardownAfterSends
PROPERTY ProgramEnds
