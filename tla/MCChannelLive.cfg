SPECIFICATION FairSpec
CONSTANTS
  Thread = {t1, t2, t3}
  Box = {b1, b2, b3}
  NoBox = NoBox
  NoThread = NoThread
  Cap = 2
  Timeouts = {FALSE}
CHECK_DEADLOCK FALSE
INVARIANTS
  NoLostWakeup
  NoStandoff
  NoLeak
PROPERTIES ReceiversServed SendersServed
