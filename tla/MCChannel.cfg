SPECIFICATION Spec
CONSTANTS
  Thread = {t1, t2, t3}
  Box = {b1, b2, b3}
  NoBox = NoBox
  NoThread = NoThread
  Cap = 2
  Timeouts = {TRUE, FALSE}
CHECK_DEADLOCK FALSE
SYMMETRY Symmetry
INVARIANTS
  TypeOK
  RingConsistent
  OneOwner
PROPERTY ImplementsBoundedQueue
