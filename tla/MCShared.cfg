SPECIFICATION Spec
CONSTANTS
  t1 = t1
  t2 = t2
  n1 = n1
  n2 = n2
  w1 = w1
  w2 = w2
  Thread <- MCThread
  Definer <- MCThread
  Name <- MCName
  Val <- MCVal
  None = None
  MaxEntries = 3
  Limits <- MCLimits
INVARIANTS FindsNewest OwnWrites
SYMMETRY Swaps
