SPECIFICATION FairSpec
CONSTANTS
  Key = {k1, k2, k3, k4}
  Value = {1, 2}
  None = None
  Cap = 3
INVARIANTS
  TypeOK
  KeysReachable
PROPERTIES ImplementsDictionary CallsReturn
