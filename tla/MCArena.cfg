SPECIFICATION Spec
CONSTANTS
  Asked = 0
  MinChunk = 12
  Header = 3
  Ptr = 2
  NodeSize = 4
  l1 = l1
  l2 = l2
  NoList = NoList
  Lists <- MCLists
  Lens = {0, 2}
  Hints = {0}
  MaxCount = 6
  MaxBlocks = 10
INVARIANTS BlocksDisjoint TreeKept
CHECK_DEADLOCK FALSE
