SPECIFICATION Spec
CONSTANTS
  W = 4
  Fuel = 6
  ChanCap = 2
  Programs <- MCPrograms
CHECK_DEADLOCK FALSE
INVARIANTS IRWellFormed CompiledAgrees
