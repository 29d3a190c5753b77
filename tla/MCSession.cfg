SPECIFICATION Spec
CONSTANTS
  W = 4
  Fuel = 9
  ChanCap = 2
  Scripts <- MCScripts
CHECK_DEADLOCK FALSE
INVARIANTS Sound ExpansionComplete DriversAgree
PROPERTIES OnlyDefsBind CoreMacrosMean
