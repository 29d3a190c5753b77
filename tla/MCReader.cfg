SPECIFICATION FairSpec
CONSTANTS
  Letter = {"a", "b"}
  Digit = {"0", "1"}
  Space <- MCSpace
  Texts <- MCTexts
  Programs <- MCPrograms
CHECK_DEADLOCK FALSE
INVARIANTS
  NothingLost
  PrintsBack
PROPERTY SpacedTextsRead
