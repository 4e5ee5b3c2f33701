SPECIFICATION Spec
CONSTANTS
  Highs <- Halves
  Lows <- LowHalves
INVARIANTS
  RecordHasRoom
  BranchesAreFollowed
  AddressPartsAreExact
  OperandsMatter
\* A word is decoded once
CHECK_DEADLOCK FALSE
