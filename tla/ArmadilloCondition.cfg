SPECIFICATION Spec
CONSTANTS
  Highs <- SelectHighs
  Lows <- SelectLows
INVARIANT AliasesInvertCondition
\* A word is decoded once
CHECK_DEADLOCK FALSE
