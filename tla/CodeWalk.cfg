SPECIFICATION Spec
CONSTANTS
  Programs <- SmallPrograms
  MaxGen = 3
INVARIANTS RangesWereVisited WalkIsSound WalkIsComplete
PROPERTY Terminates
