SPECIFICATION Spec
CONSTANTS
  CellBase = 16
  DwordSize = 1
  PtrSize = 2
  GuidSize = 3
  ImageBase = 16
  Sects <- MCSects
  Fids <- MCFids
  Stubs <- MCStubs
  Slots <- MCSlots
  Exports <- MCExports
  Hits <- MCHits
  Answers <- MCAnswers
  Initial <- MCInitial
  Cases <- ImportCases
INVARIANT ImportIsFound
