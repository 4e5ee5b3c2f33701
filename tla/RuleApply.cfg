SPECIFICATION Spec
CONSTANTS
  Addresses <- MCAddresses
  Indexes <- MCIndexes
  Pdata <- MCPdata
  AddRefs <- MCAddRefs
  LdrRefs <- MCLdrRefs
  Pointer <- MCPointer
  Initial <- MCInitial
  Sessions <- MCSessions
INVARIANTS TriedOnce StorageIsOfTheMatch NoCandidateMissed AnswersAgree
