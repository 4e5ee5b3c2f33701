SPECIFICATION Spec
CONSTANTS
  Funcs <- MCFuncs
  Modules <- MCModules
  Slots = 2
  MaxTasks = 8
INVARIANTS SlotsAreSafe NoTaskOutlivesSearch DiscoveredScannedOnce
PROPERTIES ImplementsXrefSearch SearchTerminates
