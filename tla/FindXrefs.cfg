SPECIFICATION Spec
CONSTANTS
  Funcs <- MCFuncs
  Modules <- MCModules
  Sessions <- MCSessions
INVARIANT DiscoveredScannedTwiceAtMost
PROPERTIES ImplementsXrefSearch SessionTerminates
