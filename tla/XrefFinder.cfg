SPECIFICATION Spec
CONSTANTS
  Sections <- PoolSections
  Sessions <- PoolSessions
INVARIANTS ReportsPointAtWhat ReferencesAreFound
