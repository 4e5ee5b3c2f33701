SPECIFICATION Spec
CONSTANTS
  Searches <- AllSearches
  Rules <- AllRules
  RuleSet <- NumberedRules
  Places <- SmallPlaces
  YaraHits <- Hits
  Size = 5
  MaxGen = 4
  MaxDepth = 6
INVARIANTS MatchIsInOrder RangesWereSeen MatchIsFound
PROPERTY SearchReturns
