SPECIFICATION Spec
CONSTANTS
  Files <- AllFiles
  OrdOf <- MCOrdOf
  StrayItems <- MCStrayItems
  StrayOrds = {0, 7}
  StrayTypes = {"none", "entry"}
INVARIANTS ItemsAreAsWritten RuleAppliesToItsOwnFunction NoRuleIsLost
PROPERTY SessionEnds
