SPECIFICATION Spec
CONSTANTS
  r1 = r1
  r2 = r2
  Records = {r1, r2}
  Width <- MCWidth
  Sources <- MCSources
  RuleSet <- MCRuleSet
  Policies <- MCPolicies
  Geo <- MCGeo
  Countries = {"DE", "FR"}
INVARIANTS ScopeSound
CHECK_DEADLOCK FALSE
