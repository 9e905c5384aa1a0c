SPECIFICATION Spec
CONSTANTS
  r1 = r1
  r2 = r2
  Records = {r1, r2}
  Width <- MCWidth
  Sources <- NoOptOut
  RuleSet <- MCRuleSet
  Policies <- MCPolicies
  Geo <- MCGeo
  Countries = {"DE", "FR"}
INVARIANTS ZeroIsGlobal
CHECK_DEADLOCK FALSE
