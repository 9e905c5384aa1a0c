SPECIFICATION Spec
CONSTANTS
  r1 = r1
  r2 = r2
  r3 = r3
  Records = {r1, r2, r3}
  Rules <- MCRules
  Weights <- MCWeights
  Key <- MCKey
  Policies <- MCPolicies
INVARIANTS TypeOK NeverEmpty WalkIsProportional StickyWhenDropped
PROPERTIES KeepsPromise
