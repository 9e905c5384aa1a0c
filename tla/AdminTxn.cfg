SPECIFICATION Spec
CONSTANTS
  v1 = v1
  v2 = v2
  Absent = Absent
  Nobody = Nobody
  Untouched = Untouched
  Sessions = {s1, s2}
  Values = {v1, v2}
  MaxRecid = 3
  MaxAudit = 2
  Initial <- MCInitial
  SnapshotIsolation = TRUE
SYMMETRY Interchangeable
INVARIANTS TypeOK TrailTells RestHoldsNothing
PROPERTY ActsAudited
CHECK_DEADLOCK FALSE
