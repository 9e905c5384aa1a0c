SPECIFICATION Spec
CONSTANTS
  Sessions = {s1, s2}
  Apex = apex
  Names = {apex, www}
  Views = {v1}
  Recids = {r1, r2}
  ManualTypes = {"A", "SOA"}
  SnapshotIsolation = TRUE
  Present = Present
  Absent = Absent
  Untouched = Untouched
  Nobody = Nobody
SYMMETRY Interchangeable
INVARIANTS SavedAgain
