SPECIFICATION Spec
CONSTANTS
  Questions = {q1}
  MaxDay = 2
  Versions = {v1, v2}
  Absent = Absent
  Procs = {p1}
  Overlap = FALSE
INVARIANT OnlyApprovedIsDurable
CHECK_DEADLOCK FALSE
