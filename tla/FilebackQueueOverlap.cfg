SPECIFICATION Spec
CONSTANTS
  Questions = {q1}
  MaxDay = 2
  Versions = {v1, v2}
  Absent = Absent
  Procs = {p1, p2}
  Overlap = TRUE
SYMMETRY QueueSymmetry
INVARIANTS TypeOK RecordHasNote
PROPERTY PromiseKept
CHECK_DEADLOCK FALSE
