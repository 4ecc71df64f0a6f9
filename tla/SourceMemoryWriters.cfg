SPECIFICATION Spec
CONSTANTS
  Documents = {d1, d2}
  Answers = {a1}
  Contents = {c1, c2}
  Procs = {p1, p2}
  MaxEdits = 1
  Absent = Absent
SYMMETRY MemorySymmetry
INVARIANTS TypeOK NoDanglingReference PruneRemovesUnshared IngestRecordsFiles TombstonesAccumulate
CHECK_DEADLOCK FALSE
