SPECIFICATION Spec
CONSTANTS
  Documents = {d1}
  Answers = {}
  Contents = {c1, c2}
  Procs = {p1}
  MaxEdits = 1
  Absent = Absent
INVARIANT SnapshotIsAcceptedContent
CHECK_DEADLOCK FALSE
