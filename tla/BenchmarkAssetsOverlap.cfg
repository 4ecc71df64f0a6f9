SPECIFICATION Spec
CONSTANTS
  Pins = {v1, v2}
  Procs = {p1, p2}
  MaxActs = 7
  Absent = Absent
SYMMETRY AssetSymmetry
INVARIANTS TypeOK IndexFitsDocuments FetchYieldsPinned
CHECK_DEADLOCK FALSE
