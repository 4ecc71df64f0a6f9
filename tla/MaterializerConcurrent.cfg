SPECIFICATION Spec
CONSTANTS
  Documents = {d1}
  Questions = {q1}
  Contents = {c1}
  Navigation = Navigation
  Absent = Absent
  NoManifest = NoManifest
  Procs = {p1, p2}
  Kinds <- AllKinds
  MaxTokenizer = 2
SYMMETRY CommandSymmetry
INVARIANTS TypeOK IndexedRecordsAreCurrent BlessedPagesAreComplete
PROPERTIES NoSilentMutation SuccessMeansCurrent
CHECK_DEADLOCK FALSE
