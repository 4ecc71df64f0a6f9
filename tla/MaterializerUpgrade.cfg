SPECIFICATION FairSpec
CONSTANTS
  Documents = {d1}
  Questions = {}
  Contents = {c1}
  Navigation = Navigation
  Absent = Absent
  NoManifest = NoManifest
  Procs = {p1, p2}
  Kinds = {"rebuild"}
  MaxTokenizer = 2
PROPERTY RebuildRepairs
CHECK_DEADLOCK FALSE
