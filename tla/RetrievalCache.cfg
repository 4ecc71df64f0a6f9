SPECIFICATION Spec
CONSTANTS
  w1 = w1
  w2 = w2
  r1 = r1
  r2 = r2
  x = x
  y = y
  Roots = {w1, w2}
  Names = {r1, r2}
  Contents = {x, y}
  Installed = "kiwi_morphology_v1"
  Other = "regex_v1"
  None = None
  Capacity = 2
  MaxWrites = 2
  MaxCalls = 4
SYMMETRY Symmetry
CHECK_DEADLOCK FALSE
INVARIANTS
  TypeOK
PROPERTIES
  NoRecordIsMissed
  AnswersWereOnDisk
