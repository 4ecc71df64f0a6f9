SPECIFICATION Spec
CONSTANTS
  outer = outer
  inner = inner
  a = a
  b = b
  c = c
  n = n
  oa = oa
  ob = ob
  oc = oc
  on = on
  nn = nn
  x = x
  y = y
  Contents = {x, y}
  Places <- MCPlaces
  RootOf <- MCRootOf
  FileOf <- MCFileOf
  NoFile = NoFile
  Irregular = Irregular
  Junk = Junk
  None = None
  ManifestPath = ManifestPath
  Overview = Overview
  Nowhere = Nowhere
  Body <- MCBody
  Summary <- MCSummary
  LegacySpecs <- MCLegacySpecs
  LegacyDefault = "kiwi_morphology_v1"
  LegacyRegex = "regex_v1"
  LegacyNouns = "kiwi_nouns_v1"
  Flaws = {"notJson", "notObject", "keyless", "unprojected", "untitled", "unsummarized", "undated", "unsourced", "misplaced"}
  Disks <- MCDisks
  Tokenizers = {"kiwi_morphology_v1", "regex_v1"}
  Styles = {"object", "name", "flags"}
  MaxChanges = 4
CHECK_DEADLOCK FALSE
INVARIANTS
  TypeOK
  GuardReadsTheIndexedIdentity
  StatusAndLintAgree
  CleanReportCanBeRebuilt
  EverySourceHasOneProposal
PROPERTIES
  RebuildClearsOrStaysRed
  MoveIsProposed
