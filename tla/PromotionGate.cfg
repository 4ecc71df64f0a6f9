SPECIFICATION GateSpec
CONSTANTS
  None = None
  Gate <- MCGate
  Cells <- MCCells
  Reports <- MCReports
  Reruns <- MCReruns
  MaxChanges = 2
CHECK_DEADLOCK FALSE
PROPERTIES
  ImprovingNeverFails
  FailingNeverPasses
  RerunsOfCandidatesAreIgnored
