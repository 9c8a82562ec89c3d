SPECIFICATION Spec
CONSTANTS
  NodeIds <- OneMac
  ReportIds <- ZeroMac
  Colors = {2700}
  Brights = {50}
  TypeControls = {1, 2}
  Lamps <- FiveLamps
INVARIANTS ReportHasNodeId
