SPECIFICATION Spec
CONSTANTS
  NodeIds <- AllMacs
  ReportIds <- PlainMacs
  Colors = {2700, 3840, 5000, 6500}
  Brights = {0, 10, 50, 100, 111, 150}
  TypeControls = {1, 2}
  Lamps <- FiveLamps
INVARIANTS RoundTrip NeverAnotherCommand ReportFits ReportHasNodeId AlarmIsMeasured
