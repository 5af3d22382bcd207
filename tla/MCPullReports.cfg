SPECIFICATION Spec
CONSTANTS
  Today <- MCToday
  DataFormats <- MCDataFormats
  MaxAge = 1
  PageTTL = 1
  MaxStops = 2
INVARIANT ReportTeamsObserved
CHECK_DEADLOCK FALSE
