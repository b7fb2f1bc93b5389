SPECIFICATION Spec
CONSTANT N = 3
INVARIANTS
 ReportIsOneEngines
 NothingLeftBehind
PROPERTIES
 Returns
CHECK_DEADLOCK FALSE
