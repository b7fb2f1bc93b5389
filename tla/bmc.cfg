SPECIFICATION Spec
CONSTANTS
 Vars = {"x"}
 Vals = {0, 1, 2}
 Systems <- Graphs3
 Calls <- TwoCalls
 Options <- AllOptions
INVARIANTS
 CexIsShortest
 SearchKeepsCex
PROPERTIES
 KeepsContract
 Returns
CHECK_DEADLOCK FALSE
