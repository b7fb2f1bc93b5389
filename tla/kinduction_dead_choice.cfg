SPECIFICATION Spec
CONSTANTS
 Vars = {"x", "y"}
 Vals = {0, 1, 2}
 Systems <- DeadChoice
 MaxBound = 3
 Options <- OneTime
 Solvers <- Decided
INVARIANTS
 FinalCheckMissesNothing
CHECK_DEADLOCK FALSE
