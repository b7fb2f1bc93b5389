SPECIFICATION Spec
CONSTANTS
 Vars = {"x", "y"}
 Vals = {0, 1}
 Systems <- AllSystems
 MaxBound = 4
 Options <- AllOptions
 Solvers <- AllSolvers
INVARIANTS
 AnswerIsRight
 LazyIsEager
PROPERTIES
 KeepsContract
 Decides
CHECK_DEADLOCK FALSE
