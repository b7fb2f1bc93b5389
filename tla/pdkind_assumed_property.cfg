SPECIFICATION Spec
CONSTANTS
 Vars = {"x"}
 Vals = {0, 1, 2, 3, 4}
 Systems <- AssumedProperty
 MaxBound = 5
 Unknowns = {}
 HardSystems = {}
 kMaxDropProbes = 50
 HalfBudgetAfter = 20
 NoBudgetAfter = 50
INVARIANTS
 AssumingPropertyIsSound
CHECK_DEADLOCK FALSE
