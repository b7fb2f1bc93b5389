SPECIFICATION Spec
CONSTANTS
 Vars = {"x", "y"}
 Vals = {0, 1}
 Systems <- AllSystems
 MaxBound = 4
 Unknowns = {"inductive", "drop", "initiation", "consecution"}
 HardSystems <- Functional
 kMaxDropProbes = 2
 HalfBudgetAfter = 1
 NoBudgetAfter = 2
INVARIANTS
 TypeOK
 ProofIsSound
 LemmasUnreachable
 CexIsShortest
 DroppedCubeForcesBad
 BackgroundIsExact
 DominatesSimplePathInduction
PROPERTIES
 Decides
 ImplementsContract
CHECK_DEADLOCK FALSE
