SPECIFICATION Spec
CONSTANTS
 Vars = {"v"}
 Vals = {0, 1, 2, 3}
 Cases <- AllCases
INVARIANTS
 SequencesStayApart
PROPERTIES
 ImplementsReachSequence
 Decides
CHECK_DEADLOCK FALSE
