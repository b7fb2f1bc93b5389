SPECIFICATION Spec
CONSTANTS
 Vars = {"v"}
 Vals = {0, 1, 2, 3, 4, 5, 6, 7}
 Cases <- AllCases
 Bits <- BitsOfV
 Equalities <- EqualitiesOfV
 Split <- SplitV
 Symbols <- HighAndLow
 Width <- Widths
 BitsOf <- BitsOfHigh
INVARIANTS
 GoalsAreNew
 TraceIsConcrete
PROPERTIES
 ImplementsReachSequence
 Decides
CHECK_DEADLOCK FALSE
