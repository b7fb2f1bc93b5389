SPECIFICATION SessionSpec
CONSTANTS
 Commands <- AllCommands
 Content <- Files
 Writable <- WritableFiles
 Internal <- HiddenNames
 Positions <- NoNames
 Build <- WithMathSAT
 Edited <- EditedFiles
 MaxEdits = 2
 ULongMax = 1000
 IntMax = 100
INVARIANTS
 SystemIsTheFile
 WitnessReplays
 StatusIsTheAnswer
 SolverServesProver
 OptionOrderIsIrrelevant
 TransIsItsParts
CHECK_DEADLOCK FALSE
