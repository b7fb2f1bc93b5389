SPECIFICATION LoopSpec
CONSTANTS
 Reg <- Regs
 Input = {0, 1}
 Index = {0, 1}
 Elem = {0, 1}
 Term = {"i", "r", "j"}
 Systems <- SomeSystems
 MaxBound = 3
INVARIANTS
 TermsAnswerIsRight
 CounterexamplesSurvive
 AxiomsSuffice
PROPERTIES
 LoopDecides
