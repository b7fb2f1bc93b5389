SPECIFICATION Spec
CONSTANT Cases <- AllCases
INVARIANTS BoundIsCovered
PROPERTIES ImplementsAnswers Decides
