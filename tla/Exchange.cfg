\* One host and a device of the same protocol, one late reply.
CONSTANTS
    Requests <- MCRequests
    Cells <- MCCells
    Facts <- MCFacts
    MaxLate = 1
SPECIFICATION Spec
CHECK_DEADLOCK FALSE
INVARIANTS
    TypeOK
    InStepAnswersAreTrue
    LateAnswersAreTrue
    CommandsArriveIntact
