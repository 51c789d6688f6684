CONSTANTS
    N = 4
    Pipelines <- Graphs
    ReferenceSets <- FewReferences
    MaxIterators = 2
    Modes = {TRUE, FALSE}
    MaxValues = 3
    Cap = 2
SPECIFICATION Spec
INVARIANTS
    TypeOK
    VerdictMatchesNodes
    InputsSucceeded
    UnavailableExplained
    SkippedIsDownstream
    FanInInOrder
PROPERTIES
    OrderIsRight
    NothingAfterFailure
    Terminates
