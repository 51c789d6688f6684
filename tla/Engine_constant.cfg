CONSTANTS
    N = 3
    Pipelines <- Dags
    ReferenceSets <- FewReferences
    MaxIterators = 1
    Modes = {FALSE}
    MaxValues = 1
    Cap = 1
SPECIFICATION Spec
INVARIANTS
    ConstantInputsAvailable
