CONSTANTS
    FileWriters = 3
    Loaders = 3
    MaxOps = 2
    Resolutions <- SmallResolutions
    Pool <- SmallPool
    Lists <- SmallLists
    FieldOrder <- SmallOrder
SPECIFICATION Spec
INVARIANTS
    TypeOK
    WritesAreKept
    TableIsTrue
    ReportAgreesWithRun
    BuffersNeverChange
    OutputsAreRight
