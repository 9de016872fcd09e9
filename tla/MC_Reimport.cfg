CONSTANTS
    Jobs <- AllJobs
    Value <- Values
    Contents <- Contentss
    Filler = 0
    M = 65536
    BUFSZ = 2
    MaxRuns = 3
SPECIFICATION Spec
INVARIANTS Recovered LeftOriginal FieldsMatch
PROPERTIES WritesOwn KeepsPlace VoidWritesNothing ImplementsTable
