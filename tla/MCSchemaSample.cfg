SPECIFICATION Spec
CONSTANTS
    Entries <- MCEntries
    Documents <- MCDocuments
    SampleSizes = {0, 4}
    MaxDepth = 2
    CardinalityCap = 2
    SampleCap = 2
INVARIANTS
    TypeOK
    CountsAreExact
    MissingAreAbsent
    CardinalityIsExact
    SamplesAreDistinct
    NothingIsLost
CHECK_DEADLOCK FALSE
