SPECIFICATION Spec
CONSTANTS
    Dbs <- DatabaseIndices
    Items = 2
    MaxCalls = 4
    MaxDeaths = 1
INVARIANT RunsInSelectedDb
CHECK_DEADLOCK FALSE
