\* The application stops making calls in the end: no deadlock check.
SPECIFICATION FairSpec
CONSTANTS
    Dbs <- DatabaseIndices
    Items = 2
    MaxCalls = 5
    MaxDeaths = 1
INVARIANT TypeOK
 
INVARIANT RepliesPair
 
 
CHECK_DEADLOCK FALSE
