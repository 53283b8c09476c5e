SPECIFICATION FairSpec
CONSTANTS
    Queries <- AllQueries
    Special = {"'"}
    Strays <- SomeRows
    IntMax = 1
    MaxCalls = 2
INVARIANTS
    TypeOK
    RowsAsAsked
    ResultsRight
    PageTruth
    DuplicateOnlyIfUntold
PROPERTY
    EveryCallEnds
\* The program ends.
CHECK_DEADLOCK FALSE
