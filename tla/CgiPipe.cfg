SPECIFICATION FairSpec
CONSTANTS
    Programs = {"comm", "script", "filter", "eof"}
    MaxLength = 4
    Output = 3
    Capacity = 1
    MaxLog = 1
    NoResult = NoResult
INVARIANTS
    TypeOK
    BodyDelivered
    CodeOfReapedChild
    OutcomeExpected
    LeakOnlyAfterFailure
    MutualWaitOnlyIf
PROPERTIES
    ImplementsCgiCall
    Returns
\* ProcessCIG returns, or it waits for ever with an incompatible program.
CHECK_DEADLOCK FALSE
