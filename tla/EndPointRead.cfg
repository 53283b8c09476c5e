SPECIFICATION FairSpec
CONSTANTS
    NoLength = NoLength
    Lines <- ReadLines
    Lengths <- ReadLengths
    MaxHeads = 2
    MaxBytes = 3
    Files <- ReadFiles
    MaxChanges = 0
    IntMax = 3
    MaxSend = 2
    MaxOutput = 1
    Window = 1
INVARIANTS
    TypeOK
    AnsweredOnlyIfComplete
PROPERTIES
    HandlerEnds
    AnswerArrives
\* The handler returns, and the client need not do anything more.
CHECK_DEADLOCK FALSE
