SPECIFICATION Spec
CONSTANTS
    NoLength = NoLength
    Lines <- BuildLines
    Lengths <- BuildLengths
    MaxHeads = 1
    MaxBytes = 1
    Files <- BuildFiles
    MaxChanges = 1
    IntMax = 3
    MaxSend = 2
    MaxOutput = 3
    Window = 2
INVARIANTS
    ErrorNeverLeaksContent
    CgiReaderGetsOutput
    StaticFramed
    TypeFitsName
    NothingLeftOpen
PROPERTY ImplementsExchange
CHECK_DEADLOCK FALSE
