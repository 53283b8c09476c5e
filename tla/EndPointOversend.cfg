SPECIFICATION Spec
CONSTANTS
    NoLength = NoLength
    Lines <- BuildLines
    Lengths <- BuildLengths
    MaxHeads = 1
    MaxBytes = 1
    Files <- BuildFiles
    MaxChanges = 0
    IntMax = 3
    MaxSend = 2
    MaxOutput = 2
    Window = 4
INVARIANT CgiBodyFramed
CHECK_DEADLOCK FALSE
