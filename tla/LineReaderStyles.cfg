SPECIFICATION FairSpec
CONSTANTS
    Char = {a}
    CR = CR
    LF = LF
    MaxBytes = 4
PROPERTY AnyStyleIsRead
CHECK_DEADLOCK FALSE
