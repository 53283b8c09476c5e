SPECIFICATION FairSpec
CONSTANTS
    Char = {a}
    CR = CR
    LF = LF
    MaxBytes = 6
INVARIANTS
    TypeOK
    ReadsTheLines
    ReadsToTheEnd
PROPERTY EachLineIsRead
\* The client may stop for ever, and the stream ends.
CHECK_DEADLOCK FALSE
