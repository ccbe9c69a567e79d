CONSTANTS
    Chars <- MCChars
    Lines <- MCLines
    MaxLines = 3
    Room = 3
    ReadSize = 2
    NoBuffer = NoBuffer
SPECIFICATION FairSpec
INVARIANT CleanEndComplete
PROPERTIES
    ReaderIsChannel
    EverythingArrives
CHECK_DEADLOCK FALSE
