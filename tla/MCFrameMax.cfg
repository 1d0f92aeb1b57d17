SPECIFICATION MCSpec
CONSTANTS
    Byte <- MCByte
    T1_SOF <- MCSof
    Size = 8
    MaxChunk = 3
    T1_MINI_FRAME_SIZE = 3
    ChecksumSize = 1
    Streams <- CleanStreams
    MaxExchanges = 1
INVARIANT AnswerNotMissed
CHECK_DEADLOCK FALSE
