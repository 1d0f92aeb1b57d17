SPECIFICATION MCSpec
CONSTANTS
    Byte <- MCByte
    T1_SOF <- MCSof
    Size = 8
    MaxChunk = 3
    T1_MINI_FRAME_SIZE = 3
    ChecksumSize = 1
    Streams <- NoisyStreams
    MaxExchanges = 2
INVARIANTS RxTypeOK FrameNotMissed OnlyReceivedFrames
CHECK_DEADLOCK FALSE
