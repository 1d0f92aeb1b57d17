SPECIFICATION AccessSpec
CONSTANTS
    Counts <- MCCounts
    BufSizes = {2, 40}
    Data <- MCData
    Statuses = {0, 1, 255}
    NoHandle = 0
INVARIANTS AccessTypeOK DeclaredLengthTrue FrameLengthTrue OkAnswer BufferRespected
