SPECIFICATION MCSpec
CONSTANTS
    Byte = {0, 1}
    Size = 4
    MaxChunk = 3
    Offsets = {0, 1, 2, 3}
INVARIANTS RingTypeOK CursorInData MoveExact
PROPERTIES ImplementsQueue ReadAheadIsPop
