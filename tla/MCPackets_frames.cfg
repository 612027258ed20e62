SPECIFICATION Spec
CONSTANTS
    MaxSize = 72
    RsaSize = 28
    MaxString = 16
    Sizes = {0, 1, 4, 12, 21, 49, 55, 56}
    Lengths = {0, 3, 8, 11, 17, 70}
    MaxEntries = 2
INVARIANTS
    StaysInBuffer
    FrameDecodes
    AnswerIsWhole
CHECK_DEADLOCK FALSE
