SPECIFICATION Spec
CONSTANTS
    Requests <- MCReadsAndWrites
    Answers = {"reply", "exception", "silent"}
    Damage = {"none", "cut"}
    Noise <- MCNoisyLine
    Lows <- MCLow
    CrcLo = 1
    CrcHi = 3
    Chunks <- MCAtOnce
    STREAM = 18
    MaxFrame = 11
    MaxPending = 2
    Type = 3
    Number = 2
    Gap = 1
    MaxFrames = 4
    MaxTime = 2
    Backlog = 0
CHECK_DEADLOCK FALSE
INVARIANTS
    TypeOK
    RoomForRead
    LoggedIsTrue
    GapKept
PROPERTY
    SkippedOnlyInGap
