SPECIFICATION Spec
CONSTANTS
    Requests <- MCSameLength
    Answers = {"reply", "silent"}
    Damage = {"none"}
    Noise <- MCSilentLine
    Lows <- MCLow
    CrcLo = 1
    CrcHi = 3
    Chunks <- MCAtOnce
    STREAM = 18
    MaxFrame = 11
    MaxPending = 2
    Type = 3
    Number = 2
    Gap = 0
    MaxFrames = 4
    MaxTime = 0
    Backlog = 0
CHECK_DEADLOCK FALSE
INVARIANT
    LoggedIsTrue
