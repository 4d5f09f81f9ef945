SPECIFICATION Spec
CONSTANTS
    Requests <- MCInputReads
    Answers = {"reply", "silent"}
    Damage = {"none"}
    Late = FALSE
    Noise <- MCSilentLine
    Held <- MCHeld
    CrcLo = 9
    CrcHi = 9
    Chunks <- MCAtOnce
    STREAM = 24
    Typed <- MCNoOverrides
    MaxOverrides = 1
    MaxRequests = 3
CHECK_DEADLOCK FALSE
INVARIANT
    NothingHeldBack
