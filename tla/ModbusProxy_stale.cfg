SPECIFICATION Spec
CONSTANTS
    Requests <- MCHoldingReads
    Answers = {"reply"}
    Damage = {"none", "crc"}
    Late = FALSE
    Noise <- MCSilentLine
    Held <- MCHeld
    CrcLo = 9
    CrcHi = 9
    Chunks <- MCAtOnce
    STREAM = 16
    Typed <- MCFirstRegister
    MaxOverrides = 1
    MaxRequests = 4
CHECK_DEADLOCK FALSE
INVARIANT
    OverrideHitsItsRegister
