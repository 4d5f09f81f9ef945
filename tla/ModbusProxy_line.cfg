SPECIFICATION Spec
CONSTANTS
    Requests <- MCMixed
    Answers = {"reply", "exception", "silent"}
    Damage = {"none", "crc", "cut"}
    Late = TRUE
    Noise <- MCNoisyLine
    Held <- MCHeld
    CrcLo = 1
    CrcHi = 3
    Chunks <- MCInPieces
    STREAM = 16
    Typed <- MCSecondRegister
    MaxOverrides = 1
    MaxRequests = 3
CHECK_DEADLOCK FALSE
INVARIANTS
    TypeOK
    InOrder
    DamageStaysVisible
    SlotIsLatest
    HeldBackOnlyIfDamaged
PROPERTY
    OverridesApplied
