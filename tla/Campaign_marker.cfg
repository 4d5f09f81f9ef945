\* The same campaign, asked whether the marker is always recognised.
CONSTANTS
    a = a  b = b  none = none
    Values <- MCValues
    NoValue = none
    Harms <- MCHarms
    OffTimes = {1, 20}
    RestartTime = 20
    MaxSteps = 7
    MinGap = 10
    TailBytes = 2
    Size <- MCSize
    Hour = 4
SPECIFICATION Spec
SYMMETRY ValueSymmetry
INVARIANT OutageIsNoRestart
