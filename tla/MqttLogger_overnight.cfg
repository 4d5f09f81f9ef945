\* The process is down from before midnight until after 00:30.
SPECIFICATION Spec
CONSTANTS
    p1 = p1  p2 = p2  blank = blank  soc = soc  v1 = v1
    Blank = blank
    Canonical = soc
    Unset = Unset
    MinInterval = 1
    Warmup = 2
    Stall = 3
    Packs <- OnePack
    Values <- OneValue
    LastDay = 2
PROPERTY HoldsForLastRecord
