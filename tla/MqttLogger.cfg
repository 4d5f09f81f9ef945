\* Two packs, one value, two days, with fairness: restarts, midnights, compression,
\* updates racing the append, and the watchdog.
SPECIFICATION Spec
CONSTANTS
    p1 = p1  p2 = p2  blank = blank  soc = soc  v1 = v1
    Blank = blank
    Canonical = soc
    Unset = Unset
    MinInterval = 1
    Warmup = 1
    Stall = 1
    Packs <- TwoPacks
    Values <- OneValue
    LastDay = 2
INVARIANT TypeOK
PROPERTIES NoColumnBlanked ValueReachesDisk QuietProcessEnds
