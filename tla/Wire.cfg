\* Three exchanges, two faults, with and without a filter and a gap.
CONSTANTS
    CrcLo = 3
    CrcHi = 4
    Queries <- MCQueries
    Schedule <- MCSchedule
    Turnaround = 2
    MaxFaults = 2
    Filters <- MCFilters
    Gaps = {0, 12}
    HrLayout <- MCHrLayout
    IrLayouts <- MCIrLayouts
SPECIFICATION Spec
INVARIANTS
    TypeOK
    FoundWasSent
    SentIsFound
    PairsAreExchanges
    RowsTrue
    RowsApart
    LastingIsWritten
    FieldsTrue
