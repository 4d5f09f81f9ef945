\* The script's own limits and two power cuts.
CONSTANTS
    DeadChecks = 3
    DownChecks = 15
    MaxBoots = 2
SPECIFICATION Spec
INVARIANT TypeOK
PROPERTIES
    HelpIsEarned
    HelpComes
