SPECIFICATION FairSpec
CONSTANTS
    MaxSteps = 3
    Intervals <- MCIntervals
    KeepLasts <- MCKeepLasts
    MaxLead = 1
    MaxLaunches = 3
INVARIANTS TypeOK LineageExact PolicyFromLineage
PROPERTIES AheadRefused StaysResumable AlignedFinishes
CHECK_DEADLOCK FALSE
