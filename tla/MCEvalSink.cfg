SPECIFICATION FairSpec
CONSTANTS
    MaxSteps = 3
    NEnvs = 2
    Interval <- MCInterval
    Examples <- MCExamples
    Size <- MCSize
INVARIANTS TypeOK EpochExact
PROPERTIES EpochReported
CHECK_DEADLOCK FALSE
