SPECIFICATION FairSpec
CONSTANTS
    MaxSteps = 5
    MaxOff = 0
    BatchSize = 2
    MaxWork = 3
    MaxEmpty = 2
    Transports = {"filesystem", "nccl"}
    Intervals = {0, 1, 2}
    MaxFailures = 1
INVARIANTS TypeOK LeadBound GateTracksLead NcclPairs
PROPERTIES LoopSpec 
CHECK_DEADLOCK FALSE
