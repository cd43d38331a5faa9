SPECIFICATION FairSpec
CONSTANTS
    MaxSteps = 4
    MaxOff = 2
    BatchSize = 2
    MaxWork = 3
    MaxEmpty = 2
    Transports = {"nccl"}
    Intervals = {0}
    MaxFailures = 0
PROPERTIES TrainerFinishes
CHECK_DEADLOCK FALSE
