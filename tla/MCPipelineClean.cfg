SPECIFICATION Spec
CONSTANTS
    MaxSteps = 4
    MaxOff = 1
    BatchSize = 1
    MaxWork = 1
    MaxEmpty = 2
    Transports = {"filesystem"}
    Intervals = {0}
    MaxFailures = 0
INVARIANTS CleanSafe
CHECK_DEADLOCK FALSE
