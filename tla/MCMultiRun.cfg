SPECIFICATION Spec
CONSTANTS
    Names = {a, b}
    Free = Free
    MaxRuns = 2
    SeqLen = 2
    Workers = 2
    Transports = {"filesystem", "zmq"}
    Batches <- MCBatches
    MaxLead = 1
    MaxCreated = 2
    PadTo = 2
    Linear = 1
    Quadratic = 1
    Content <- MCContent
INVARIANTS TypeOK RunsIsolated RanksAgree GridEven
PROPERTY StepsPublished
CHECK_DEADLOCK FALSE
