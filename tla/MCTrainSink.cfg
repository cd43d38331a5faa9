SPECIFICATION Spec
CONSTANTS
    t1 = t1
    t2 = t2
    t3 = t3
    t4 = t4
    Groups <- MCGroups
    Size <- MCSize
    Scored = {t2}
    Tokens <- MCTokens
    Batchings = {"rollouts", "tokens"}
    BatchSize = 2
    TokenBatchSize = 3
    MaxSteps = 2
    MaxEmpty = 2
SYMMETRY MCSymmetry
INVARIANTS TypeOK EachOnce ShippedClean CohortsFull NoFullBatchWaits
CHECK_DEADLOCK FALSE
