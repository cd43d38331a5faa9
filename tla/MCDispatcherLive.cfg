SPECIFICATION FairSpec
CONSTANTS
    t1 = t1
    t2 = t2
    f1 = f1
    e1 = e1
    TrainGroups = {t1}
    EvalGroups = {e1}
    Frozen = {}
    Scored = {}
    Size <- MCSize
    MaxInflight = 2
    MinOutCap = 0
    MaxOff = 0
    MaxVersion = 1
PROPERTIES LedgerSpec LedgerSettles EvalCompletes
CHECK_DEADLOCK FALSE
