SPECIFICATION Spec
CONSTANTS
    t1 = t1
    t2 = t2
    f1 = f1
    e1 = e1
    TrainGroups = {t1, t2, f1}
    EvalGroups = {e1}
    Frozen = {f1}
    Scored = {e1}
    Size <- MCSize
    MaxInflight = 2
    MinOutCap = 0
    MaxOff = 0
    MaxVersion = 2
INVARIANTS TypeOK PermitsExact ExactlyOnce MeasurementsSurvive OnePartialGroup OffPolicyBound
CHECK_DEADLOCK FALSE
