CONSTANTS
    i1 = i1
    i2 = i2
    Parts = {p1, p2}
    Instances = {i1}
    MaxRuns = 1
    MaxAtOnce = 1
    Servings <- MCOne
SPECIFICATION ClientSpec
INVARIANT FailureIsTold
CHECK_DEADLOCK FALSE
