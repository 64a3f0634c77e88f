CONSTANTS
    Seats = {s1, s2, s3}
    Founders = {s1, s2}
    Cases = {c1, c2}
    MaxRuns = 2
    MaxEdits = 1
SPECIFICATION ClientSpec
INVARIANTS ClientTypeOK SelfCloseIsComplete GateReadsWholePanel AloneItFinishes
PROPERTIES PanelClosesItself
CHECK_DEADLOCK FALSE
