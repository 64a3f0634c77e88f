CONSTANTS
    t1 = t1
    cheap = cheap
    dear = dear
    Requests = {r1, r2}
    Literalist = literalist
    Titles = {t1}
    Count = 2
    Offline <- MCOffline
    Families <- MCFamilies
    ENOUGH = 2
    Endpoints = {e1}
    MaxSeats = 3
    MaxWork = 6
    MaxCrashes = 1
SPECIFICATION Spec
SYMMETRY MCSymmetry
INVARIANTS BenchIsOneProposal StrandedOnlyByARace RemovalsAreOnRecord
CHECK_DEADLOCK FALSE
