CONSTANTS
    None = none
    Seats = {1, 2, 3}
    Weight <- MCWeight
    Gradings = {g1, g2}
    MIN_PANEL = 3
    WIDTH = 1
    MaxVersion = 2
    MaxGradings = 2
    MaxFaults = 1
SPECIFICATION Spec
SYMMETRY MCSymmetry
INVARIANTS AnswersAreKept WholeGradingIsOneVersion ExportSaysWhatThePageSays
CHECK_DEADLOCK FALSE
