CONSTANTS
    Scale <- MCScale
    Raters <- MCRaters
    ABSTAIN = abstain
    NoVote = NoVote
    TheJudge = TheJudge
    People = {p1, p2}
    Cases = {c1, c2}
    Requests = {q1}
    MaxBatch = 2
    MinUnits = 2
SPECIFICATION JudgeSpec
SYMMETRY MCSymmetry
INVARIANTS WholeArmOrNothing StatisticsAreTheTextbook
CHECK_DEADLOCK FALSE
