CONSTANTS
    Graders = {g1, g2}
    Traces = {t1, t2}
    Verdicts = {pass}
    Abstain = abstain
    NoGrade = none
    MaxRounds = 2
    CalSizes = {1}
    HeldSizes = {1}
    MaxVotes = 2
    MaxInFlight = 2
SPECIFICATION Spec
INVARIANT TypeOK
INVARIANT BlindVotes
INVARIANT ClosedHasQuorum
INVARIANT HeldoutNeverResolved
INVARIANT EmbargoWithholdsVotes
PROPERTY KeepsBallotPromise
SYMMETRY PollSymmetry
CHECK_DEADLOCK FALSE
