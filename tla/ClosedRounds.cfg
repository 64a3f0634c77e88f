CONSTANTS
    pass = pass
    fail = fail
    x = x
    y = y
    Abstain = abstain
    NoVerdict = none
    Scale = {pass, fail}
    Rank <- MCRank
    Reasons = {x, y}
    Clash <- MCClash
    Seats = {s1, s2, s3}
    Cases = {c1}
    Versions = {v1}
    Owner = owner
    People = {owner, guest}
    PROMPT_VARIANTS = 3
    Gates <- MCGates
    WINDOW = 2
    MaxRuns = 2
    MaxWork = 5
SPECIFICATION Spec
SYMMETRY MCSymmetry
INVARIANTS TypeOK ReadersAgree ReportsAddUp SettledStays SameReadingsSameWord ExportsTellOneStory
CHECK_DEADLOCK FALSE
