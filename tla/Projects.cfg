CONSTANTS
    People = {a, b}
    Ids = {p1, p2, e}
    Example = e
    CREATE_LIMIT = 1
    Clauses = 0
    Cases = 1
    Documents = 0
    Graders = 1
    Sentences = 1
    MaxKeys = 1
    MaxRequests = 2
    MaxCreations = 2
SPECIFICATION ProjectsSpec
SYMMETRY MCSymmetry
INVARIANTS OpenedIsWhole GuestsKeepToTheirKeys
CHECK_DEADLOCK FALSE
