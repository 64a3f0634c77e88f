CONSTANTS
    i1 = i1
    i2 = i2
    Parts = {p1, p2}
    Instances = {i1, i2}
    MaxRuns = 3
    MaxAtOnce = 2
    Servings <- MCServings
SPECIFICATION FairClientSpec
INVARIANTS DoneIsWhole NoMarkIsLost LandedIsWhole
PROPERTIES PageTells
CHECK_DEADLOCK FALSE
