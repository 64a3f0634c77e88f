CONSTANTS
    mined = mined
    typed = typed
    Slots = {s1, s2}
    Rounds = {r1, r2}
    Splits <- MCSplits
    OwnReasons = {reason}
    Clauses = {c1}
    Bodies <- MCBodies
    Keep = Keep
    NoRound = NoRound
    MaxRequests = 4
    MaxPatches = 2
SPECIFICATION Spec
INVARIANTS TypeOK VersionsInOrder AcceptedHasItsVersion
PROPERTIES SettledVersionsStand DecisionsStand
SYMMETRY Alike
CHECK_DEADLOCK FALSE
