CONSTANTS
    k1 = k1
    k2 = k2
    Keys = {k1, k2}
    Requests = {r1, r2}
    Windows = {w1, w2}
    Limit = 2
    Window = 2
    MaxDelay = 1
    MaxAdmitted <- MCMaxAdmitted
    NoWindow = NoWindow
    NoKey = NoKey
SPECIFICATION Spec
SYMMETRY MCSymmetry
INVARIANTS
    RateBound
PROPERTIES
    RefusalJustified
