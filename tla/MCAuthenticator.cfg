SPECIFICATION Spec
CONSTANTS
    h1 = h1
    h2 = h2
    NoTime = NoTime
    Lifetime = 3
    Skew = 1
    N = 2
    Headers <- MCHeaders
    Original = Original
    Times <- MCTimes
    MaxTime = 3
SYMMETRY MCSymmetry
INVARIANTS
    AllOrNothing
    MarginCoversApply
CHECK_DEADLOCK FALSE
