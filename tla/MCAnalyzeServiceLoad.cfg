CONSTANTS
    b1 = b1
    b2 = b2
    b3 = b3
    b4 = b4
    j1 = j1
    x1 = x1
    best = best
    judge = judge
    unknown = unknown
    ModelOf <- MCModelOf
    Gated = {best}
    Results <- ResultKinds
    Limit = 2
    Requests = {b1, b2, b3, b4}
    ModelOrder <- MCOneModel
    NumWorkers = 2
SPECIFICATION Spec
SYMMETRY Interchangeable
CHECK_DEADLOCK FALSE
INVARIANTS
    EngineLoadWithinLimit
