CONSTANTS
    b1 = b1
    b2 = b2
    b3 = b3
    b4 = b4
    j1 = j1
    x1 = x1
    best = best
    judge = judge
    unknown = unknown
    ModelOf <- MCModelOf
    Gated = {best}
    Results <- MCResult
    Limit = 1
    Requests = {b1, b2, j1}
    ModelOrder <- MCTwoModels
    NumWorkers = 2
SPECIFICATION LiveSpec
CHECK_DEADLOCK FALSE
PROPERTIES
    EveryRequestAnswered
    DeathReachesHealth
