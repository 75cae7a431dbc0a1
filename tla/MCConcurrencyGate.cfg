CONSTANTS
    Requests = {r1, r2, r3, r4}
    Limit = 2
    Nobody = Nobody
SPECIFICATION LiveSpec
INVARIANTS
    TypeOK
    SlotConservation
    NoIdleSlotWhileQueued
    GaugesAreTrue
PROPERTIES
    ImplementsFifoGate
    EveryRequestGetsIn
