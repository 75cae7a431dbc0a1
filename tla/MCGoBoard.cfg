CONSTANTS
    Colors = {B, W}
    Size = 7
    Played <- MCInner
    MaxStones = 6
SPECIFICATION Spec
SYMMETRY MCSymmetry
INVARIANTS
    TypeOK
    ReplayFollowsRules
