CONSTANTS
    Colors = {B, W}
    Size = 3
    Played <- MCWhole
    MaxStones = 5
SPECIFICATION Spec
SYMMETRY MCSymmetry
INVARIANTS
    EmptyCountsAreTrue
