SPECIFICATION Spec
CONSTANTS
    Waiter = {w1, w2}
    Poster = {p1, p2}
    Nobody = Nobody
    InitialValue = 0
    MaxValue = 2
INVARIANTS
    NobodyStranded
