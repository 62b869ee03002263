SPECIFICATION ReservedAlone
CONSTANTS
    T1 = T1
    T2 = T2
    T3 = T3
    C1 = C1
    C2 = C2
    O1 = O1
    O2 = O2
    Nil = Nil
INVARIANTS
    MapResolved
