SPECIFICATION TableAlone
CONSTANTS
    T1 = T1
    T2 = T2
    T3 = T3
    O1 = O1
    O2 = O2
    Stale = Stale
    Thread = {T1, T2, T3}
    Nobody = Nobody
INVARIANTS
    BroadcastWakesAll
