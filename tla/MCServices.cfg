SPECIFICATION AllSpec
CONSTANTS
    a = a
    b = b
    c = c
    d = d
    m1 = m1
    m2 = m2
    Nobody = Nobody
    Thread <- Four
    Mutex = {m1, m2}
    Prio <- Priorities
    Path <- Tree
    Impatient = {c}
INVARIANTS
    TypeOK
    FlagsSound
    TurnstileOwned
    Deboosted
    NoInversion
    PageTablesSound
    TlbSound
PROPERTIES
    ImplementsMutex
    NotLeftFree
