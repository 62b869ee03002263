SPECIFICATION RtMutexAlone
CONSTANTS
    a = a
    b = b
    c = c
    d = d
    m1 = m1
    m2 = m2
    Nobody = Nobody
    Thread <- Four
    Mutex = {m1, m2}
    Prio <- Priorities
    Path <- Fork
    Impatient = {c}
INVARIANTS
    TopWaiterOwns
