SPECIFICATION AllSpec
CONSTANTS
    T1 = T1
    T2 = T2
    T3 = T3
    O1 = O1
    O2 = O2
    Stale = Stale
    Thread = {T1, T2, T3}
    Nobody = Nobody
INVARIANTS
    TypeOK
    MutualExclusion
    NoLostWakeup
    QueueOK
    OnlyTimedCallsFail
    FoundationsTypeOK
    AdaptiveSound
    QueuesConserved
    QueueStays
    WaitersSound
    OnTime
    OneExpiration
    CancelWaits
    ReadersSound
    
    HistorySound
PROPERTIES
    ImplementsMutexes
    Completes
