CONSTANTS
    a1 = a1
    a2 = a2
    c1 = c1
    c2 = c2
    c3 = c3
    o1 = o1
    o2 = o2
    o3 = o3
    NoUser = NoUser
    Account = {a1, a2}
    Call = {c1, c2, c3}
    Object = {o1, o2, o3}
    MaxRefresh = 1
SPECIFICATION FairSpec
INVARIANTS
    TypeOK
    MemoryIsStored
    AnsweredOnce
    LastSuccessRules
    SignedOutStays
PROPERTIES
    StaleRefreshHarmless
    ImplementsSession
    EveryCallEnds
