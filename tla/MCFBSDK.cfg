CONSTANTS
    p1 = p1
    p2 = p2
    s1 = s1
    s2 = s2
    s3 = s3
    l1 = l1
    l2 = l2
    f1 = f1
    NoToken = NoToken
    NoFetch = NoFetch
    Person = {p1, p2}
    Serial = {s1, s2, s3}
    Login = {l1, l2}
    Fetch = {f1}
SPECIFICATION FairSpec
INVARIANTS
    TypeOK
    LoggedOutStays
PROPERTIES
    SwitchOnlyByStaleValidation
    OnlyOwnTokenCleared
    FetchesSettle
