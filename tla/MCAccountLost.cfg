CONSTANTS
    p1 = p1
    p2 = p2
    c1 = c1
    c2 = c2
    s1 = s1
    s2 = s2
    l1 = l1
    f1 = f1
    Nobody = Nobody
    NoToken = NoToken
    NoFetch = NoFetch
    Person = {p1, p2}
    Call = {c1, c2}
    Serial = {s1}
    Login = {l1}
    Fetch = {f1}
    Methods = {"register", "email"}
SYMMETRY Symmetry
SPECIFICATION Spec
INVARIANTS
    AnnouncedHasRecord
