SPECIFICATION FairSpec
CONSTANTS
    SessionIds = {s1, s2, s3, s4}
    Families = {f1, f2}
    Clients = {c1, c2}
    Ttl = 0
    None = None
INVARIANTS
    TypeOK
    RotationsFormAChain
    BurnedUnlessRaced
PROPERTIES
    CallsReturn
