SPECIFICATION Spec
CONSTANTS
    SessionIds = {s1, s2, s3}
    Families = {f1}
    Clients = {c1, c2}
    Ttl = 1
    None = None
INVARIANTS
    RevocationIsComplete
