SPECIFICATION Spec
CONSTANTS
    None = None
    Actors = {a1, a2}
    Names = {n1, n2}
    Rows = {r1, r2, r3}
    LocalRows = {local}
    MinRefresh = 1
    MaxAge = 3
    MaxFetch = 1
    MaxEntries = 2
    DekTtl = 2
    HealthTtl = 1
    MaxCall = 1
    MaxRepos = 1
    Lifetime = 3
    FallbackTtl = 2
    Margin = 1
    JwtLifetime = 9
    JwtCeiling = 10
    MaxSkew = 1
    MaxStep = 3
    MaxBatch = 2
    Count = 2
    Verifiers = {vault, track}
    Legacy = legacy
    SigningKeys = 3
    TokenTtl = 2
SYMMETRY Symmetry
INVARIANTS
    IdentityIsVouchedFor
    KeySetsFollowTheIssuer
    RevocationPropagates
    ServedTokensAreLive
    CodesWorkOnce
    TokensReachTheirAudience
PROPERTY EvictionKeepsTheNewest
