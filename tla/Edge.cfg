SPECIFICATION EdgeSpec
CONSTANTS
    Threads = {t1, t2, t3}
    Keys = {k1}
    Capacity = 2
    Rate = 1
    MaxClock = 4
    Calls = 8
    None = None
    Actors = {a1, a2}
    Orgs = {o1}
    Routes = {r1, r2}
    Addresses <- Peers
    MaxRedirects = 2
    MaxBodyBytes = 3
    Subs = {s1}
    Tiers = {"pro", "team"}
    Statuses = {"trialing", "unpaid"}
    MaxEvents = 2
    Tolerance = 1
    MaxVersion = 4
    Tokens = {token}
    OldScopes = {"agents:run"}
    MaxPassword = 2
SYMMETRY Symmetry
INVARIANTS
    TypeOK
    AdmissionIsBounded
    RefusalsCostNothing
    OnlyVettedPeers
    ProcessedOnce
    ChangesTellWhatIsBilled
    ServedInItsShape
    GrantsAreTheCommonOnes
    ConnectsAsConfigured
