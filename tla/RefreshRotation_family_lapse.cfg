\* One handler, one client: a family revocation and the clock.
CONSTANTS
    c1 = c1
    Handler = {h1}
    Client = {c1}
    User = {}
    Nobody = Nobody
    Restricted = {}
    PinnedAud = "service"
    RefreshTTL = 2
    AccessTTL = 1
    Second = 1
    SlowRequests = FALSE
    MaxTokens = 3
    MaxIssued = 3
    MaxTime = 3
    MaxFaults = 0
SPECIFICATION Spec
PROPERTY RevokedFamilyStaysRevoked
