\* Two handlers, sub-second ticks, one fault; two generations of refreshed tokens.
CONSTANTS
    c1 = c1
    Handler = {h1, h2}
    Client = {c1}
    User = {u1}
    Nobody = Nobody
    Restricted <- MCRestricted
    PinnedAud = "service"
    RefreshTTL = 2
    AccessTTL = 1
    Second = 2
    SlowRequests = TRUE
    MaxTokens = 3
    MaxIssued = 1
    MaxTime = 4
    MaxFaults = 1
SPECIFICATION Spec
SYMMETRY HandlerSymmetry
INVARIANTS
    TypeOK
    DenylistCoversToken
    DeniedTokenNeverRefreshes
    FamilyBlockLastsAsLongAsReused
    FamilyEntryIsBacked
    NoForkWithoutCause
PROPERTIES
    RevokeAnswerIsTrue
    InspectHonoursDenylist
