\* Two requests that may overlap, two clients, two versions of the registry.
CONSTANTS
    c1 = c1
    c2 = c2
    Handler = {h1, h2}
    Client = {c1, c2}
    User = {u1}
    UserId = {c1, u1}
    Nobody = Nobody
    Secret = {1, 2}
    Scope = {"read"}
    Registry <- MCRegistry
    CodeTTL = 1
    MaxCodes = 1
    MaxGrants = 2
    MaxFaults = 1
SPECIFICATION Spec
SYMMETRY HandlerSymmetry
INVARIANTS
    TypeOK
    LateExchangeRefused
    BanStopsTokens
    SessionStaysWithItsClient
    ScopesComeFromTheGrant
PROPERTIES
    RefreshFollowsOneVersion
