\* Two requests that may overlap, two ceremonies, two faults.
CONSTANTS
    Handler = {h1, h2}
    SessionTTL = 3
    ClaimTTL = 3
    Latency = 1
    MaxChallenges = 2
    MaxFaults = 2
SPECIFICATION Spec
SYMMETRY HandlerSymmetry
INVARIANTS
    TypeOK
    ReplayIsFlagged
    BanStopsLogin
PROPERTIES
    LogsInOnce
