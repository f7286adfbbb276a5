\* Three overlapping requests, one fault.
CONSTANTS
    Handler = {h1, h2, h3}
    SessionTTL = 3
    ClaimTTL = 3
    MaxPasskeys = 2
    Latency = 1
    MaxSessions = 4
    MaxFaults = 1
SPECIFICATION Spec
SYMMETRY HandlerSymmetry
INVARIANTS
    TypeOK
    LimitExceededByAtMostOne
