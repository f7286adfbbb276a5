\* Two requests, no fault.
CONSTANTS
    Handler = {h1, h2}
    SessionTTL = 3
    ClaimTTL = 3
    MaxPasskeys = 2
    Latency = 1
    MaxSessions = 2
    MaxFaults = 0
SPECIFICATION Spec
SYMMETRY HandlerSymmetry
INVARIANTS
    AtMostMaxPasskeys
