\* One request after the other, no faults.
CONSTANTS
    Handler = {h1}
    OtpTTL = 3
    RedeemedTTL = 3
    CooldownTTL = 1
    MaxAttempts = 2
    Latency = 0
    MaxCodes = 2
    MaxFaults = 0
SPECIFICATION Spec
INVARIANTS
    TriesWithinLimit
