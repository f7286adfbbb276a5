\* Two requests that may overlap, one fault.
CONSTANTS
    Handler = {h1, h2}
    OtpTTL = 3
    RedeemedTTL = 3
    CooldownTTL = 1
    MaxAttempts = 2
    Latency = 1
    MaxCodes = 2
    MaxFaults = 1
SPECIFICATION Spec
SYMMETRY HandlerSymmetry
INVARIANTS
    TypeOK
    OneLoginPerCode
    TriesBounded
    StoredCodeIsRedeemable
    LockoutExpires
PROPERTIES
    RedeemsOnce
    CodeGoesOnlyWhenUsed
