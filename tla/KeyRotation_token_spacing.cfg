\* Rotations exactly a token life apart.
CONSTANTS
    Server = {s1, s2}
    TokenTTL = 3
    PollInterval = 2
    Spacing = 3
    MaxKey = 3
    MaxFailed = 0
    MaxRestarts = 0
SPECIFICATION Spec
SYMMETRY ServerSymmetry
INVARIANTS
    NoLiveTokenLosesItsKey
