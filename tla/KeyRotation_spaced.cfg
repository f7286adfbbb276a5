\* Three processes, four keys; rotations a token life and two polls apart.
CONSTANTS
    Server = {s1, s2, s3}
    TokenTTL = 3
    PollInterval = 2
    Spacing = 7
    MaxKey = 4
    MaxFailed = 1
    MaxRestarts = 1
SPECIFICATION Spec
SYMMETRY ServerSymmetry
INVARIANTS
    TypeOK
    NoLiveTokenLosesItsKeyWhenSpaced
    RotationReachesEveryone
