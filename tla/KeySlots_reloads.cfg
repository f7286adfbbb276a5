\* Four reloads of three keys, rollbacks included.
CONSTANTS
    Verifier = {v1}
    Publisher = {p1, p2}
    MaxKey = 3
    MaxReloads = 4
SPECIFICATION Spec
SYMMETRY SlotsSymmetry
INVARIANTS
    TypeOK
    RefusedOnlyIfDisplaced
    JWKSHasSigningKey
    JWKSHasBothKeys
PROPERTIES
    SlotsImplementRing
