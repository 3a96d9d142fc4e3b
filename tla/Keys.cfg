\* Two keys, passphrases, PCR lists and platforms: every value can be replaced
\* by another.
CONSTANTS
    k1 = k1  k2 = k2  p1 = p1  p2 = p2  l1 = l1  l2 = l2  v1 = v1  v2 = v2  w1 = w1
    None = None  Torn = Torn
    Keys = {k1, k2}
    Passphrases = {p1, p2}
    PcrLists = {l1, l2}
    Platforms = {v1, v2}
    TpmTools = TRUE
    UNSEAL_FAIL_LOCKOUT = 2
    Slugs = {w1}
    CarefulAdmin = TRUE
SPECIFICATION Spec
INVARIANTS
    KeyTypeOK
    DeksReadable
    KekKept
SYMMETRY KeySymmetry
