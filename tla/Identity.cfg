\* Three accounts, two session tokens with one prefix, one reset token and one
\* OIDC state; two attempts per window of two instants.
CONSTANTS
    None = None
    Uids = {u1, u2, u3}
    Names = {"admin", "ann", "bob"}
    Emails = {"e"}
    Passwords = {"key", "new"}
    Roles = {"admin", "viewer"}
    Subs = {"s"}
    Tokens = {t1, t2}
    Resets = {r1}
    States = {o1}
    SessionTtl = 2
    ResetTtl = 1
    MaxNow = 3
    Requests = {p1, p2}
    Clis = {c1}
    Ips = {"ip"}
    Prefix <- SamePrefix
    Lower <- Lowered
    AdminName = "admin"
    AdminKey = "key"
    DefaultRole = "viewer"
    PendingTtl = 1
    Window = 2
    MaxLogin = 2
    MaxReset = 1
    MapCap = 0
    U32Max = 3
    u1 = u1  u2 = u2  u3 = u3  t1 = t1  t2 = t2  r1 = r1  o1 = o1  p1 = p1  p2 = p2  c1 = c1
    Lanes = {"gate", "rows", "subjects", "sessions"}
SPECIFICATION MCSpec
SYMMETRY Sym
INVARIANTS
    OrdersStand
    AccountsBound
    OneTimeTokens
    AttemptsBounded
PROPERTIES
    OthersStaySignedIn
