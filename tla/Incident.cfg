\* Crashes, clients that disconnect and writes that fail.
CONSTANTS
    c1 = c1  u1 = u1  u2 = u2
    Cancels = TRUE
    IOFaults = TRUE
    MaxOps = 4
    MaxCrashes = 2
    Creds = {c1}
    Callers = {u1, u2}
SPECIFICATION ResponseSpec
INVARIANTS
    ActiveIsFrozen
    FrozenIsActive
    FreezeKeptByFile
    CredentialsSound
