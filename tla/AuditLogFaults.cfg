\* No retention; torn writes, failing I/O, crashes, and an administrator who
\* prunes while the daemon is down.
CONSTANTS
    MaxLines = 2
    AgeRotation = TRUE
    Retention = FALSE
    TornWrites = TRUE
    IOFaults = TRUE
    AdminPrune = "offline"
    MaxAppends = 4
    MaxPrunes = 1
    MaxFaults = 2
SPECIFICATION Spec
INVARIANTS
    LossIsEvident
