\* Age rotation below the retention period, crashes anywhere, and an
\* administrator who prunes while the daemon is down.
CONSTANTS
    MaxLines = 2
    AgeRotation = TRUE
    Retention = TRUE
    TornWrites = FALSE
    IOFaults = FALSE
    AdminPrune = "offline"
    MaxAppends = 4
    MaxPrunes = 1
    MaxFaults = 2
SPECIFICATION Spec
INVARIANTS
    NoAckedEntryLost
    TailInSync
    VerifiesUnlessInterrupted
PROPERTIES
    ImplementsTrail
