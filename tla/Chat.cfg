\* Incidents while requests and streams are under way; max_parallel = 0, which
\* the queue takes as 1.
CONSTANTS
    r1 = r1  r2 = r2  few = few  narrow = narrow  tight = tight  small = small  large = large
    Requests = {r1, r2}
    MaxParallel = 0
    Limits = {1}
    Workers = 2
    Streams = TRUE
    Cancels = TRUE
    Workspaces = {few, narrow, tight}
    Models = {small, large}
    Size <- ModelSize
    Quota <- WorkspaceQuota
    AuditFaults = FALSE
    Incidents = TRUE
SPECIFICATION ChatSpec
INVARIANTS
    QuotasHold
PROPERTIES
    ImplementsLedger
    FreezeDrains
