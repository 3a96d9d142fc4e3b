\* Streams, disconnecting clients and a limit that changes.
CONSTANTS
    r1 = r1  r2 = r2  r3 = r3  r4 = r4
    Requests = {r1, r2, r3, r4}
    MaxParallel = 2
    Limits = {1, 2}
    Workers = 2
    Streams = TRUE
    Cancels = TRUE
SPECIFICATION QueueSpec
INVARIANTS
    GuardsConserved
    AdmissionBounded
PROPERTIES
    AdmittedCallEnds
