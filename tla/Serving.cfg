CONSTANTS
    mirror = mirror
    dns = dns
    c1 = c1
    c2 = c2
    w1 = w1
    m1 = m1
    m2 = m2
    m3 = m3
    Unset = Unset
    NoFile = NoFile
    Launches <- MCLaunches
    Nobody = Nobody
    TornPolicy = TornPolicy
    NoDoc = NoDoc
    NoCopy = NoCopy
    Paths <- MCPaths
    MaxCalls = 3
    MaxLoaded = 2
    NoCollection = NoCollection
    Hosts <- MCHosts
    ProbeTargets <- MCProbeTargets
    Configs <- MCConfigs
    Workers <- MCWorkers
    Collections <- MCCollections
    Workspaces <- MCWorkspaces
    MaxDocs = 2
    MaxJobs = 2
    Spaces <- MCSpaces
    TopLabel = 1
    MaxFiles = 2
    Budget <- MCBudget
    MaxCrashes = 1
SPECIFICATION ServingSpec
INVARIANTS
    EgressAsConfigured
    SettingsInForce
    StoreConsistent
    LabelsEnforced
    MemoryBounded
PROPERTIES
    DeletedStaysGone
    RecentKept
    EgressNoticed
CHECK_DEADLOCK FALSE
