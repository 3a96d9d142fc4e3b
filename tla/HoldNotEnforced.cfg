CONSTANTS
    None = None
    Torn = Torn
    NoSub = NoSub
    TornFile = TornFile
    k1 = k1
    k2 = k2
    clerk1 = clerk1
    clerk2 = clerk2
    handler1 = handler1
    handler2 = handler2
    sha1 = sha1
    ticket1 = ticket1
    ticket2 = ticket2
    default = default
    team = team
    key1 = key1
    admin1 = admin1
    admin2 = admin2
    NoKey = NoKey
    NoRow = NoRow
    NoTask = NoTask
    DefaultSlug = default
    Slugs <- MCSlugs
    ApiKeys <- MCApiKeys
    Admins <- MCAdmins
    HoldKeys <- MCHoldKeys
    Clerks <- MCClerks
    Handlers <- MCHandlers
    Shas <- MCShas
    TicketIds <- MCTickets
    LastSeq = 2
    TicksPerSecond = 2
    MaxNow = 3
    MaxRequests = 2
    MaxCrashes = 0
SPECIFICATION GovernanceSpec
PROPERTY HeldEntriesKept
CHECK_DEADLOCK FALSE
