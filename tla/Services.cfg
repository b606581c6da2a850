SPECIFICATION ServicesSpec
CONSTANTS
    Commits <- MCCommits
    Images = {"web", "api"}
    Affects <- MCAffects
    Events <- MCEvents
    Dispatched <- MCDispatched
    NoEvent = none
    MaxDeliveryAttempts = 3
    BackoffMin = 1
    BackoffMax = 2
    Wirings <- MCWirings
    ReportAttempts = 2
    Addresses = {"a", "b", "c"}
    NoAddress = none
    Visitors = {"v1", "v2"}
    Peers = {"p"}
    RateLimit = 2
    RateWindow = 2
    BacklogCap = 1
    MaxInvites = 3
    MaxInviteLoad = 3
    CIChecks = {"a", "b"}
    NoCheck = none
    Grace = 1
    MaxCIHeads = 2
    CIPlans <- MCPlans
    Changes = {"c1", "c2"}
    NoChange = none
    Pushers = {"p1"}
    Mirrored = TRUE
    MaxHeads = 2
    MaxFaults = 2
    People = {"p1", "p2"}
    Anonymous = "anon"
    Calls = {"r1", "r2", "r3"}
    Boot = "boot"
    NoCall = "none"
    Agendas <- MCAgendas
    MaxHubTrunk = 2
    MaxHubFaults = 2
    Lines = {"x", "y"}
    Snapshot = "snap"
    PushSlots = {"s1", "s2"}
    SpacePlans <- MCSpacePlans
    Cutters = {"u1", "u2"}
    MaxVersion = 2
    MaxReleases = 2
    MaxTrunk = 2
    ChangelogMax = 1
    MaxReleaseFaults = 1
    Projects <- MCProjects
    NoProject = none
    PathOf <- MCPathOf
    ChangedPaths <- MCChangedPaths
    RootInvalidation <- MCRootInvalidation
    Prose <- MCProse
    ContractPaths <- MCContractPaths
    Consumes <- MCConsumes
    Trees <- MCTrees
    Edits = {"e1"}
    MaxCommits = 2
    MaxSweeps = 1
    Subtrees = {"root", "app", "lib", "new"}
    Around <- MCAround
    Humans = {"ann", "bea"}
    Agents = {"bot"}
    OwnerRefs = {"ann", "team", "bot"}
    GatedChecks = {"ci", "smoke"}
    GlobalChecks = {}
    Lane <- MCLane
    GatePlans <- MCGatePlans
INVARIANTS
    DeliveredEverywhere ImagesReadyOnce InvitesKept WatchdogHonest HubSound
    SpaceKept ReleasesSound GateHolds AffectedExact NothingWasted
PROPERTIES
    OutboxDrains RolloutOrCause InvitesSettle ChecksSettle MirrorNotPoisoned
    TrunkKept WatcherCatchesUp
CHECK_DEADLOCK FALSE
