SPECIFICATION LinesSpec
CONSTANTS
    Changes = {c1}
    NoChange = none
    Handlers = {h1}
    Owners = {o1}
    Checks = {}
    Touches <- MCTouches
    Scope = "conflict-only"
    MaxLandRaceRetries = 2
    AtomicStore = FALSE
    PromptCI = FALSE
    MaxFailures = 1
    Requests = {"land", "force", "push", "sync", "approve", "abandon"}
    MaxHeads = 2
    MaxTrunk = 3
    Work = {"x", "y", "far", "big"}
    Outside = {"far"}
    Large = {"big"}
    MaxLine = 2
    Checkouts <- MCCheckouts
    Clients = {"c1", "c2"}
    Budget <- MCBudget
    StoreOps <- MCStoreOps
    Keys = {"a", "b"}
    Known = {"a"}
    Images = {"i", "j"}
    LastAttempt = 2
    Retained = 2
    Asks <- MCAsks
    Worlds <- MCWorlds
    MaxTurns = 1
    DirOrder <- MCDirOrder
    Above <- MCAbove
    Scenes <- MCScenes
    Makers = {"m1", "m2"}
    Desks <- MCDesks
    MaxSlips = 1
    Spots = {"p", "q"}
    Tasks = {"u", "v"}
    Marks = {"t", "n"}
    Tracked = {"t"}
    Machines <- MCMachines
    Talks <- MCTalks
    MaxAmends = 2
    MaxUpsets = 1
    Routes <- MCRoutes
    MaxSeen = 1
    TokenLife = 3
    RefreshMargin = 1
    LastTick = 4
    Updaters = {"u1", "u2"}
    Hosts <- MCHosts
    Builds = {"b1", "b2"}
    MaxStops = 1
    SkillOrder <- MCSkillOrder
    Grounds <- MCGrounds
    UserKeys = {"k"}
    Days <- MCDays
    EventLimit = 2
    Members <- MCMembers
    CIJobs <- MCCIJobs
INVARIANTS
    AuthoringKept StoresAgree DoorsSound CreatesSound HomeSound
    ReviewHonest CISound
PROPERTY Lifecycle
CHECK_DEADLOCK FALSE
