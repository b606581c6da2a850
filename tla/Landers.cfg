\* All Changes landed is a state in which no client has a request left.
SPECIFICATION FairSpec
CONSTANTS
    Changes = {"c1", "c2", "c3"}
    NoChange = none
    Handlers = {h1, h2}
    Owners = {o1}
    Checks = {}
    Touches <- MCTierTouches
    Scope = "affected-intersection"
    MaxLandRaceRetries = 2
    AtomicStore = TRUE
    PromptCI = TRUE
    MaxFailures = 0
    Requests = {"land", "push", "approve"}
    MaxHeads = 1
    MaxTrunk = 3
INVARIANTS DisjointLands LandedIsOnTrunk
PROPERTIES RequestsAnswered
CHECK_DEADLOCK FALSE
