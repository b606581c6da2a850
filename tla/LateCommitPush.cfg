SPECIFICATION Spec
CONSTANTS
    Changes = {c1}
    NoChange = none
    Handlers = {h1, h2}
    Owners = {o1}
    Checks = {}
    Touches <- MCTouches
    Scope = "conflict-only"
    MaxLandRaceRetries = 2
    AtomicStore = TRUE
    PromptCI = TRUE
    MaxFailures = 0
    Requests = {"land", "push", "approve"}
    MaxHeads = 2
    MaxTrunk = 3
PROPERTIES LandedRowFrozen
CHECK_DEADLOCK FALSE
