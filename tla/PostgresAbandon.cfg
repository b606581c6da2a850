SPECIFICATION Spec
CONSTANTS
    Changes = {c1}
    NoChange = none
    Handlers = {h1, h2}
    Owners = {o1}
    Checks = {}
    Touches <- MCTouches
    Scope = "conflict-only"
    MaxLandRaceRetries = 2
    AtomicStore = FALSE
    PromptCI = TRUE
    MaxFailures = 0
    Requests = {"land", "push", "approve", "abandon"}
    MaxHeads = 1
    MaxTrunk = 3
PROPERTIES LandedTerminal
