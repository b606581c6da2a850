SPECIFICATION Spec
CONSTANTS
    Changes = {c1}
    NoChange = none
    Handlers = {h1, h2}
    Owners = {o1}
    Checks = {}
    Touches <- MCTouches
    Scope = "conflict-only"
    MaxLandRaceRetries = 2
    AtomicStore = TRUE
    PromptCI = TRUE
    MaxFailures = 2
    Requests = {"land", "push", "sync", "approve", "abandon"}
    MaxHeads = 2
    MaxTrunk = 3
SYMMETRY MCSymmetry
INVARIANTS TypeOK LinearTrunk ReviewedLands
PROPERTIES LandedTerminal
