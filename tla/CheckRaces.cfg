SPECIFICATION Spec
CONSTANTS
    Changes = {c1}
    NoChange = none
    Handlers = {h1, h2}
    Owners = {}
    Checks = {k1}
    Touches <- MCTouches
    Scope = "conflict-only"
    MaxLandRaceRetries = 2
    AtomicStore = TRUE
    PromptCI = TRUE
    MaxFailures = 1
    Requests = {"land", "push", "sync", "report", "rerun"}
    MaxHeads = 2
    MaxTrunk = 3
SYMMETRY MCSymmetry
INVARIANTS TestedLands NoSilentHead
