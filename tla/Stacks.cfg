CONSTANTS
    Changes = {"a", "b"}
    NoChange = "none"
    Stack <- MCStack
    Handlers = {"h1", "h2"}
    Worker = "worker"
    Mixes <- MCMixes
SPECIFICATION FairSpec
INVARIANT ParentsLandFirst
PROPERTY ReadyLands
CHECK_DEADLOCK FALSE
