CONSTANTS
    Changes = {"a", "b"}
    NoChange = "none"
    Stack <- MCStack
    Handlers = {"h1", "h2"}
    Worker = "worker"
    Mixes <- StaleMixes
SPECIFICATION Spec
INVARIANT ParentContentLanded
CHECK_DEADLOCK FALSE
