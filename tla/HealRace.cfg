SPECIFICATION Spec
CONSTANTS
    Changes = {"c1"}
    NoChange = none
    Pushers = {"p1"}
    Mirrored = TRUE
    MaxHeads = 2
    MaxFaults = 0
INVARIANT AcceptedIsReferenced
