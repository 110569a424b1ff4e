\* Two concurrent requests out of four in all, one fault, one refill.
CONSTANTS
    Conns = {c1, c2}
    Tokens <- MCTokens
    Principals = {"root", "ann"}
    Holder <- MCHolder
    Caps <- MCCaps
    Walls = {"wing"}
    Inputs <- MCInputs
    None = None
    Base = 1
    MaxRequests = 4
    MaxRefills = 1
    MaxFaults = 1
SPECIFICATION Spec
INVARIANTS RejectionsPersist PrivateStaysPrivate ExpelledStaysOut NoFreeRefill
PROPERTIES DeadOnArrival ReadersChangeNothing
SYMMETRY Symmetry
CHECK_DEADLOCK FALSE
