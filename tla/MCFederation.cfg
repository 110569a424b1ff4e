\* Two concurrent requests, one other write, one fault or restart, two clock values.
CONSTANTS
    Clients = {c1, c2}
    Facts = {"url", "Url", "decision", "hunch", "pattern"}
    Fold <- MCFold
    Sessions <- MCSessions
    Replies <- MCReplies
    LlmEnvs <- MCLlmEnvs
    Lower <- MCLower
    Environments <- MCEnvironments
    Unparsable = Unparsable
    Writes <- MCWrites
    None = None
    MaxJobs = 4
    MaxWrites = 1
    MaxFaults = 1
    MaxTime = 1
SPECIFICATION FedSpec
INVARIANTS NothingSlips ReviewGate BoundaryHolds
SYMMETRY Symmetry
CHECK_DEADLOCK FALSE
