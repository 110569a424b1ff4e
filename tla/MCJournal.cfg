\* Two principals share session ids; one reply is lost.
CONSTANTS
    Principals = {p, q}
    SessionIds = {s, t}
    Indexes = {1, 2}
    Agents = {"pi"}
    Clock = {0, 1}
    Repos <- MCRepos
    Paths <- MCPaths
    Cwds <- MCCwds
    None = None
    DefaultLimit = 3
    MaxLimit = 4
    MaxOps = 5
    MaxFaults = 1
SPECIFICATION Spec
INVARIANTS JournalReadsBack OwnAsLeft MostSpecific
SYMMETRY Symmetry
CHECK_DEADLOCK FALSE
