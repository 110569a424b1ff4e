\* One request among two writes, one failed append, a clock of two values.
CONSTANTS
    Conns = {c1}
    Cells <- MCCells
    Namespaces <- MCNamespaces
    WallOrder <- MCWallOrder
    Palaces <- MCPalaces
    Orgs = {"org"}
    Imports = {"import"}
    Importance <- MCImportance
    Created <- MCCreated
    Similarity <- MCSimilarity
    RoomOf <- MCRoomOf
    None = None
    BrowseCap = 2
    Limit = 2
    Stratum = 1
    DoctrineLimit = 2
    LedgerDefault = 1
    LedgerCap = 2
    MaxRequests = 1
    MaxWrites = 2
    MaxFaults = 1
    MaxTime = 1
SPECIFICATION Spec
INVARIANTS WakeupPromise BestServed LedgerExact AuditShows
CHECK_DEADLOCK FALSE
