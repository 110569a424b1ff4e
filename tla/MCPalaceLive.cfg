\* Three requests contend for the lock; one may fail or be dropped.
CONSTANTS
    Clients = {c1, c2, c3}
    Ids = {a, b}
    Contents = {x, y}
    Sources = {"Explicit"}
    RequestLinks = {None}
    None = None
    MaxSaves = 3
    MaxDeletes = 0
    MaxFaults = 1
SPECIFICATION FairSpec
PROPERTY EverySaveAnswered
CHECK_DEADLOCK FALSE
