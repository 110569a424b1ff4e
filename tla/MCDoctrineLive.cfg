\* Three requests contend for the doctrine lock.
CONSTANTS
    Clients = {c1, c2, c3}
    Docs = {d1, d2}
    Bodies = {x, y}
    None = None
    PlainRevisions = {None}
    PlainLinks = {None}
    MaxIngests = 2
    MaxRollbacks = 1
    MaxPlain = 0
    MaxFaults = 1
SPECIFICATION FairSpec
PROPERTY EveryRequestAnswered
CHECK_DEADLOCK FALSE
