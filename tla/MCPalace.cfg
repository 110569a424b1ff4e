\* Two concurrent requests, deletes, sweeps and one fault.
CONSTANTS
    Clients = {c1, c2}
    Ids = {a, b, d}
    Contents = {x, y}
    Sources = {"Explicit", "AutoCapture"}
    RequestLinks = {None}
    None = None
    MaxSaves = 4
    MaxDeletes = 2
    MaxFaults = 1
SPECIFICATION Spec
INVARIANTS TypeOK Acyclic HeirPresent CompensatesItself OneRowPerText
PROPERTIES LinkStable ImplementsCorrections
SYMMETRY Symmetry
CHECK_DEADLOCK FALSE
