\* Ingests and rollbacks with one plain writer and one fault among them.
CONSTANTS
    Clients = {c1, c2}
    Docs = {d1, d2}
    Bodies = {x, y, z}
    None = None
    PlainRevisions = {None, 1}
    PlainLinks = {None, d1, d2}
    MaxIngests = 4
    MaxRollbacks = 1
    MaxPlain = 1
    MaxFaults = 1
SPECIFICATION Spec
INVARIANTS StableIdentity ArchiveInjective  OneLiveHolder
PROPERTY IngestServes
SYMMETRY Symmetry
CHECK_DEADLOCK FALSE
