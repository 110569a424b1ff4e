\* An import and its re-run beside another client, with one fault.
CONSTANTS
    Conns = {cli, c1}
    Cli = cli
    Facts <- MCFacts
    Subject <- MCSubject
    Object <- MCObject
    Key <- MCKey
    Namespaces = {"import", "global"}
    Target = "import"
    Ids = {"m1"}
    Text <- MCText
    Names <- MCNames
    Source <- MCSource
    FactOf <- MCFactOf
    None = None
    Times = {1, 2}
    FindLimit = 1
    TimelineLimit = 1
    MaxRetries = 1
    MaxRequests = 1
    MaxFaults = 1
    MaxRuns = 2
    MaxWrites = 2
SPECIFICATION Spec
INVARIANTS Accounted TriplesHaveNodes
PROPERTIES ClosedStaysClosed RetiredStaysRetired ImportEnds
CHECK_DEADLOCK FALSE
