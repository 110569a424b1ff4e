\* One triple, imported into a namespace while another namespace may hold it.
CONSTANTS
    Conns = {cli, c1}
    Cli = cli
    Facts <- OneFact
    Subject <- MCSubject
    Object <- MCObject
    Key <- MCKey
    Namespaces = {"import", "global"}
    Target = "import"
    Ids = {}
    Text <- MCText
    Names <- MCNames
    Source <- OneSource
    FactOf <- MCFactOf
    None = None
    Times = {1}
    FindLimit = 1
    TimelineLimit = 1
    MaxRetries = 1
    MaxRequests = 1
    MaxFaults = 0
    MaxRuns = 1
    MaxWrites = 0
SPECIFICATION Spec
INVARIANT ImportedVisible
CHECK_DEADLOCK FALSE
