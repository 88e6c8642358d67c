\* Both tools beside a client, with failures.
CONSTANTS
    init = init
    check = check
    client = client
    hostA = hostA
    empty = empty
    full = full
    Procs <- Everyone
    Inits <- InitOnly
    Checks <- CheckOnly
    Bindings <- OneBinding
    Contents <- TwoContents
    EmptyContent = empty
    Nil = Nil
    Torn = Torn
    PreExisting = TRUE
    MaxSelections = 2
    MaxFaults = 1
    MaxKills = 1
    MaxLosses = 1
SPECIFICATION ToolSpec
INVARIANT InitializedForGood
PROPERTIES PackagesKept CheckReportsTruth
