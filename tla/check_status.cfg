\* pkgstate-check beside a publisher.
CONSTANTS
    init = init
    check = check
    client = client
    hostA = hostA
    empty = empty
    full = full
    Procs <- Everyone
    Inits <- InitOnly
    Checks <- CheckOnly
    Bindings <- OneBinding
    Contents <- TwoContents
    EmptyContent = empty
    Nil = Nil
    Torn = Torn
    PreExisting = TRUE
    MaxSelections = 2
    MaxFaults = 0
    MaxKills = 0
    MaxLosses = 0
SPECIFICATION ToolSpec
INVARIANT CheckRefusesOnlyInvalid
