\* Calls of two clients end, and construction is repeated until it succeeds.
CONSTANTS
    p1 = p1
    p2 = p2
    hostA = hostA
    hostB = hostB
    empty = empty
    full = full
    Procs <- TwoProcs
    Bindings <- OneBinding
    Contents <- TwoContents
    EmptyContent = empty
    Nil = Nil
    Torn = Torn
    PreExisting = FALSE
    MaxSelections = 2
    MaxFaults = 2
    MaxKills = 2
    MaxLosses = 0
SPECIFICATION LiveSpec
INVARIANT OnlyRootIsLost
PROPERTIES CallsReturn RetriedConstructionSucceeds
