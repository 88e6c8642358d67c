\* Rival clients for two targets, with errors, a kill and a power loss.
CONSTANTS
    p1 = p1
    p2 = p2
    hostA = hostA
    hostB = hostB
    empty = empty
    full = full
    Procs <- TwoProcs
    Bindings <- TwoBindings
    Contents <- TwoContents
    EmptyContent = empty
    Nil = Nil
    Torn = Torn
    PreExisting = TRUE
    MaxSelections = 3
    MaxFaults = 1
    MaxKills = 1
    MaxLosses = 1
SPECIFICATION Spec
INVARIANTS ConfirmedSurvives SelectedRetained OneTarget StoreOpens IInv
PROPERTIES ImplementsCanonicalStore
