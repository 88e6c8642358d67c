\* The root is created, and its parent never synchronised.
CONSTANTS
    p1 = p1
    p2 = p2
    hostA = hostA
    hostB = hostB
    empty = empty
    full = full
    Procs <- OneProc
    Bindings <- OneBinding
    Contents <- TwoContents
    EmptyContent = empty
    Nil = Nil
    Torn = Torn
    PreExisting = FALSE
    MaxSelections = 1
    MaxFaults = 0
    MaxKills = 0
    MaxLosses = 1
SPECIFICATION Spec
INVARIANT ConfirmedSurvives
