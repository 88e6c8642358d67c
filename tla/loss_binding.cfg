\* A resumed initialisation binds before the selection is durable.
CONSTANTS
    p1 = p1
    p2 = p2
    hostA = hostA
    hostB = hostB
    empty = empty
    full = full
    Procs <- OneProc
    Bindings <- OneBinding
    Contents <- TwoContents
    EmptyContent = empty
    Nil = Nil
    Torn = Torn
    PreExisting = TRUE
    MaxSelections = 1
    MaxFaults = 0
    MaxKills = 1
    MaxLosses = 1
SPECIFICATION Spec
INVARIANT BindingFindsSelection
