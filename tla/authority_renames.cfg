\* Two clients while the configured path is renamed and replaced.
CONSTANTS
    p1 = p1
    p2 = p2
    d1 = d1
    d2 = d2
    away = away
    hostA = hostA
    hostB = hostB
    empty = empty
    full = full
    Procs <- TwoProcs
    Dirs <- ThreeDirs
    Elsewhere <- Away
    Bindings <- TwoBindings
    Contents <- TwoContents
    EmptyContent = empty
    Nil = Nil
    MaxRenames = 2
SYMMETRY Symmetry
SPECIFICATION Spec
INVARIANTS TypeOK HandleNotRedirected HandleBound LinksRefused NothingLost
