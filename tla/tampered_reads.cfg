\* A client beside a writer that ignores the lock.
CONSTANTS
    hostA = hostA
    hostB = hostB
    empty = empty
    full = full
    Bindings <- TwoBindings
    Target = hostA
    Contents <- TwoContents
    EmptyContent = empty
    Absent = Absent
    Unfit = Unfit
    Junk = Junk
    MaxTampers = 2
SPECIFICATION Spec
INVARIANTS TypeOK ReadsAreAuthentic ReceiptsReadBack
PROPERTIES GenerationsImmutable AuthorityKept
