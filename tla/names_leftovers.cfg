\* Processes under one identifier that are killed, replaced and try again.
CONSTANTS
    p1 = p1
    Pids <- OnePid
    Nil = Nil
    MaxLeftovers = 1
    MaxFaults = 1
    MaxSequence = 9
SPECIFICATION RetrySpec
INVARIANTS TypeOK InstalledIsOwn OwnNamesAreFree
PROPERTIES LeftoversStay InstalledStays RetriesGetThrough
