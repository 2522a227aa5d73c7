SPECIFICATION MCSpec
CONSTANTS
    r1 = r1
    r2 = r2
    r3 = r3
    r4 = r4
    main = main
    other = other
    third = third
    Downloaders = {r1, r2, r3, r4}
    Loops = {main, other, third}
    LoopOf <- MCLoopOf
    Capacity = 2
    Closable = {other}
    Requests = {}
    Browsers = {}
    Handles = {}
    MaxSessions = 1
    MaxUploads = 1
    Setups <- MCSetups
    MaxRoots = 0
    None = None
INVARIANTS
    SlotsAccounted
PROPERTIES
    ImplementsPool
    NoOvertaking
    WaitEnds
\* Every request ends: the instance has finitely many and may stop.
CHECK_DEADLOCK FALSE
