SPECIFICATION MCSpec
CONSTANTS
    c1 = c1
    c2 = c2
    p1 = p1
    r1 = r1
    r2 = r2
    h1 = h1
    d1 = d1
    d2 = d2
    None = None
    Clients = {c1, c2}
    Ids = {p1}
    Requirements = {r1, r2}
    Heads = {h1}
    Contents = {d1, d2}
    MaxGeneration = 2
    MaxFaults = 1
SYMMETRY Alike
INVARIANTS
    OneOrigin
    AtMostOnce
    DerivationSound
PROPERTIES
    WritesGuarded
CHECK_DEADLOCK FALSE
