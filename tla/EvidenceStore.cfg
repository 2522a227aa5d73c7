SPECIFICATION MCSpec
CONSTANTS
    Root = Root
    None = None
    r1 = r1
    r2 = r2
    e1 = e1
    e2 = e2
    e3 = e3
    e4 = e4
    u1 = u1
    u2 = u2
    a1 = a1
    a2 = a2
    k1 = k1
    k2 = k2
    q1 = q1
    q2 = q2
    x1 = x1
    x2 = x2
    RevisionIds = {r1, r2}
    EventIds = {e1, e2, e3, e4}
    RunIds = {u1, u2}
    Assets = {a1}
    Commitments = {k1}
    Attempts = {q1, q2}
    Results = {x1, x2}
    MaxEvents = 7
    MaxDamages = 0
SYMMETRY Alike
INVARIANTS
    CaseSound
    OneVerdict
    DamageNoticed
PROPERTIES
    ImplementsHistory
CHECK_DEADLOCK FALSE
