SPECIFICATION MCSpec
CONSTANTS
    Root = 0
    None = None
    axis = axis
    damping = damping
    one = one
    other = other
    Services = {one, other}
    Attributes <- MCAttributes
    Values = {0, 1}
    Source <- MCSource
    RunBudget = 3
    ExperimentBudget = 1
    RevisionBudget = 2
    MaxEvents = 10
    Faults = {"crash"}
INVARIANTS
    EachBudgetHeld
    EvidenceInOrder
    OneSuite
PROPERTIES
    FairProgress
CHECK_DEADLOCK FALSE
