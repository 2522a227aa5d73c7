SPECIFICATION Spec
CONSTANTS
    s1 = s1
    s2 = s2
    a = a
    b = b
    pack = pack
    NoSpec = NoSpec
    NoDraft = NoDraft
    Services <- MCServices
    Specs <- MCSpecs
    Builds <- MCBuilds
    RevisionLimit = 2
    ManifestLimit = 1
    MaxGeneration = 4
    Faults = {"open"}
INVARIANTS
    RolledBack
\* No tool begins at MaxGeneration: the instance may stop there.
CHECK_DEADLOCK FALSE
