SPECIFICATION MCSpec
CONSTANTS
    s1 = s1
    s2 = s2
    a = a
    b = b
    pack = pack
    NoSpec = NoSpec
    NoDraft = NoDraft
    chassis = chassis
    head = head
    wing = wing
    tail = tail
    None = None
    Services <- MCServices
    Specs <- MCSpecs
    Builds <- MCBuilds
    RevisionLimit = 2
    ManifestLimit = 1
    MaxGeneration = 4
    Faults = {"write", "open", "reload"}
SYMMETRY MCSymmetry
INVARIANTS
    HistorySound
    PhantomsAreStale
    DesignSound
PROPERTIES
    NoLostUpdate
    ImplementsLog
\* No tool begins at MaxGeneration, and a graph is compiled once: the instance may stop there.
CHECK_DEADLOCK FALSE
