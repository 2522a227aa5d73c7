SPECIFICATION MCSpec
CONSTANTS
    j1 = j1
    j2 = j2
    duck = duck
    owl = owl
    whale = whale
    wheel = wheel
    catalog = catalog
    measured = measured
    None = None
    Calls = {j1}
    Inputs <- AllInputs
    Refuses = {owl}
    Oversized = {whale}
    Clashing = {wheel}
    Threads = 1
    JobFaults = {"crash", "system", "cancel"}
    MaxFaults = 1
    Digests = {}
    Size <- NoDesigns
    MaximumArtifacts = 1
    MaximumBytes = 1
    Designs = {}
    Batch <- NoDesigns
    Documents <- NoDesigns
    MaxDownloads = 0
    FaultModels = {{}}
INVARIANT
    TransportBlamedRightly
CHECK_DEADLOCK FALSE
