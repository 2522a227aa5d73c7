SPECIFICATION Spec
CONSTANTS
    arm = arm
    shared = shared
    bodySheet = bodySheet
    armDesign = armDesign
    bodyDesign = bodyDesign
    Digests <- MCDigests
    Size <- MCSize
    MaximumArtifacts = 2
    MaximumBytes = 3
    Designs <- MCDesigns
    Batch <- MCBatch
    Documents <- MCDocuments
    MaxDownloads = 1
    FaultModels <- MCFaultModels
    None = None
INVARIANTS
    AccountExact
    PinnedKept
    BudgetHeld
