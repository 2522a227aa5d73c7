SPECIFICATION FairSpec
CONSTANTS
    r1 = r1
    r2 = r2
    b1 = b1
    b2 = b2
    h1 = h1
    h2 = h2
    Requests <- MCTwoRequests
    Browsers <- MCOneBrowser
    Handles <- MCHandles
    MaxSessions = 1
    MaxUploads = 1
    Setups <- MCStorageFails
    MaxRoots = 2
    None = None
PROPERTIES
    QueueMoves
    DoomedDeleted
\* Names run out and generations stop: the instance may stop there.
CHECK_DEADLOCK FALSE
