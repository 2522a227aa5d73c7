-------------------------- MODULE MCStudioSessions --------------------------
(* Instances of StudioSessions for TLC. *)
EXTENDS StudioSessions, TLC

CONSTANTS r1, r2, b1, b2, h1, h2

MCTwoRequests == {r1, r2}
MCBrowsers == {b1, b2}
MCOneBrowser == {b1}
MCHandles == {h1, h2}

\* A server that keeps its projects through crashes, one whose storage fails as well, and
\* one that forgets its projects and where nothing fails.
MCAllSetups == {[persistent |-> TRUE, faults |-> {"crash"}, generations |-> 2],
                [persistent |-> TRUE, faults |-> {"crash", "storage"}, generations |-> 1],
                [persistent |-> FALSE, faults |-> {}, generations |-> 2]}
MCStorageFails == {[persistent |-> TRUE, faults |-> {"storage"}, generations |-> 1]}

\* Requests, browsers and session objects are interchangeable.
MCSymmetry ==
    Permutations(MCTwoRequests) \cup Permutations(MCBrowsers) \cup Permutations(MCHandles)
=============================================================================
