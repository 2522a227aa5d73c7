----------------------------- MODULE CaseHistory -----------------------------
(***************************************************************************)
(* What an Asset Autopsy case promises, whatever the store, the service    *)
(* and their clients do: a line of revisions that only grows, sealed by    *)
(* one qualification of the revision at its end, which is decided at most  *)
(* once.  EvidenceStore implements it.                                     *)
(***************************************************************************)
EXTENDS Sequences

CONSTANTS Root, RevisionIds, None

VARIABLES line,     \* the revisions, the root first; empty before the case exists
          judged,   \* the revision the qualification was reserved for, or None
          verdict   \* "unused", "RUNNING", "PASSED" or "FAILED"

vars == <<line, judged, verdict>>

Init == line = <<>> /\ judged = None /\ verdict = "unused"

Create ==
    /\ line = <<>>
    /\ line' = <<Root>>
    /\ UNCHANGED <<judged, verdict>>

Extend ==
    /\ line # <<>> /\ verdict = "unused"
    /\ \E r \in RevisionIds \ {line[i] : i \in DOMAIN line} : line' = Append(line, r)
    /\ UNCHANGED <<judged, verdict>>

Reserve ==
    /\ line # <<>> /\ verdict = "unused"
    /\ judged' = line[Len(line)]
    /\ verdict' = "RUNNING"
    /\ UNCHANGED line

Decide ==
    /\ verdict = "RUNNING"
    /\ verdict' \in {"PASSED", "FAILED"}
    /\ UNCHANGED <<line, judged>>

Next == Create \/ Extend \/ Reserve \/ Decide

Spec == Init /\ [][Next]_vars
=============================================================================
