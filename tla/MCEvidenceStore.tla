--------------------------- MODULE MCEvidenceStore ---------------------------
(* Two revisions at most, enough identities to cite the wrong one. *)
EXTENDS EvidenceStore, TLC

CONSTANTS r1, r2, e1, e2, e3, e4, u1, u2, a1, a2, k1, k2, q1, q2, x1, x2

\* A database that gets damaged, with fewer identities.
Fragile == INSTANCE EvidenceStore WITH
    RevisionIds <- {r1}, EventIds <- {e1, e2}, RunIds <- {u1}, Assets <- {a1, a2},
    Commitments <- {k1, k2}, Attempts <- {q1, q2}, Results <- {x1},
    MaxEvents <- 5, MaxDamages <- 1

VARIABLE fragile

MCInit == fragile \in BOOLEAN /\ Init
MCNext ==
    \/ ~fragile /\ Next /\ UNCHANGED fragile
    \/ fragile /\ Fragile!Next /\ UNCHANGED fragile
MCSpec == MCInit /\ [][MCNext]_<<fragile, vars>>

\* Identities that the calls treat alike.
Alike == Permutations({r1, r2}) \cup Permutations({e1, e2, e3, e4}) \cup Permutations({u1, u2})
         \cup Permutations({q1, q2}) \cup Permutations({x1, x2})
=============================================================================
