-------------------------- MODULE MCStudioProject --------------------------
(* Instances of StudioProject for TLC: two services on one project store. *)
EXTENDS StudioProject, TLC

CONSTANTS s1, s2, a, b, pack

MCServices == {s1, s2}
MCSpecs == {a, b}
MCBuilds == {pack}

\* Services and specifications are interchangeable; no liveness is checked.
MCSymmetry == Permutations(MCServices) \cup Permutations(MCSpecs)
=============================================================================
