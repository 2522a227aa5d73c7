------------------------------ MODULE MCV2Project ------------------------------
(***************************************************************************)
(* The start chooses: the project store, with clients, requirements and    *)
(* contents that are alike; or the writes of one project, with a domain    *)
(* beside the requirements, no open question or two, and texts that are    *)
(* alike once they are cut.                                                *)
(***************************************************************************)
EXTENDS V2Project, TLC

CONSTANTS c1, c2, p1, r1, r2, h1, d1, d2

VARIABLES deriving, spec, result

derived == <<spec, result>>
first == <<"a", "b", "a">>
second == <<"a", "b", "b">>

Readiness == INSTANCE V2Readiness WITH
    Domains <- <<"component_selection">>,
    Texts <- {first, second},
    TextLimit <- 2, MaxItems <- 2,
    Digests <- {"digest"}, Heads <- {"head"}, HeadDigests <- {"old", "new"}, DraftDigests <- {"new"}

MCInit ==
    /\ deriving \in BOOLEAN
    /\ Init
    /\ Readiness!Init /\ spec.questions \in {<<>>} \cup IF deriving THEN {<<first, second>>} ELSE {}

MCNext == UNCHANGED deriving /\
    \/ ~deriving /\ Next /\ UNCHANGED derived
    \/ deriving /\ Readiness!Next /\ UNCHANGED vars

MCSpec == MCInit /\ [][MCNext]_<<deriving, vars, derived>>

\* No valid specification is refused for what the server derives from it, which hides no domain
\* that is not checked and completes none.
DerivationSound == Readiness!Derived

Alike == Permutations(Clients) \cup Permutations(Requirements) \cup Permutations(Contents)
=============================================================================
