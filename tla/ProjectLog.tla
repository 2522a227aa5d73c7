----------------------------- MODULE ProjectLog -----------------------------
(***************************************************************************)
(* What a durable Studio project promises its clients: one linear history  *)
(* of committed specifications and one draft.  The draft is replaced as a   *)
(* whole, a commit appends it to the history, and a portable history can be *)
(* installed into a project nothing was done to.  No services, generations  *)
(* or failures: StudioProject is shown to implement this.                   *)
(***************************************************************************)
EXTENDS Naturals, Sequences

CONSTANTS Specs, NoSpec, RevisionLimit

VARIABLES history, draft

Init == history = <<>> /\ draft = NoSpec

SetDraft(spec) ==
    /\ draft' = spec
    /\ UNCHANGED history

Commit ==
    /\ draft # NoSpec
    /\ Len(history) < RevisionLimit
    /\ history # <<>> => history[Len(history)] # draft
    /\ history' = Append(history, draft)
    /\ UNCHANGED draft

Install ==
    /\ history = <<>> /\ draft = NoSpec
    /\ history' \in Seq(Specs)
    /\ UNCHANGED draft

Next == (\E spec \in Specs : SetDraft(spec)) \/ Commit \/ Install

Spec == Init /\ [][Next]_<<history, draft>>
=============================================================================
