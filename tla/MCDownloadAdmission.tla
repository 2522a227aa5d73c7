------------------------ MODULE MCDownloadAdmission ------------------------
(* Instances of the admission of StudioServer for TLC: four downloads on three
   loops, two of them on the loop of the main thread.  The sessions stand still. *)
EXTENDS StudioServer, TLC

CONSTANTS r1, r2, r3, r4, main, other, third

MCLoopOf == (r1 :> main) @@ (r2 :> main) @@ (r3 :> other) @@ (r4 :> third)
MCSetups == {[persistent |-> FALSE, faults |-> {}, generations |-> 0]}

MCSpec ==
    /\ Init /\ Slots!Init
    /\ [][Slots!Next /\ UNCHANGED vars]_<<Slots!vars, vars>>
    /\ Slots!Fairness
=============================================================================
