---------------------------- MODULE MCAutopsyServer ----------------------------
(***************************************************************************)
(* What surrounds the case services of one Autopsy server.  The start      *)
(* chooses: the client of the MuJoCo child, which three tasks share; the   *)
(* same for two tasks, with a child that may not end; the object store,    *)
(* with contents of the largest size and above it, or with an object for   *)
(* each client in two shards and one failure; or the workbench for two     *)
(* clients.  These are the two tabs of one browser, where a verdict may    *)
(* not be stored, or two browsers that compete for one session, once with  *)
(* a disk that may fail.  Requests may be cancelled.                       *)
(***************************************************************************)
EXTENDS AutopsyServer, TLC

CONSTANTS u1, u2, u3, k1, k2, small, full, large, s1, s2, c1, c2

Stuck == INSTANCE MujocoClient WITH Faults <- FaultKinds

\* The bytes of each content and the directory of its digest.
MCSize == small :> 1 @@ full :> 2 @@ large :> 3
MCShard == small :> s1 @@ full :> s2 @@ large :> s2

MCSetups == {[browsers |-> {{c1, c2}}, faults |-> {"cancel", "store"}, created |-> 3],
             [browsers |-> {{c1}, {c2}}, faults |-> {"cancel"}, created |-> 3],
             [browsers |-> {{c1}, {c2}}, faults |-> {"cancel", "disk"}, created |-> 2]}

VARIABLE part

\* The parts share nothing: the others stand still, in one of their initial states.
MCInit ==
    /\ part \in {"client", "stuck", "boundary", "shards", "workbench"} /\ Init /\ Objects!Init
    /\ Bench!Init /\ (part = "workbench" \/ setup.created = 2)

\* Each client puts contents of its own list only.
Putting(list) == \A k \in Clients : put[k].at # "idle" => put[k].content \in list[k]

MCNext == UNCHANGED part /\
    \/ part = "client" /\ Next /\ UNCHANGED <<publication, workbench>>
    \/ part = "stuck" /\ Stuck!Next /\ At(u3, "idle")' /\ UNCHANGED <<publication, workbench>>
    \/ part = "boundary" /\ Objects!Next /\ Putting([k \in Clients |-> {full, large}])' /\ UNCHANGED <<vars, workbench>>
    \/ part = "shards" /\ Objects!Next /\ Putting(k1 :> {small} @@ k2 :> {full})'
       /\ failures' < MaxFailures /\ UNCHANGED <<vars, workbench>>
    \/ part = "workbench" /\ Bench!Next /\ UNCHANGED <<vars, publication>>

MCSpec ==
    /\ MCInit /\ [][MCNext]_<<part, vars, publication, workbench>>
    /\ \A u \in Users : WF_vars(part = "client" /\ Step(u))
    /\ Bench!Fairness

\* Whoever calls the client gets an answer or an error, where the event loop is fair.
UsersReturnFairly == \A u \in Users : (part = "client" /\ ~At(u, "idle")) ~> At(u, "idle")
=============================================================================
