---------------------------- MODULE AutopsyServer ----------------------------
(***************************************************************************)
(* What surrounds the case services of one Autopsy server.  Below them are *)
(* the client of the MuJoCo child (this module's own variables are those   *)
(* of MujocoClient) and the object store, which is the instance Objects;   *)
(* above them is the workbench, the instance Bench, which leases each of   *)
(* its sessions a case service.  The parts share nothing: a case service   *)
(* puts in the store what the client answered, and tells the workbench     *)
(* how it ended.                                                           *)
(***************************************************************************)
EXTENDS MujocoClient

CONSTANTS Clients, Contents, Size, Shards, Shard, MaxObject, Chunk, MaxFailures
VARIABLES put, objects, synced, acked, failures

publication == <<put, objects, synced, acked, failures>>

Objects == INSTANCE ObjectPublication

\* The constants of the object store are what ObjectPublication says of them.
Sizes ==
    /\ Size \in [Contents -> Nat] /\ Shard \in [Contents -> Shards]
    /\ MaxObject \in Nat /\ Chunk \in Nat \ {0} /\ MaxFailures \in Nat

ASSUME SizesAssumption == Sizes

\* The object of a put that returned survives any failure, a path never holds a part of its
\* object, and the limit is exact.
ObjectsDurable == Objects!Durable

-----------------------------------------------------------------------------
CONSTANTS Tabs, MaximumSessions, RevisionBudget, MaxCreated, MaxGenerations, Setups
VARIABLES setup, sessions, listed, request, cookie, disk, open

workbench == <<setup, sessions, listed, request, cookie, disk, open>>

Bench == INSTANCE AutopsyWorkbench WITH Clients <- Tabs, session <- sessions

\* The constants of the workbench: every tab has a cookie.
ASSUME SetupsAssumption ==
    \A u \in Setups : /\ UNION u.browsers = Tabs /\ u.faults \subseteq Bench!FaultKinds
                      /\ u.created \in 0 .. MaxCreated
ASSUME TabsAssumption == IsFiniteSet(Tabs)
ASSUME BoundsAssumption ==
    /\ MaximumSessions \in 1 .. 32 /\ RevisionBudget \in Nat
    /\ MaxCreated \in Nat /\ MaxGenerations \in Nat \ {0}
ASSUME NoSessionAssumption == None \notin Bench!Results \cup Bench!Sessions

\* Requests hold on to live sessions, whoever is evicted, reset or cancelled: the leases are
\* counted, their stores open and their files there, and no store is open besides.
SessionsSound == Bench!SessionsSound

\* What a session remembers is true of its present case: nothing of an earlier generation, no
\* lock on a case that is not decided, no ticket of one that did not pass.
MemoryTrue == Bench!MemoryTrue

\* Once the hidden suite of a generation has its verdict, the session accepts no draft until Reset.
NoDraftAfterSuite == Bench!NoDraftAfterSuite

\* Every request to the workbench is answered.
RequestsEnd == Bench!RequestsEnd
=============================================================================
