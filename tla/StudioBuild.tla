---------------------------- MODULE StudioBuild -----------------------------
(***************************************************************************)
(* The two parts of Character Robot Studio that make what a visitor        *)
(* downloads, side by side: the isolated CAD jobs, which are the instance   *)
(* Cad, and the artifact store (this module's other variables are those of *)
(* StudioArtifacts).  _compile awaits a job and has its answer before it    *)
(* touches the store again; a job knows nothing of the store.  So they are *)
(* checked and proved apart.                                               *)
(***************************************************************************)
EXTENDS StudioArtifacts

CONSTANTS Calls, Inputs, Refuses, Oversized, Clashing, Threads, JobFaults, MaxFaults
VARIABLES caller, thread, worker, files, harm, jobFaults

Cad == INSTANCE CadJobs WITH Jobs <- Calls, Faults <- JobFaults, faults <- jobFaults

\* The constants of the jobs are what CadJobs says of them.
ASSUME InputAssumption ==
    /\ \A in \in Inputs : DOMAIN in = {"spec", "profile", "wrong"} /\ in.wrong \subseteq Cad!Wrongs
    /\ Threads \in Nat \ {0} /\ MaxFaults \in Nat /\ JobFaults \subseteq Cad!FaultKinds
ASSUME NoneAssumption == None \notin Cad!Envelopes(Cad!Outcomes) \cup Cad!Dirs \cup {Cad!Mismatch}

\* A job is answered with the outcome of its own design, or a failure that has a code, and leaves
\* neither a process nor a file; where no file was damaged the answer blames none, unless its parts clash.
JobsSound == Cad!JobsSound
=============================================================================
