------------------------------- MODULE MCCadJobs -------------------------------
(***************************************************************************)
(* The start chooses: jobs on one thread, with designs that compile, that  *)
(* the compiler refuses, whose result is too large or has two parts of one *)
(* name, and all that may be wrong with a request; or jobs on two threads  *)
(* whose files are damaged and whose server dies.                          *)
(***************************************************************************)
EXTENDS StudioBuild

CONSTANTS j1, j2, duck, owl, whale, wheel, catalog, measured

AllInputs ==
    [spec : {duck, owl, whale, wheel}, profile : {catalog}, wrong : {{}}]
    \cup [spec : {duck}, profile : {catalog}, wrong : {{"id"}, {"type"}, {"spec"}, {"profile"}, {"size"}}]

\* Two profiles of one id.
Sound == [spec : {duck}, profile : {catalog, measured}, wrong : {{}}]

Deadly == INSTANCE CadJobs WITH
    Jobs <- Calls, faults <- jobFaults, Inputs <- Sound, Threads <- 2,
    Faults <- {"crash", "damage", "death"}, MaxFaults <- 2

VARIABLE part

jobs == <<caller, thread, worker, files, harm, jobFaults>>

NoDesigns == <<>>

MCInit == Init /\ Cad!Init /\ part \in {"jobs", "deaths"}

\* The store stands still.
MCNext ==
    /\ \/ part = "jobs" /\ Cad!Next
       \/ part = "deaths" /\ Deadly!Next
    /\ UNCHANGED part /\ UNCHANGED vars

MCSpec ==
    /\ MCInit /\ [][MCNext]_<<part, jobs>>
    /\ \A j \in Calls : WF_jobs(part = "jobs" /\ Cad!ThreadStep(j))

\* While the server lives, whoever awaits a job is answered and every worker ends.
JobsEnd == \A j \in Calls :
    /\ (part = "jobs" /\ caller[j].at = "awaiting") ~> caller[j].at # "awaiting"
    /\ (part = "jobs" /\ Cad!Alive(j)) ~> ~Cad!Alive(j)

\* "The isolated CAD result failed transport integrity checks" (cad_jobs.py:648) is said of a
\* response only when a file of the job was changed or could not be read.
TransportBlamedRightly ==
    \A j \in Calls : Cad!FailedWith(j, {"CAD_JOB_TRANSPORT_INVALID"}) => "files" \in harm[j]
=============================================================================
