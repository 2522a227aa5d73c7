------------------------------- MODULE CadJobs -------------------------------
(***************************************************************************)
(* Isolated CAD jobs: IsolatedCadCompiler and IsolatedCadJobRunner of      *)
(* cad_jobs.py, on a pool of threads, and the workers of cad_worker.py,    *)
(* processes that outlive the server when it dies.  A job is one call of   *)
(* compile.  A worker may stop taking steps at any time.                   *)
(***************************************************************************)
EXTENDS Integers, FiniteSets

CONSTANTS Jobs,
          Inputs,      \* records [spec, profile, wrong]
          Refuses,     \* the specs that the compiler refuses
          Oversized,   \* the specs whose result is larger than max_result_bytes
          Clashing,    \* the specs with a visible node named like a part the compiler adds: wheel_left, ...
          Threads,     \* the size of asyncio's default executor
          Faults,      \* which faults happen
          MaxFaults,   \* bound on the damaged files, failing system calls and deaths of the server
          None

FaultKinds == {"crash",    \* a limit kills a worker, or fails its compilation or its write
               "system",   \* the server cannot write or read a file or start a process
               "damage",   \* a file of a job is changed or removed
               "cancel",   \* the task that awaits a job is cancelled
               "death"}    \* the server dies

\* What may be wrong with an input, each looked for in this order: the profile has another id
\* than the spec names, or is no HardwareProfile; the spec is invalid, or the profile is; the
\* request has more than max_input_bytes.
Wrongs == {"id", "type", "spec", "profile", "size"}

VARIABLES caller,    \* by job: what its caller awaits or got
          thread,    \* by job: what its thread does
          worker,    \* by job: what its process does
          files,     \* by directory: the request and the response, or None
          harm,      \* by job, a history: "files" were changed, removed or unreadable; its "worker" ran short
          faults

vars == <<caller, thread, worker, files, harm, faults>>

-----------------------------------------------------------------------------
(* The transport *)

\* Mutation of DirOf: the directory has a fixed name.
DirOfFixed(j) == "character-cad-job"

\* tempfile.TemporaryDirectory
DirOf(j) == j

Mismatch == "of another payload"
Damaged == [payload |-> None, digest |-> Mismatch]
Contents(payload) == [payload |-> payload, digest |-> payload]

\* _decode_envelope: the digest is that of the payload.
Decodable(content) == content.payload = content.digest

Result(spec, profile) == [status |-> "succeeded", spec |-> spec, profile |-> profile]
Failure(code) == [status |-> "failed", code |-> code]

Codes == {"CAD_PROFILE_MISMATCH", "CAD_JOB_PROFILE_INVALID", "CAD_JOB_INPUT_TOO_LARGE", "OSError",
          "CAD_JOB_START_FAILED", "CAD_JOB_TIMEOUT", "CAD_JOB_RESOURCE_LIMIT", "CAD_JOB_WORKER_FAILED",
          "CAD_JOB_RESULT_MISSING", "CAD_JOB_RESULT_TOO_LARGE", "CAD_JOB_TRANSPORT_INVALID",
          "CAD_JOB_INTERNAL_ERROR", "CAD_JOB_INPUT_INVALID", "CAD_GEOMETRY_FAILED", "CAD_REFUSED"}

Request(in) == [spec |-> in.spec, profile |-> in.profile]
Requests == {Request(in) : in \in Inputs}
Outcomes == {Failure(code) : code \in Codes} \cup {Result(in.spec, in.profile) : in \in Inputs}
Envelopes(S) == {Damaged} \cup {Contents(payload) : payload \in S}
Dirs == [request : Envelopes(Requests), response : Envelopes(Outcomes) \cup {None}]

\* The results of some specs.
ResultsOf(specs) == {Result(in.spec, other.profile) : in \in {i \in Inputs : i.spec \in specs}, other \in Inputs}

Oversize(content) == content.payload \in ResultsOf(Oversized)

\* decode_cad_job_response: a failure, or a result of which no two parts have one name; all else
\* that _decode_result asks for, the compiler sees to.
Decoded(content) ==
    IF Decodable(content) /\ content.payload \notin ResultsOf(Clashing) THEN content.payload
    ELSE Failure("CAD_JOB_TRANSPORT_INVALID")

\* CadCompiler().compile of what the request holds, or its bounded failure.
Compiled(request) ==
    IF request.spec \in Refuses THEN Failure("CAD_REFUSED") ELSE Result(request.spec, request.profile)

Init ==
    /\ caller = [j \in Jobs |-> [at |-> "idle"]]
    /\ thread = [j \in Jobs |-> [at |-> "none"]]
    /\ worker = [j \in Jobs |-> [at |-> "none"]]
    /\ files = [dir \in {DirOf(j) : j \in Jobs} |-> None] /\ harm = [j \in Jobs |-> {}]
    /\ faults = 0

Alive(j) == worker[j].at \notin {"none", "exited"}
Fails(kind) == kind \in Faults /\ faults < MaxFaults /\ faults' = faults + 1

-----------------------------------------------------------------------------
(* The caller: IsolatedCadCompiler.compile *)

Answer(j, answer) == caller' = [caller EXCEPT ![j] =
                        IF @.at = "awaiting" THEN [at |-> "answered", in |-> @.in, answer |-> answer] ELSE @]

\* Only the profile's id and type are looked at before the job goes to the pool.
Call(j) ==
    /\ caller[j].at = "idle"
    /\ \E in \in Inputs :
          \/ /\ in.wrong \cap {"id", "type"} = {}
             /\ caller' = [caller EXCEPT ![j] = [at |-> "awaiting", in |-> in, answer |-> None]]
             /\ thread' = [thread EXCEPT ![j].at = "queued"]
          \/ /\ in.wrong \cap {"id", "type"} # {}
             /\ caller' = [caller EXCEPT ![j] = [at |-> "answered", in |-> in, answer |->
                   Failure(IF "id" \in in.wrong THEN "CAD_PROFILE_MISMATCH" ELSE "CAD_JOB_PROFILE_INVALID")]]
             /\ UNCHANGED thread
    /\ UNCHANGED <<worker, files, harm, faults>>

\* A job that waits for a thread is given up; one that has a thread goes on without a caller.
Cancel(j) ==
    /\ "cancel" \in Faults /\ caller[j].at = "awaiting"
    /\ caller' = [caller EXCEPT ![j].at = "cancelled"]
    /\ thread' = IF thread[j].at = "queued" THEN [thread EXCEPT ![j].at = "done"] ELSE thread
    /\ UNCHANGED <<worker, files, harm, faults>>

-----------------------------------------------------------------------------
(* The thread: IsolatedCadJobRunner.run *)

Harms(j, what) == harm' = [harm EXCEPT ![j] = @ \cup {what}]

Busy == {j \in Jobs : thread[j].at \notin {"none", "queued", "done", "dead"}}
Goes(j, place) == thread' = [thread EXCEPT ![j].at = place]

\* Every return and every exception leaves the directory's context, which removes it.
Returns(j, answer) == thread' = [thread EXCEPT ![j] = [at |-> "leaving", answer |-> answer]]

Refusal(wrong) == IF "spec" \in wrong THEN "CAD_JOB_INPUT_INVALID"
                  ELSE IF "profile" \in wrong THEN "CAD_JOB_PROFILE_INVALID" ELSE "CAD_JOB_INPUT_TOO_LARGE"

\* The checks of run, and the request.
Begin(j) ==
    /\ thread[j].at = "queued" /\ Cardinality(Busy) < Threads
    /\ IF caller[j].in.wrong = {} THEN Goes(j, "encoded") ELSE Returns(j, Failure(Refusal(caller[j].in.wrong)))
    /\ UNCHANGED <<caller, worker, files, harm, faults>>

\* The temporary directory and request.json; an OSError is not caught.
WriteRequest(j) ==
    /\ thread[j].at = "encoded"
    /\ files' = [files EXCEPT ![DirOf(j)] = [request |-> Contents(Request(caller[j].in)), response |-> None]]
    /\ \/ Goes(j, "starting") /\ UNCHANGED faults
       \/ Fails("system") /\ Returns(j, Failure("OSError"))
    /\ UNCHANGED <<caller, worker, harm>>

Start(j) ==
    /\ thread[j].at = "starting"
    /\ \/ worker' = [worker EXCEPT ![j] = [at |-> "started"]] /\ Goes(j, "waiting") /\ UNCHANGED faults
       \/ Fails("system") /\ Returns(j, Failure("CAD_JOB_START_FAILED")) /\ UNCHANGED worker
    /\ UNCHANGED <<caller, files, harm>>

\* Mutation of TimesOut: the wait has no timeout.
TimesOutNever(j) == FALSE

\* The wall-clock limit has passed: subprocess.TimeoutExpired.
TimesOut(j) == thread[j].at = "waiting"

Timeout(j) ==
    /\ TimesOut(j) /\ Goes(j, "killing")
    /\ UNCHANGED <<caller, worker, files, harm, faults>>

\* process.kill and the second wait, whatever the worker has come to.
AfterKill(j) == IF Alive(j) THEN [at |-> "exited", code |-> -9] ELSE worker[j]

Kill(j) ==
    /\ thread[j].at = "killing"
    /\ worker' = [worker EXCEPT ![j] = AfterKill(j)]
    /\ Returns(j, Failure("CAD_JOB_TIMEOUT"))
    /\ UNCHANGED <<caller, files, harm, faults>>

\* wait returns: a code other than 0 is a failure, whatever the response.
Exited(j) ==
    /\ thread[j].at = "waiting" /\ worker[j].at = "exited"
    /\ IF worker[j].code = 0 THEN Goes(j, "collecting")
       ELSE Returns(j, Failure(IF worker[j].code < 0 THEN "CAD_JOB_RESOURCE_LIMIT" ELSE "CAD_JOB_WORKER_FAILED"))
    /\ UNCHANGED <<caller, worker, files, harm, faults>>

Collected(response) ==
    IF response = None THEN Failure("CAD_JOB_RESULT_MISSING")
    ELSE IF Oversize(response) THEN Failure("CAD_JOB_RESULT_TOO_LARGE") ELSE Decoded(response)

\* stat, read and decode the response; an OSError of either counts as the worker's.
Collect(j) ==
    /\ thread[j].at = "collecting"
    /\ \/ /\ LET dir == files[DirOf(j)] IN Returns(j, Collected(IF dir = None THEN None ELSE dir.response))
          /\ UNCHANGED <<harm, faults>>
       \/ /\ Fails("system") /\ Harms(j, "files")
          /\ \E code \in {"CAD_JOB_RESULT_MISSING", "CAD_JOB_TRANSPORT_INVALID"} : Returns(j, Failure(code))
    /\ UNCHANGED <<caller, worker, files>>

AfterLeave(j) == None

\* TemporaryDirectory's exit; the loop then wakes the caller, if there is one.
Leave(j) ==
    /\ thread[j].at = "leaving"
    /\ files' = [files EXCEPT ![DirOf(j)] = AfterLeave(j)]
    /\ Answer(j, thread[j].answer)
    /\ thread' = [thread EXCEPT ![j] = [at |-> "done"]]
    /\ UNCHANGED <<worker, harm, faults>>

-----------------------------------------------------------------------------
(* The worker: cad_worker.main *)

Works(j, state) == worker' = [worker EXCEPT ![j] = state]

\* decode_cad_job_request; whatever fails up to the response becomes a bounded failure.
ReadRequest(j) ==
    /\ worker[j].at = "started"
    /\ LET dir == files[DirOf(j)]
       IN  IF dir # None /\ Decodable(dir.request)
           THEN Works(j, [at |-> "compiling", request |-> dir.request.payload])
           ELSE Works(j, [at |-> "writing", response |-> Failure("CAD_JOB_INTERNAL_ERROR")])
    /\ UNCHANGED <<caller, thread, files, harm, faults>>

\* CadCompileErrors, and all that is raised while the geometry is made, which becomes one.
Compile(j) ==
    /\ worker[j].at = "compiling"
    /\ \/ Works(j, [at |-> "writing", response |-> Compiled(worker[j].request)])
       \/ "crash" \in Faults /\ Works(j, [at |-> "writing", response |-> Failure("CAD_GEOMETRY_FAILED")])
    /\ UNCHANGED <<caller, thread, files, harm, faults>>

\* Any other error up to the response, as that of a limit before the geometry is begun or
\* while its result is encoded.
RunsShort(j) ==
    /\ "crash" \in Faults /\ worker[j].at \in {"started", "compiling"}
    /\ Works(j, [at |-> "writing", response |-> Failure("CAD_JOB_INTERNAL_ERROR")])
    /\ Harms(j, "worker")
    /\ UNCHANGED <<caller, thread, files, faults>>

\* An OSError of _write_atomic ends the process.
CodeUnwritten == 1

\* _write_atomic: the response is there as a whole, or not at all.
WriteResponse(j) ==
    /\ worker[j].at = "writing"
    /\ \/ /\ files[DirOf(j)] # None
          /\ files' = [files EXCEPT ![DirOf(j)].response = Contents(worker[j].response)]
          /\ Works(j, [at |-> "exiting"])
       \/ /\ files[DirOf(j)] = None \/ "crash" \in Faults
          /\ Works(j, [at |-> "exited", code |-> CodeUnwritten])
          /\ UNCHANGED files
    /\ UNCHANGED <<caller, thread, harm, faults>>

Exit(j) ==
    /\ worker[j].at = "exiting"
    /\ Works(j, [at |-> "exited", code |-> 0])
    /\ UNCHANGED <<caller, thread, files, harm, faults>>

\* RLIMIT_CPU or the system kills the worker, or it fails outside of main's try.
Crash(j) ==
    /\ "crash" \in Faults /\ Alive(j)
    /\ \E code \in {-24, 1} : Works(j, [at |-> "exited", code |-> code])
    /\ UNCHANGED <<caller, thread, files, harm, faults>>

-----------------------------------------------------------------------------
(* The rest of the machine *)

Damage(j) ==
    /\ Fails("damage") /\ files[DirOf(j)] # None
    /\ \/ files' = [files EXCEPT ![DirOf(j)].request = Damaged]
       \/ files[DirOf(j)].response # None /\ files' = [files EXCEPT ![DirOf(j)].response = Damaged]
       \/ files[DirOf(j)].response # None /\ files' = [files EXCEPT ![DirOf(j)].response = None]
    /\ Harms(j, "files")
    /\ UNCHANGED <<caller, thread, worker>>

\* The server dies and starts again: workers, in sessions of their own, and directories stay.
Dies ==
    /\ Fails("death") /\ Busy # {}
    /\ caller' = [j \in Jobs |-> IF caller[j].at = "awaiting" THEN [caller[j] EXCEPT !.at = "lost"] ELSE caller[j]]
    /\ thread' = [j \in Jobs |-> IF thread[j].at \in {"none", "done"} THEN thread[j] ELSE [at |-> "dead"]]
    /\ UNCHANGED <<worker, files, harm>>

ThreadStep(j) ==
    \/ Begin(j) \/ WriteRequest(j) \/ Start(j) \/ Timeout(j) \/ Kill(j)
    \/ Exited(j) \/ Collect(j) \/ Leave(j)

WorkerStep(j) == ReadRequest(j) \/ Compile(j) \/ RunsShort(j) \/ WriteResponse(j) \/ Exit(j) \/ Crash(j)

Next ==
    \/ \E j \in Jobs : Call(j) \/ Cancel(j) \/ ThreadStep(j) \/ WorkerStep(j) \/ Damage(j)
    \/ Dies

Spec == Init /\ [][Next]_vars

\* Threads run, and the wall clock goes on; a worker need not take another step.
FairSpec == Spec /\ \A j \in Jobs : WF_vars(ThreadStep(j))

-----------------------------------------------------------------------------
(* Properties *)

HasAnswer(j) == caller[j].at = "answered"
Succeeded(j) == HasAnswer(j) /\ caller[j].answer.status = "succeeded"
FailedWith(j, codes) == HasAnswer(j) /\ caller[j].answer.status = "failed" /\ caller[j].answer.code \in codes

\* The type invariant: every answer is a result or one of the failures that have a code, and
\* who awaits an answer has a thread, or waits for one.
TypeOK ==
    \A j \in Jobs :
        /\ HasAnswer(j) => Succeeded(j) \/ FailedWith(j, Codes)
        /\ caller[j].at = "awaiting" => thread[j].at \notin {"none", "done", "dead"}
        /\ thread[j].at \in {"none", "queued", "encoded", "starting", "waiting", "killing", "collecting",
                             "leaving", "done", "dead"}
        /\ worker[j].at \in {"none", "started", "compiling", "writing", "exiting", "exited"}

\* A success is the result of the very design and the very profile that were asked for, though
\* another profile may have the same id, other jobs run, files are damaged and the workers of a
\* dead server still write: "CAD, validation, and maker artifacts cannot silently use different
\* catalogs" (README.md:110).  A refusal, too, is of a design that the compiler refuses.
OutcomeTrue ==
    \A j \in Jobs :
        /\ Succeeded(j) => /\ caller[j].answer = Result(caller[j].in.spec, caller[j].in.profile)
                           /\ caller[j].in.spec \notin Refuses \cup Oversized \cup Clashing
        /\ FailedWith(j, {"CAD_REFUSED"}) => caller[j].in.spec \in Refuses

\* A job that has ended left no process and no directory, however it ended (cad_jobs.py:562, 597).
LeavesNothing == \A j \in Jobs : thread[j].at = "done" => ~Alive(j) /\ files[DirOf(j)] = None

\* A worker that ends well has written a response that can be read: unless a file of that very
\* job was changed or could not be read, no result is missing (cad_jobs.py:626) and none is refused
\* as it comes back, but where two parts have one name (373, 644).  A worker that did not run
\* short, of a job like that, reads its request and answers in a code of the compiler (cad_worker.py:22).
TransportWorks ==
    \A j \in Jobs : "files" \notin harm[j] =>
        /\ ~FailedWith(j, {"CAD_JOB_RESULT_MISSING"})
        /\ FailedWith(j, {"CAD_JOB_TRANSPORT_INVALID"}) => caller[j].in.spec \in Clashing
        /\ FailedWith(j, {"CAD_JOB_INTERNAL_ERROR"}) => "worker" \in harm[j]

\* A job is answered with the outcome of its own design, or a failure that has a code, and leaves
\* neither a process nor a file; where no file was damaged the answer blames none, unless its parts clash.
JobsSound == TypeOK /\ OutcomeTrue /\ LeavesNothing /\ TransportWorks

=============================================================================
