------------------------- MODULE DownloadAdmission -------------------------
(***************************************************************************)
(* The process-wide admission of artifact downloads of the Studio HTTP     *)
(* server: class _ArtifactDownloadAdmission of character_robot/workbench.py *)
(* and the part of artifact_endpoint that takes and gives back a slot.     *)
(*                                                                         *)
(* A download request is a task on one event loop.  Each event loop runs   *)
(* in a thread of its own and executes one callback at a time; the loops   *)
(* interleave freely except inside `with self._lock`.  release() is two    *)
(* steps, because the lock is dropped before call_soon_threadsafe.         *)
(*                                                                         *)
(* StudioServer has an instance of it, states what its constants are and    *)
(* that it implements SlotPool.                                            *)
(***************************************************************************)
EXTENDS Naturals, FiniteSets, SequencesExt

CONSTANTS Requests,    \* download requests, each served by one task
          Loops,       \* event loops, one thread each
          LoopOf,      \* the loop a request is served on
          Capacity,    \* MAX_CONCURRENT_ARTIFACT_DOWNLOADS
          Closable     \* the loops that may shut down while others run

VARIABLES active,   \* self._active
          waiters,  \* self._waiters, oldest first
          granted,  \* waiter.granted, per request
          woken,    \* waiter.future.done(), per request
          pc,       \* where each task and each wake callback stands
          target,   \* the waiter a release() call is about to wake
          closed    \* the loops already closed

vars == <<active, waiters, granted, woken, pc, target, closed>>

\* A request is served by its task; the release() that hands it a slot may
\* schedule one wake_waiter callback on its loop.  Both can call release().
Task(r) == <<"task", r>>
Wake(r) == <<"wake", r>>
Actors == {"task", "wake"} \X Requests

TaskPC == {"new", "waiting", "holding", "release", "notify", "done"}
WakePC == {"none", "scheduled", "release", "notify", "done"}

TypeOK ==
    /\ active \in 0 .. Capacity
    /\ waiters \in Seq(Requests)
    /\ granted \in [Requests -> BOOLEAN]
    /\ woken \in [Requests -> BOOLEAN]
    /\ pc \in [Actors -> TaskPC \cup WakePC]
    /\ \A r \in Requests : pc[Task(r)] \in TaskPC /\ pc[Wake(r)] \in WakePC
    /\ target \in [Actors -> Requests \cup {<<>>}]
    /\ closed \subseteq Loops

Init ==
    /\ active = 0
    /\ waiters = <<>>
    /\ granted = [r \in Requests |-> FALSE]
    /\ woken = [r \in Requests |-> FALSE]
    /\ pc = [a \in Actors |-> IF a[1] = "task" THEN "new" ELSE "none"]
    /\ target = [a \in Actors |-> <<>>]
    /\ closed = {}

\* A loop executes one callback at a time: while a task or a callback of the
\* loop is inside release(), nothing else of that loop runs.
MayRun(a) ==
    /\ LoopOf[a[2]] \notin closed
    /\ \A b \in Actors \ {a} :
           LoopOf[b[2]] = LoopOf[a[2]] => pc[b] \notin {"release", "notify"}

-----------------------------------------------------------------------------
(* acquire() *)

\* Mutation of AcquireFree: the counter is not compared with the capacity.
AcquireFreeUnchecked(r) ==
    /\ MayRun(Task(r))
    /\ pc[Task(r)] = "new"
    /\ active' = active + 1
    /\ pc' = [pc EXCEPT ![Task(r)] = "holding"]
    /\ UNCHANGED <<waiters, granted, woken, target, closed>>

\* A slot is free: it is taken under the lock and acquire() returns.
AcquireFree(r) ==
    /\ MayRun(Task(r))
    /\ pc[Task(r)] = "new"
    /\ active < Capacity
    /\ active' = active + 1
    /\ pc' = [pc EXCEPT ![Task(r)] = "holding"]
    /\ UNCHANGED <<waiters, granted, woken, target, closed>>

\* No slot is free: a waiter joins the queue and its shielded future is awaited.
AcquireWait(r) ==
    /\ MayRun(Task(r))
    /\ pc[Task(r)] = "new"
    /\ active >= Capacity
    /\ waiters' = Append(waiters, r)
    /\ pc' = [pc EXCEPT ![Task(r)] = "waiting"]
    /\ UNCHANGED <<active, granted, woken, target, closed>>

\* The future was resolved: acquire() returns and the endpoint goes on.
Resume(r) ==
    /\ MayRun(Task(r))
    /\ pc[Task(r)] = "waiting"
    /\ woken[r]
    /\ pc' = [pc EXCEPT ![Task(r)] = "holding"]
    /\ UNCHANGED <<active, waiters, granted, woken, target, closed>>

\* Mutation of CancelGranted: the handler forgets the slot it was just handed.
CancelGrantedForgets(r) ==
    /\ MayRun(Task(r))
    /\ pc[Task(r)] = "waiting"
    /\ granted[r]
    /\ pc' = [pc EXCEPT ![Task(r)] = "done"]
    /\ UNCHANGED <<active, waiters, granted, woken, target, closed>>

\* The waiting task is cancelled.  Its handler looks at `granted` under the lock:
\* a waiter that already owns a slot gives it back with release() ...
CancelGranted(r) ==
    /\ MayRun(Task(r))
    /\ pc[Task(r)] = "waiting"
    /\ granted[r]
    /\ pc' = [pc EXCEPT ![Task(r)] = "release"]
    /\ UNCHANGED <<active, waiters, granted, woken, target, closed>>

\* ... and one that owns none leaves the queue (deque.remove; a waiter that is not
\* there is left alone).  The shielded future is not cancelled with the task.
CancelQueued(r) ==
    /\ MayRun(Task(r))
    /\ pc[Task(r)] = "waiting"
    /\ ~granted[r]
    /\ waiters' = RemoveFirst(waiters, r)
    /\ pc' = [pc EXCEPT ![Task(r)] = "done"]
    /\ UNCHANGED <<active, granted, woken, target, closed>>

\* The admitted request ends - streamed, failed or disconnected - and its one
\* cleanup calls release().
Finish(r) ==
    /\ MayRun(Task(r))
    /\ pc[Task(r)] = "holding"
    /\ pc' = [pc EXCEPT ![Task(r)] = "release"]
    /\ UNCHANGED <<active, waiters, granted, woken, target, closed>>

-----------------------------------------------------------------------------
(* release(), called by a task or by a wake_waiter callback *)

\* The positions of the queue a release() would not skip.
Candidates == {i \in 1 .. Len(waiters) : ~woken[waiters[i]]}

\* The slot passes to the oldest waiter; self._active does not change.
HandOver(a) ==
    /\ MayRun(a)
    /\ pc[a] = "release"
    /\ \E i \in Candidates :
        /\ \A j \in Candidates : i <= j
        /\ granted' = [granted EXCEPT ![waiters[i]] = TRUE]
        /\ waiters' = SubSeq(waiters, i + 1, Len(waiters))
        /\ target' = [target EXCEPT ![a] = waiters[i]]
    /\ pc' = [pc EXCEPT ![a] = "notify"]
    /\ UNCHANGED <<active, woken, closed>>

\* Mutation of FreeSlot: the counter is decremented although somebody waits.
FreeSlotIgnoresQueue(a) ==
    /\ MayRun(a)
    /\ pc[a] = "release"
    /\ active >= 1
    /\ active' = active - 1
    /\ pc' = [pc EXCEPT ![a] = "done"]
    /\ UNCHANGED <<waiters, granted, woken, target, closed>>

\* Nobody waits: the slot is free again.
FreeSlot(a) ==
    /\ MayRun(a)
    /\ pc[a] = "release"
    /\ Candidates = {}
    /\ active >= 1
    /\ active' = active - 1
    /\ waiters' = <<>>
    /\ pc' = [pc EXCEPT ![a] = "done"]
    /\ UNCHANGED <<granted, woken, target, closed>>

\* Nobody waits and no slot is out: RuntimeError, "was over-released".
OverRelease(a) ==
    /\ MayRun(a)
    /\ pc[a] = "release"
    /\ Candidates = {}
    /\ active = 0
    /\ waiters' = <<>>
    /\ pc' = [pc EXCEPT ![a] = "done"]
    /\ UNCHANGED <<active, granted, woken, target, closed>>

\* call_soon_threadsafe, outside the lock, on the loop of the granted waiter.
Notify(a) ==
    LET r == target[a] IN
    /\ MayRun(a)
    /\ pc[a] = "notify"
    /\ LoopOf[r] \notin closed
    /\ pc' = [pc EXCEPT ![a] = "done", ![Wake(r)] = "scheduled"]
    /\ target' = [target EXCEPT ![a] = <<>>]
    /\ UNCHANGED <<active, waiters, granted, woken, closed>>

\* The waiter's loop is closed: call_soon_threadsafe raises RuntimeError and
\* release() is called again, for the slot just granted.
NotifyClosed(a) ==
    /\ MayRun(a)
    /\ pc[a] = "notify"
    /\ LoopOf[target[a]] \in closed
    /\ pc' = [pc EXCEPT ![a] = "release"]
    /\ target' = [target EXCEPT ![a] = <<>>]
    /\ UNCHANGED <<active, waiters, granted, woken, closed>>

\* wake_waiter runs on the waiter's loop: a future somebody resolved before
\* gives its slot back, the others are resolved.
RunWake(r) ==
    /\ MayRun(Wake(r))
    /\ pc[Wake(r)] = "scheduled"
    /\ woken' = [woken EXCEPT ![r] = TRUE]
    /\ pc' = [pc EXCEPT ![Wake(r)] = IF woken[r] THEN "release" ELSE "done"]
    /\ UNCHANGED <<active, waiters, granted, target, closed>>

-----------------------------------------------------------------------------
\* A loop shuts down the way asyncio.run does: its tasks have all been cancelled
\* or have ended.  Callbacks still scheduled on it are dropped.
CloseLoop(l) ==
    /\ l \in Closable \ closed
    /\ \A r \in Requests : LoopOf[r] = l =>
           /\ pc[Task(r)] \in {"new", "done"}
           /\ pc[Wake(r)] \notin {"release", "notify"}
    /\ closed' = closed \cup {l}
    /\ UNCHANGED <<active, waiters, granted, woken, pc, target>>

Release(a) == HandOver(a) \/ FreeSlot(a) \/ OverRelease(a) \/ Notify(a) \/ NotifyClosed(a)

Next ==
    \/ \E r \in Requests :
           \/ AcquireFree(r) \/ AcquireWait(r) \/ Resume(r) \/ Finish(r)
           \/ CancelGranted(r) \/ CancelQueued(r) \/ RunWake(r)
    \/ \E a \in Actors : Release(a)
    \/ \E l \in Loops : CloseLoop(l)

Spec == Init /\ [][Next]_vars

\* An event loop keeps running its ready callbacks, and a download ends because
\* the response's `finally` runs its cleanup whether it was streamed or not.
Fairness ==
    /\ \A r \in Requests :
           WF_vars(Resume(r)) /\ WF_vars(Finish(r)) /\ WF_vars(RunWake(r))
    /\ \A a \in Actors : WF_vars(Release(a))
FairSpec == Spec /\ Fairness

-----------------------------------------------------------------------------
(* Properties *)

\* The tasks and callbacks that own a slot: an admitted task, a waiter a slot was
\* handed to, and a release() call that has not yet given its slot away.
OwnsSlot(a) ==
    \/ pc[a] \in {"holding", "release"}
    \/ pc[a] = "waiting" /\ granted[a[2]]
Owners == {a \in Actors : OwnsSlot(a)}

\* Until a loop shuts down under the admission, the counter is exactly the number of
\* slots in somebody's hands, through every hand-over, cancellation and late wake-up:
\* none is lost and none given back twice, so that release() never finds it at zero.
SlotsConserved == closed = {} => active = Cardinality(Owners)

\* Until then, no more downloads are admitted than the limit the class is built with.
AdmissionBound ==
    closed = {} => Cardinality({r \in Requests : pc[Task(r)] = "holding"}) <= Capacity

\* How a waiter moves through the protocol: it is queued at most once, only while it
\* waits with no slot; one release() grants it, one wake-up is scheduled for it, and
\* its future is resolved by that wake-up alone.  So neither the skip of resolved
\* futures in release() nor the `done()` branch of wake_waiter is ever taken.
WaiterDiscipline ==
    /\ \A i, j \in 1 .. Len(waiters) : waiters[i] = waiters[j] => i = j
    /\ \A i \in 1 .. Len(waiters) :
           /\ pc[Task(waiters[i])] = "waiting"
           /\ ~granted[waiters[i]] /\ ~woken[waiters[i]]
    /\ \A r \in Requests :
           /\ pc[Wake(r)] \in {"none", "scheduled", "done"}
           /\ pc[Wake(r)] # "none" => granted[r]
           /\ woken[r] => pc[Wake(r)] = "done"
           /\ granted[r] => pc[Task(r)] # "new"
    /\ \A a \in Actors : pc[a] = "notify" =>
           /\ target[a] \in Requests
           /\ granted[target[a]] /\ pc[Wake(target[a])] = "none"
           /\ \A b \in Actors \ {a} : pc[b] = "notify" => target[b] # target[a]

\* No waiter is left in the queue while a slot is free.
QueuedOnlyWhenFull == waiters # <<>> => active = Capacity

\* Whatever is cancelled or closed meanwhile, every counted slot still belongs to
\* somebody who will give it back.
NoSlotLost == active <= Cardinality(Owners)

\* A new request never overtakes a queued one.
NoOvertaking ==
    [][\A r \in Requests :
          pc[Task(r)] = "new" /\ pc'[Task(r)] = "holding" => waiters = <<>>]_vars

\* A queued request is admitted, unless it is cancelled or a loop shuts down first.
WaitEnds == \A r \in Requests :
    pc[Task(r)] = "waiting" ~> pc[Task(r)] # "waiting" \/ closed # {}

\* The accounts of the slots and of the queue are right, whatever is cancelled, handed over or
\* woken on whichever loop: who waits is queued and nobody waits while a slot is free, no slot
\* is lost, and until a loop closes none is in use twice.
SlotsAccounted ==
    /\ TypeOK /\ WaiterDiscipline /\ QueuedOnlyWhenFull
    /\ NoSlotLost /\ SlotsConserved /\ AdmissionBound
=============================================================================
