----------------------------- MODULE MujocoClient -----------------------------
(***************************************************************************)
(* PinnedMujocoClient of asset_autopsy/mujoco_client.py, as the tasks of   *)
(* asset_autopsy/runner.py use it: each enters the client's context,       *)
(* calls the child process and leaves.  The context of the first task      *)
(* starts the child (a session), that of the last one stops it; a call     *)
(* that times out, fails or is cancelled stops it under everybody.         *)
(*                                                                         *)
(* A lock is the queue of its tasks, its holder first: asyncio.Lock is     *)
(* fair.  Session n stands for its token, its resource task and its child. *)
(***************************************************************************)
EXTENDS Integers, FiniteSets, SequencesExt

CONSTANTS Users,
          Calls,         \* the calls of DeterministicRunner.run on its slot, the load first
          MaxSessions,   \* bound on the sessions: nobody enters when one more could be missing
          Faults,        \* which faults happen
          None

FaultKinds == {"upstream",   \* the child fails, times out or gives a bad answer
               "cancel",     \* a task is cancelled
               "stuck"}      \* a child does not end within the cleanup's time

Slots == [session : Nat, state : {"PENDING", "READY", "POISONED", "CLOSED"}]

ASSUME MujocoAssumption == IsFiniteSet(Users) /\ Calls \in Nat \ {0} /\ Faults \subseteq FaultKinds

ASSUME NoneAssumption == None \notin Nat /\ None \notin Slots

VARIABLES at,          \* what each user does
          slot,        \* by user: its SimulationSlot, or None
          token,       \* by user: the session whose context it is in
          session,     \* the client's session, or None
          owners,      \* _context_owners
          started,     \* the number of sessions so far
          children,    \* the sessions whose child process lives
          stuck,       \* those of them that the cleanup gave up waiting for
          lifecycle,   \* _lifecycle_lock
          operation    \* _operation_lock

vars == <<at, slot, token, session, owners, started, children, stuck, lifecycle, operation>>

Idle == [at |-> "idle"]

Init ==
    /\ at = [u \in Users |-> Idle]
    /\ slot = [u \in Users |-> None] /\ token = [u \in Users |-> None]
    /\ session = None /\ owners = 0 /\ started = 0 /\ children = {} /\ stuck = {}
    /\ lifecycle = <<>> /\ operation = <<>>

At(u, place) == at[u].at = place
Goes(u, place) == at' = [at EXCEPT ![u].at = place]
HasLifecycle(u) == lifecycle # <<>> /\ Head(lifecycle) = u
HasOperation(u) == operation # <<>> /\ Head(operation) = u

-----------------------------------------------------------------------------
(* __aenter__ and the start of the first call, between which nothing happens *)

Enter(u) ==
    /\ At(u, "idle")
    /\ started + Cardinality({v \in Users : At(v, "enter")}) < MaxSessions
    /\ \E kind \in {"run", "validate"} : at' = [at EXCEPT ![u] = [at |-> "enter", kind |-> kind]]
    /\ lifecycle' = Append(lifecycle, u)
    /\ UNCHANGED <<slot, token, session, owners, started, children, stuck, operation>>

\* _record_context_owner in session s, and for a run _new_slot in that session; then the
\* call waits for its turn.
Inside(u, s) ==
    /\ token' = [token EXCEPT ![u] = s]
    /\ owners' = owners + 1
    /\ slot' = [slot EXCEPT ![u] = IF at[u].kind = "run" THEN [session |-> s, state |-> "PENDING"] ELSE None]
    /\ at' = [at EXCEPT ![u] = [at |-> "queued", kind |-> @.kind, call |-> 1]]
    /\ lifecycle' = Tail(lifecycle)
    /\ operation' = Append(operation, u)

EnterReady(u) ==
    /\ HasLifecycle(u) /\ At(u, "enter")
    /\ session # None
    /\ Inside(u, session)
    /\ UNCHANGED <<session, started, children, stuck>>

\* The resource task starts a child.
Start(u) ==
    /\ HasLifecycle(u) /\ At(u, "enter")
    /\ session = None
    /\ started' = started + 1
    /\ children' = children \cup {started + 1}
    /\ Goes(u, "starting")
    /\ UNCHANGED <<slot, token, session, owners, stuck, lifecycle, operation>>

StartOk(u) ==
    /\ At(u, "starting")
    /\ session' = started
    /\ Inside(u, started)
    /\ UNCHANGED <<started, children, stuck>>

\* No child, another schema, a timeout or a cancellation: the resource task must end first.
StartFails(u) ==
    /\ At(u, "starting")
    /\ at' = [at EXCEPT ![u] = [at |-> "closing"]]
    /\ UNCHANGED <<slot, token, session, owners, started, children, stuck, lifecycle, operation>>

-----------------------------------------------------------------------------
(* _invoke *)

\* Mutation of MayCall: the slot's session is not compared.
MayCallAnywhere(u) ==
    \/ slot[u] = None /\ session # None
    \/ slot[u] # None /\ session # None

\* A load needs its pending slot, a later call a ready one, of the session that is there.
MayCall(u) ==
    \/ slot[u] = None /\ session # None
    \/ /\ slot[u] # None
       /\ slot[u].state = IF at[u].call = 1 THEN "PENDING" ELSE "READY"
       /\ session # None /\ slot[u].session = session

Call(u) ==
    /\ HasOperation(u) /\ At(u, "queued")
    /\ MayCall(u)
    /\ at' = [at EXCEPT ![u] = [at |-> "calling", kind |-> @.kind, call |-> @.call, on |-> session]]
    /\ UNCHANGED <<slot, token, session, owners, started, children, stuck, lifecycle, operation>>

\* The context is left: its release is a task of its own, which nothing cancels.
Leaving(u) == Goes(u, "leaving") /\ lifecycle' = Append(lifecycle, u)

Poisoned(u) == IF slot[u] = None THEN slot ELSE [slot EXCEPT ![u].state = "POISONED"]

\* Mutation of Refused: an early return that leaves the operation lock taken.
RefusedHolding(u) ==
    /\ HasOperation(u) /\ At(u, "queued")
    /\ ~MayCall(u)
    /\ slot' = IF at[u].call = 1 THEN Poisoned(u) ELSE slot
    /\ Leaving(u)
    /\ UNCHANGED <<token, session, owners, started, children, stuck, operation>>

\* No call: the session of the slot is gone, or there is none.
Refused(u) ==
    /\ HasOperation(u) /\ At(u, "queued")
    /\ ~MayCall(u)
    /\ slot' = IF at[u].call = 1 THEN Poisoned(u) ELSE slot
    /\ operation' = Tail(operation)
    /\ Leaving(u)
    /\ UNCHANGED <<token, session, owners, started, children, stuck>>

\* A good answer: the slot is ready for the next call, or the task is done.
Answer(u) ==
    /\ At(u, "calling") /\ at[u].on \in children
    /\ slot' = IF slot[u] = None THEN slot ELSE [slot EXCEPT ![u].state = "READY"]
    /\ IF slot[u] # None /\ at[u].call < Calls
       THEN /\ at' = [at EXCEPT ![u] = [at |-> "queued", kind |-> @.kind, call |-> @.call + 1]]
            /\ operation' = Append(Tail(operation), u)
            /\ UNCHANGED lifecycle
       ELSE Leaving(u) /\ operation' = Tail(operation)
    /\ UNCHANGED <<token, session, owners, started, children, stuck>>

\* An answer that is not the one promised poisons the slot.
BadAnswer(u) ==
    /\ "upstream" \in Faults
    /\ At(u, "calling") /\ at[u].on \in children
    /\ slot' = Poisoned(u)
    /\ operation' = Tail(operation)
    /\ Leaving(u)
    /\ UNCHANGED <<token, session, owners, started, children, stuck>>

\* A timeout, an exception or a cancellation: the child is stopped, by a task of its own.
CallFails(u) ==
    /\ At(u, "calling")
    /\ Faults \cap {"upstream", "cancel"} # {} \/ at[u].on \notin children
    /\ slot' = Poisoned(u)
    /\ Goes(u, "killing")
    /\ lifecycle' = Append(lifecycle, u)
    /\ UNCHANGED <<token, session, owners, started, children, stuck, operation>>

-----------------------------------------------------------------------------
(* Stopping the child, under the lifecycle lock *)

\* _shutdown_child_locked: every slot of the session is lost.
Lost(state) == [u \in Users |-> IF slot[u] # None /\ slot[u].session = session
                                THEN [slot[u] EXCEPT !.state = state] ELSE slot[u]]

Ends == session' = None /\ owners' = 0

\* Mutation of Kill: whatever session is there is stopped.
KillAny(u) ==
    /\ HasLifecycle(u) /\ At(u, "killing")
    /\ session # None
    /\ Ends /\ slot' = Lost("POISONED") /\ Goes(u, "killed")
    /\ UNCHANGED <<token, started, children, stuck, lifecycle, operation>>

\* _shutdown_session: only the session the call was on.
Kill(u) ==
    /\ HasLifecycle(u) /\ At(u, "killing")
    /\ IF session = at[u].on
       THEN /\ Ends /\ slot' = Lost("POISONED") /\ Goes(u, "killed")
            /\ UNCHANGED <<lifecycle, operation>>
       ELSE /\ Goes(u, "leaving") /\ lifecycle' = Append(Tail(lifecycle), u)
            /\ operation' = Tail(operation)
            /\ UNCHANGED <<session, owners, slot>>
    /\ UNCHANGED <<token, started, children, stuck>>

\* The child ends when it is told, or it is given up.
Gone ==
    \/ children' = children \ {started} /\ UNCHANGED stuck
    \/ "stuck" \in Faults /\ stuck' = stuck \cup {started} /\ UNCHANGED children

\* The resource task has ended, or was given up; the failed call gives the operation lock back.
Killed(u) ==
    /\ At(u, "killed")
    /\ Gone
    /\ Goes(u, "leaving") /\ lifecycle' = Append(Tail(lifecycle), u)
    /\ operation' = Tail(operation)
    /\ UNCHANGED <<slot, token, session, owners, started>>

\* The context that is left is one of the session that is there.
Mine(u) == session # None /\ token[u] = session

\* _release_context; the slot of the task is garbage.
Leave(u) ==
    /\ HasLifecycle(u) /\ At(u, "leaving")
    /\ token' = [token EXCEPT ![u] = None]
    /\ IF Mine(u) /\ owners = 1
       THEN /\ Ends /\ slot' = [Lost("CLOSED") EXCEPT ![u] = None]
            /\ at' = [at EXCEPT ![u] = [at |-> "closing"]] /\ UNCHANGED lifecycle
       ELSE /\ owners' = IF Mine(u) THEN owners - 1 ELSE owners
            /\ slot' = [slot EXCEPT ![u] = None]
            /\ at' = [at EXCEPT ![u] = Idle] /\ lifecycle' = Tail(lifecycle)
            /\ UNCHANGED session
    /\ UNCHANGED <<started, children, stuck, operation>>

Closed(u) ==
    /\ At(u, "closing")
    /\ Gone
    /\ at' = [at EXCEPT ![u] = Idle]
    /\ lifecycle' = Tail(lifecycle)
    /\ UNCHANGED <<slot, token, session, owners, started, operation>>

\* A task is cancelled while it waits for a lock.
Cancel(u) ==
    /\ "cancel" \in Faults
    /\ \/ /\ At(u, "enter")
          /\ at' = [at EXCEPT ![u] = Idle]
          /\ lifecycle' = RemoveFirst(lifecycle, u)
          /\ UNCHANGED operation
       \/ /\ At(u, "queued")
          /\ operation' = RemoveFirst(operation, u)
          /\ Leaving(u)
    /\ UNCHANGED <<slot, token, session, owners, started, children, stuck>>

Step(u) ==
    \/ EnterReady(u) \/ Start(u) \/ StartOk(u) \/ StartFails(u)
    \/ Call(u) \/ Refused(u) \/ Answer(u) \/ BadAnswer(u) \/ CallFails(u)
    \/ Kill(u) \/ Killed(u) \/ Leave(u) \/ Closed(u)

Next == \E u \in Users : Enter(u) \/ Step(u) \/ Cancel(u)

Spec == Init /\ [][Next]_vars

\* The event loop goes on, and every wait for the child has a timeout.
Fairness == \A u \in Users : WF_vars(Step(u))

FairSpec == Spec /\ Fairness

-----------------------------------------------------------------------------
(* Properties *)

Places == {"idle", "enter", "starting", "queued", "calling", "killing", "killed", "leaving", "closing"}

\* The type invariant: who is at a place that needs a lock has it.
TypeOK ==
    /\ \A u \in Users :
          /\ at[u].at \in Places
          /\ At(u, "calling") \/ At(u, "killing") \/ At(u, "killed") => HasOperation(u)
          /\ At(u, "starting") \/ At(u, "killed") \/ At(u, "closing") => HasLifecycle(u)
    /\ session \in (1 .. started) \cup {None}
    /\ owners \in 0 .. Cardinality(Users)
    /\ stuck \subseteq children /\ children \subseteq 1 .. started

\* The count of owners is right whatever contexts of earlier sessions are left late: it is the
\* number of tasks in a context of this session.
OwnersCounted ==
    IF session = None THEN owners = 0
    ELSE owners = Cardinality({u \in Users : token[u] = session}) /\ owners > 0

\* There is never a second child beside the first, but for those that were given up, and the
\* session's child is not one of them.
OneChild ==
    /\ \A n, m \in children \ stuck : n = m
    /\ session # None => session \in children \ stuck

\* When no task uses the client, its child has ended, or was given up.
NoOrphan == (\A u \in Users : At(u, "idle")) => children \subseteq stuck /\ session = None

\* A call on a slot goes to the child the slot was loaded in, and no other task can stop that
\* child before the call returns: a slot does not cross into a restarted session.
SlotsStayHome ==
    \A u \in Users : At(u, "calling") /\ slot[u] # None =>
        /\ at[u].on = slot[u].session /\ session = at[u].on
        /\ token[u] = session

\* What one task does spoils the slot of another only when a call on the same session failed.
OnlyFailuresSpoil ==
    \A u \in Users :
        slot[u] # None /\ slot'[u] # slot[u] /\ at'[u] = at[u] /\ slot[u].session = session =>
            \E v \in Users : at[v].at = "killing" /\ at[v].on = session

Bystanders == [][OnlyFailuresSpoil]_vars

\* The client is sound through restarts, failures and cancellations: its owners are counted, a
\* slot is used in its own child, and, but for children that do not end in the time of the
\* cleanup, one at most lives and none beyond its last user.
ClientSound == TypeOK /\ OwnersCounted /\ SlotsStayHome /\ OneChild /\ NoOrphan
=============================================================================
