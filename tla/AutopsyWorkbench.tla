--------------------------- MODULE AutopsyWorkbench ---------------------------
(***************************************************************************)
(* The sessions of asset_autopsy/workbench.py: a bounded number of browser *)
(* sessions, each with its own AssetAutopsyService on its own directory (a *)
(* generation), evicted when idle and replaced on Reset, and the endpoints *)
(* that lease them.  Requests on one session run one after the other.      *)
(*                                                                         *)
(* Session ids are fresh tokens, so an id is also the session object a     *)
(* request holds.  The case of a generation is what AutopsyCase promises:  *)
(* its head and its qualification result.  What a session remembers (draft,*)
(* traces, latest task, ticket) is tagged with the generation it is from.  *)
(***************************************************************************)
EXTENDS Integers, FiniteSets, SequencesExt

CONSTANTS Clients,
          MaximumSessions,   \* max_sessions
          RevisionBudget,
          MaxCreated,        \* bound on all of these bounds
          MaxGenerations,    \* bound on the generations of a session
          Setups,            \* how the workbench may be used: the clients that share a cookie
                             \* (the tabs of a browser), the faults that happen, and a bound
                             \* on the sessions that are created
          None

FaultKinds == {"cancel",   \* a request is cancelled
               "store",    \* the terminal event of a qualification cannot be stored
               "disk"}     \* a generation's directory cannot be created or deleted

VARIABLES setup,      \* how this one is used
          session,    \* by id: the WorkbenchSession, None before it exists
          listed,     \* SessionManager.sessions, the least recently used first
          request,    \* what each client's request does
          cookie,     \* the session id in each browser's cookie, or None
          disk,       \* the generations whose directories exist: <<id, generation>>
          open        \* the generations whose stores are open

vars == <<setup, session, listed, request, cookie, disk, open>>

Browsers == setup.browsers
Failures == setup.faults

Ids == 1 .. MaxCreated
Kinds == {"context", "read", "run_task", "run_experiment", "set_draft_patch",
          "create_revision_from_draft", "verify_revision", "reset"}
NoRequest == [at |-> "none"]
Decided == {"PASSED", "FAILED"}
Results == Decided \cup {"RUNNING"}
Generations == 1 .. MaxGenerations
Drafts == [generation : Generations, base : 0 .. RevisionBudget]
Sessions == [generation : Generations, active : Nat, queue : Seq(Clients),
             draft : Drafts \cup {None}, traces : SUBSET Drafts,
             task : Generations \cup {None}, ticket : Generations \cup {None}, terminal : BOOLEAN,
             head : 0 .. RevisionBudget, result : Results \cup {None}, judged : BOOLEAN]
Requests == [at : {"waiting", "running"}, id : Ids, kind : Kinds, created : BOOLEAN]

NewSession == [generation |-> 1, active |-> 0, queue |-> <<>>,
               draft |-> None, traces |-> {}, task |-> None, ticket |-> None, terminal |-> FALSE,
               head |-> 0, result |-> None, judged |-> FALSE]

Init ==
    /\ setup \in Setups
    /\ session = [i \in Ids |-> None]
    /\ listed = <<>>
    /\ request = [c \in Clients |-> NoRequest]
    /\ cookie = [b \in Browsers |-> None]
    /\ disk = {} /\ open = {}

Generation(i) == <<i, session[i].generation>>
Browser(c) == CHOOSE b \in Browsers : c \in b
Cookie(c) == cookie[Browser(c)]

-----------------------------------------------------------------------------
(* SessionManager.lease.  The manager's lock is never held across an await. *)

\* Mutation of Evictable: a session with requests may go.
EvictableAny(i) == TRUE

\* _evict_one: nothing leases the session and its lock is free.
Evictable(i) == session[i].active = 0 /\ session[i].queue = <<>>

\* What an eviction closes and deletes.
Gone(i) == {Generation(i)}

Evicted == listed[SelectInSeq(listed, Evictable)]
\* What is left of an evicted session: nothing a request can see.
Forgotten == [session EXCEPT ![Evicted] = [NewSession EXCEPT !.generation = session[Evicted].generation]]
NextId == Cardinality({i \in Ids : session[i] # None}) + 1

\* The request of c waits for the lock of the session i; the session is now the latest used.
Enters(c, i, kind, before, order) ==
    /\ session' = [before EXCEPT ![i].active = @ + 1, ![i].queue = Append(@, c)]
    /\ listed' = order
    /\ request' = [request EXCEPT ![c] = [at |-> "waiting", id |-> i, kind |-> kind, created |-> i # Cookie(c)]]

\* A request with a session that is there.
LeaseKnown(c, kind) ==
    /\ request[c] = NoRequest
    /\ Cookie(c) \in Range(listed)
    /\ LET i == Cookie(c) IN
       Enters(c, i, kind, session, Append(RemoveFirst(listed, i), i))
    /\ UNCHANGED <<cookie, disk, open>>

\* A request without a session gets a new one, if need be in the place of an idle one.
LeaseNew(c, kind) ==
    /\ request[c] = NoRequest
    /\ Cookie(c) \notin Range(listed)
    /\ NextId \in 1 .. setup.created
    /\ LET i == NextId
           crowded == Len(listed) >= MaximumSessions
           kept == IF crowded THEN RemoveFirst(listed, Evicted) ELSE listed
           gone == IF crowded THEN Gone(Evicted) ELSE {}
           rest == IF crowded THEN Forgotten ELSE session
       IN /\ crowded => \E j \in Range(listed) : Evictable(j)
          /\ Enters(c, i, kind, [rest EXCEPT ![i] = NewSession], Append(kept, i))
          /\ disk' = (disk \ gone) \cup {<<i, 1>>}
          /\ open' = (open \ gone) \cup {<<i, 1>>}
    /\ UNCHANGED cookie

\* The idle session is dropped, but its directory or the new one's makes trouble.
LeaseFails(c) ==
    /\ "disk" \in Failures
    /\ request[c] = NoRequest
    /\ Cookie(c) \notin Range(listed)
    /\ Len(listed) >= MaximumSessions
    /\ \E j \in Range(listed) : Evictable(j)
    /\ listed' = RemoveFirst(listed, Evicted)
    /\ open' = open \ Gone(Evicted)
    /\ disk' \in {disk, disk \ Gone(Evicted)}
    /\ session' = Forgotten
    /\ UNCHANGED <<request, cookie>>

\* Its turn at the session's lock.
Begin(c) ==
    /\ request[c].at = "waiting"
    /\ Head(session[request[c].id].queue) = c
    /\ request' = [request EXCEPT ![c].at = "running"]
    /\ UNCHANGED <<session, listed, cookie, disk, open>>

\* Mutation of Released: the lock is kept.
ReleasedLocked(s, c) == [s EXCEPT !.active = @ - 1]

Released(s, c) == [s EXCEPT !.active = @ - 1, !.queue = RemoveFirst(@, c)]

\* The request of c ends without an answer and leaves session s; the lease is given back.
Drops(c, s) ==
    /\ session' = [session EXCEPT ![request[c].id] = Released(s, c)]
    /\ request' = [request EXCEPT ![c] = NoRequest]
    /\ UNCHANGED <<listed, cookie>>

\* The same with an answer, which sets the cookie when the session was new.
Leaves(c, s) ==
    /\ session' = [session EXCEPT ![request[c].id] = Released(s, c)]
    /\ request' = [request EXCEPT ![c] = NoRequest]
    /\ cookie' = IF request[c].created THEN [cookie EXCEPT ![Browser(c)] = request[c].id] ELSE cookie
    /\ UNCHANGED listed

-----------------------------------------------------------------------------
(* _call_tool, under the lock of the session *)

Runs(c, kind) == request[c].at = "running" /\ request[c].kind = kind
Mine(c) == session[request[c].id]

\* Mutation of Refreshed: the qualification state is taken when it is known only.
NotRefreshed(s) == s

\* What _context and the drafting tools do first: the lock on editing follows the case.
Refreshed(s) == [s EXCEPT !.terminal = s.result \in Decided]

Context(c) ==
    /\ Runs(c, "context")
    /\ Leaves(c, Refreshed(Mine(c)))
    /\ UNCHANGED <<disk, open>>

\* inspect_design, query_trace and the trace endpoint: of the session, and nothing changes.
Read(c) ==
    /\ Runs(c, "read")
    /\ Leaves(c, Mine(c))
    /\ UNCHANGED <<disk, open>>

RunTask(c) ==
    /\ Runs(c, "run_task")
    /\ Leaves(c, Mine(c)) \/ Leaves(c, [Mine(c) EXCEPT !.task = Mine(c).generation])
    /\ UNCHANGED <<disk, open>>

\* An experiment that completes leaves a trace.
RunExperiment(c) ==
    /\ Runs(c, "run_experiment")
    /\ \/ Leaves(c, Mine(c))
       \/ Leaves(c, [Mine(c) EXCEPT !.traces = @ \cup {[generation |-> Mine(c).generation, base |-> Mine(c).head]}])
    /\ UNCHANGED <<disk, open>>

SetDraft(c) ==
    /\ Runs(c, "set_draft_patch")
    /\ LET s == Refreshed(Mine(c)) IN
       Leaves(c, IF s.terminal THEN s
                 ELSE [s EXCEPT !.draft = [generation |-> s.generation, base |-> s.head]])
    /\ UNCHANGED <<disk, open>>

\* The draft is on the head, cites an experiment of this session, and the service accepts it.
Ready(s) ==
    /\ ~s.terminal
    /\ s.draft # None
    /\ s.draft.base = s.head
    /\ \E t \in s.traces : t.base = s.head
    /\ s.head < RevisionBudget /\ s.result = None

\* The draft becomes the new head.
CreateFromDraft(c) ==
    /\ Runs(c, "create_revision_from_draft")
    /\ LET s == Refreshed(Mine(c)) IN
       \/ Leaves(c, s)
       \/ Ready(s) /\ Leaves(c, [s EXCEPT !.head = @ + 1, !.draft = None])
    /\ UNCHANGED <<disk, open>>

Ended(s) == [s EXCEPT !.terminal = TRUE, !.draft = None]

\* verify_revision: what the service does to the case, then what the session keeps of it.
VerifyRefused(c) ==
    /\ Runs(c, "verify_revision")
    /\ LET s == Mine(c) IN
       /\ s.result = None \/ s.result \in {"RUNNING", "FAILED"}
       /\ Leaves(c, IF s.result \in Decided THEN Ended(s) ELSE s)
    /\ UNCHANGED <<disk, open>>

\* The suite passes and the ticket is kept; a repeated call returns it again.
VerifyPassed(c) ==
    /\ Runs(c, "verify_revision")
    /\ LET s == Mine(c) IN
       /\ s.head > 0 /\ s.result \in {None, "PASSED"}
       /\ Leaves(c, [Ended(s) EXCEPT !.result = "PASSED", !.judged = TRUE, !.ticket = s.generation])
    /\ UNCHANGED <<disk, open>>

\* The suite fails or cannot be completed.
VerifyFailed(c) ==
    /\ Runs(c, "verify_revision")
    /\ LET s == Mine(c) IN
       /\ s.head > 0 /\ s.result = None
       /\ Leaves(c, [Ended(s) EXCEPT !.result = "FAILED", !.judged = TRUE])
    /\ UNCHANGED <<disk, open>>

\* The suite has run but its verdict cannot be stored: the case stays reserved.
VerifyUnstored(c) ==
    /\ "store" \in Failures
    /\ Runs(c, "verify_revision")
    /\ LET s == Mine(c) IN
       /\ s.head > 0 /\ s.result = None
       /\ Leaves(c, [s EXCEPT !.result = "RUNNING", !.judged = TRUE])
    /\ UNCHANGED <<disk, open>>

\* The request is cancelled: while it waits, before its tool had an effect, or within the
\* hidden suite, which the service then records as failed.
Cancel(c) ==
    /\ "cancel" \in Failures
    /\ request[c].at \in {"waiting", "running"}
    /\ \/ Drops(c, Mine(c))
       \/ /\ Runs(c, "verify_revision")
          /\ Mine(c).head > 0 /\ Mine(c).result = None
          /\ Drops(c, [Mine(c) EXCEPT !.result = "FAILED", !.judged = TRUE])
    /\ UNCHANGED <<disk, open>>

-----------------------------------------------------------------------------
(* Reset *)

\* Mutation of Fresh: the latest task stays on the page.
FreshButTask(s) == [NewSession EXCEPT !.generation = s.generation + 1, !.active = s.active,
                                      !.queue = s.queue, !.task = s.task]

\* The same session object, with a new service and nothing remembered.
Fresh(s) == [NewSession EXCEPT !.generation = s.generation + 1, !.active = s.active, !.queue = s.queue]

\* reset: the swap is the commit point, deleting the old generation may fail.
Reset(c) ==
    /\ Runs(c, "reset")
    /\ LET s == Mine(c)
           old == Generation(request[c].id)
           new == <<request[c].id, s.generation + 1>>
       IN /\ s.generation < MaxGenerations
          /\ Leaves(c, Fresh(s))
          /\ open' = (open \ {old}) \cup {new}
          /\ disk' \in {(disk \ {old}) \cup {new}}
                  \cup (IF "disk" \in Failures THEN {disk \cup {new}} ELSE {})

\* The new generation cannot be made: nothing has changed.
ResetFails(c) ==
    /\ Runs(c, "reset")
    /\ "disk" \in Failures \/ Mine(c).generation >= MaxGenerations
    /\ Drops(c, Mine(c))
    /\ UNCHANGED <<disk, open>>

Serve(c) ==
    \/ Begin(c) \/ Context(c) \/ Read(c) \/ RunTask(c) \/ RunExperiment(c) \/ SetDraft(c) \/ CreateFromDraft(c)
    \/ VerifyRefused(c) \/ VerifyPassed(c) \/ VerifyFailed(c) \/ VerifyUnstored(c)
    \/ Reset(c) \/ ResetFails(c)

Next == UNCHANGED setup /\ \E c \in Clients :
    \/ \E kind \in Kinds : LeaseKnown(c, kind) \/ LeaseNew(c, kind)
    \/ LeaseFails(c)
    \/ Serve(c)
    \/ Cancel(c)

Spec == Init /\ [][Next]_vars

\* The event loop goes on; a tool ends because the runner answers or times out.
Fairness == \A c \in Clients : WF_vars(UNCHANGED setup /\ Serve(c))

FairSpec == Spec /\ Fairness

-----------------------------------------------------------------------------
(* Properties *)

Known == {i \in Ids : session[i] # None}
Leased(c) == request[c] # NoRequest

Holders(i) == {c \in Clients : Leased(c) /\ request[c].id = i}

\* The type invariant.
TypeOK ==
    /\ setup \in Setups
    /\ session \in [Ids -> Sessions \cup {None}]
    /\ listed \in Seq(Ids)
    /\ request \in [Clients -> Requests \cup {NoRequest}]
    /\ cookie \in [Browsers -> Ids \cup {None}]
    /\ disk \cup open \subseteq Ids \X Generations

\* A session is listed once, and is there.
ListedOnce == IsInjective(listed) /\ Range(listed) \subseteq Known

\* The leases of a session are those of the requests that hold it, after cancellations and
\* resets too: none is lost, which would let it be evicted, and none is left behind, which
\* would keep it forever.
LeasesCounted ==
    \A i \in Known :
        /\ session[i].active = Cardinality(Holders(i))
        /\ Range(session[i].queue) = Holders(i)

\* A request never works on a session whose store was closed or whose files are gone, no
\* matter which other sessions are created or evicted meanwhile.
NoDeadSession ==
    \A c \in Clients : Leased(c) =>
        /\ request[c].id \in Range(listed)
        /\ Generation(request[c].id) \in disk \cap open

\* No more sessions than allowed; the stores that are open are theirs, and, while the disk
\* works, so are the directories.
NothingLeaks ==
    /\ Len(listed) <= MaximumSessions
    /\ open = {Generation(i) : i \in Range(listed)}
    /\ "disk" \notin Failures => disk = open

\* Reset leaves nothing behind: draft, traces, latest task and ticket are of the session's
\* present generation, also for a request that was waiting while another one reset it.
OneGeneration ==
    \A i \in Known : LET s == session[i] IN
        /\ s.draft # None => s.draft.generation = s.generation
        /\ \A t \in s.traces : t.generation = s.generation
        /\ s.task \in {None, s.generation}
        /\ s.ticket \in {None, s.generation}

\* The lock on editing is never shown on a case that is not decided, and a ticket is kept only
\* of a case that passed.
LockIsTrue ==
    \A i \in Known : LET s == session[i] IN
        /\ s.terminal => s.result \in Decided
        /\ s.ticket # None => s.result = "PASSED"

\* Once the hidden suite of a generation has its verdict, also by a cancellation that the
\* session was never told of, the session accepts no draft until Reset.  (README.md and
\* docs/asset-autopsy-mvp-design.md promise it from the moment the suite has run; a verdict
\* that cannot be stored leaves the case RUNNING, and the editing is not locked.)
NoDraftAfterSuite ==
    [][\A i \in Known : LET s == session[i]
                            t == session'[i] IN
          s.judged /\ s.result \in Decided /\ t.generation = s.generation => t.draft \in {s.draft, None}]_vars

\* Every request is answered.
RequestsEnd == \A c \in Clients : Leased(c) ~> ~Leased(c)

\* Requests hold on to live sessions, whoever is evicted, reset or cancelled: the leases are
\* counted, their stores open and their files there, and no store is open besides.
SessionsSound == TypeOK /\ ListedOnce /\ LeasesCounted /\ NoDeadSession /\ NothingLeaks

\* What a session remembers is true of its present case: nothing of an earlier generation, no
\* lock on a case that is not decided, no ticket of one that did not pass.
MemoryTrue == OneGeneration /\ LockIsTrue
=============================================================================
