--------------------------- MODULE StudioSessions ---------------------------
(***************************************************************************)
(* The Studio sessions of one server process: StudioSessionManager of      *)
(* character_robot/workbench.py and the requests that lease a session.     *)
(*                                                                         *)
(* A request leases the session its cookie names, waits for the session's  *)
(* lock, and runs a tool, a reset, an import or the beginning of a download. *)
(* A download goes on after the lease, with a pin on the data root.  A reset *)
(* or an import builds a new data root, publishes it in the pointer file,    *)
(* swaps it in and deletes the old one; these steps are not interleaved with *)
(* other requests, but the process may die between any two of them.        *)
(*                                                                         *)
(* Session ids and data roots are random names that never repeat: here they  *)
(* are numbered in the order they are made.  What a project holds is only    *)
(* its generation; StudioProject has the rest.                             *)
(***************************************************************************)
EXTENDS Naturals, FiniteSets, SequencesExt

CONSTANTS Requests, Browsers,
          Handles,        \* StudioSession objects; one nobody refers to is reused
          MaxSessions,    \* max_sessions
          MaxUploads,     \* MAX_CONCURRENT_UPLOAD_BUFFERS
          Setups,         \* the ways a server is started: whether the manager is given
                          \* a root that outlives it, the failures that may happen, and
                          \* the bound on the generations of a project
          MaxRoots,       \* bound on the data roots that are made
          None

ASSUME LimitsAssumption ==
    /\ MaxSessions \in Nat \ {0} /\ MaxUploads \in Nat \ {0}
    /\ MaxRoots \in Nat
ASSUME SetupsAssumption ==
    Setups \subseteq [persistent : BOOLEAN, faults : SUBSET {"crash", "storage"}, generations : Nat]
ASSUME RequestsAssumption == IsFiniteSet(Requests)
ASSUME NoneAssumption == None \notin Nat /\ None \notin [id : Nat, generation : Nat, kept : BOOLEAN]

VARIABLES setup,    \* how this server was started
          table,    \* self.sessions, the least recently used first
          session,  \* the StudioSession objects
          stage,    \* where each request stands
          job,      \* what it does, and what it was sent with
          uploads,  \* upload_buffer_admission: its holders, then its waiters
          disk,     \* the data roots made so far, with their project's generation
          pointer,  \* the active-generation file of each session id
          pins,     \* _download_generation_pins
          doomed,   \* _pending_generation_deletes
          jar,      \* each browser's cookie
          shown     \* the project on each browser's page

moving == <<table, session, stage, job, uploads, disk, pointer, pins, doomed, jar, shown>>
vars == <<setup, moving>>
files == <<disk, pointer>>
client == <<jar, shown>>

Persistent == setup.persistent
Faults == setup.faults
MaxGeneration == setup.generations

Roots == 1 .. MaxRoots
Ids == 1 .. MaxRoots
Sessions == [id : Ids, root : Roots, generation : 0 .. MaxGeneration,
             active : Nat, queue : Seq(Requests)]
Views == [root : Roots, generation : 0 .. MaxGeneration]
Kinds == {"context", "tool", "reset", "import", "download"}
Jobs == [kind : Kinds, browser : Browsers, cookie : Ids \cup {None},
         handle : Handles \cup {None}, seen : Views \cup {None}, root : Roots \cup {None}]
Leased == {"queued", "inside", "built", "published", "finished", "pinned"}
Stages == {"idle", "upload", "ready", "streaming"} \cup Leased

TypeOK ==
    /\ setup \in Setups
    /\ table \in Seq(Handles)
    /\ session \in [Handles -> Sessions \cup {None}]
    /\ stage \in [Requests -> Stages]
    /\ job \in [Requests -> Jobs \cup {None}]
    /\ uploads \in Seq(Requests)
    /\ disk \in [Roots -> [id : Ids, generation : 0 .. MaxGeneration, kept : BOOLEAN]
                          \cup {None}]
    /\ pointer \in [Ids -> Roots \cup {None}]
    /\ pins \in [Roots -> Nat]
    /\ doomed \subseteq Roots
    /\ jar \in [Browsers -> Ids \cup {None}]
    /\ shown \in [Browsers -> Views \cup {None}]

Init ==
    /\ setup \in Setups
    /\ table = <<>>
    /\ session = [h \in Handles |-> None]
    /\ stage = [r \in Requests |-> "idle"]
    /\ job = [r \in Requests |-> None]
    /\ uploads = <<>>
    /\ disk = [root \in Roots |-> None]
    /\ pointer = [i \in Ids |-> None]
    /\ pins = [root \in Roots |-> 0]
    /\ doomed = {}
    /\ jar = [b \in Browsers |-> None]
    /\ shown = [b \in Browsers |-> None]

Made == {root \in Roots : disk[root] # None}
OnDisk == {root \in Made : disk[root].kept}
Loaded == Range(table)
Holders(h) == {r \in Requests : stage[r] \in Leased /\ job[r].handle = h}
Mine(r) == session[job[r].handle]

\* The next random names.
NewRoot(root) == root \notin Made /\ \A older \in 1 .. root - 1 : older \in Made
NewId(i) == /\ \A root \in Made : disk[root].id # i
            /\ \A older \in 1 .. i - 1 : \E root \in Made : disk[root].id = older

\* A replacement is not interleaved with other requests.
Quiet == \A r \in Requests : stage[r] \notin {"built", "published"}

GoTo(r, to) == stage' = [stage EXCEPT ![r] = to]

\* The request is over: an import gives its upload slot back.
End(r) ==
    /\ GoTo(r, "idle")
    /\ job' = [job EXCEPT ![r] = None]
    /\ uploads' = RemoveFirst(uploads, r)

-----------------------------------------------------------------------------
(* A browser sends a request; an import first reads its body *)

Send(r, b, kind) ==
    /\ Quiet /\ stage[r] = "idle"
    /\ kind = "import" => shown[b] # None
    /\ job' = [job EXCEPT ![r] =
          [kind |-> kind, browser |-> b, cookie |-> jar[b], handle |-> None,
           seen |-> IF kind = "import" THEN shown[b] ELSE None, root |-> None]]
    /\ IF kind = "import" THEN GoTo(r, "upload") /\ uploads' = Append(uploads, r)
                          ELSE GoTo(r, "ready") /\ UNCHANGED uploads
    /\ UNCHANGED <<table, session, pins, doomed, files, client>>

\* One of the upload slots is held: the body is read ...
Uploaded(r) ==
    /\ Quiet /\ stage[r] = "upload"
    /\ \E i \in 1 .. Len(uploads) : i <= MaxUploads /\ uploads[i] = r
    /\ GoTo(r, "ready")
    /\ UNCHANGED <<table, session, job, uploads, pins, doomed, files, client>>

\* ... or the upload is too large, or interrupted, or cancelled while it waits.
UploadEnds(r) ==
    /\ Quiet /\ stage[r] = "upload"
    /\ End(r)
    /\ UNCHANGED <<table, session, pins, doomed, files, client>>

-----------------------------------------------------------------------------
(* lease() *)

\* What _evict_one looks for: no lease, and no download from its data root.
Idle(h) == session[h].active = 0 /\ pins[session[h].root] = 0

Found(r) == {h \in Loaded : session[h].id = job[r].cookie}

\* The table when there is room for one more session: the least recently used idle
\* session has left it if it was full.
HasRoom(t) ==
    LET idle == {i \in 1 .. Len(table) : Idle(table[i])} IN
    IF Len(table) < MaxSessions THEN t = table
    ELSE \E i \in idle : (\A j \in idle : i <= j) /\ t = RemoveAt(table, i)

\* The objects nobody refers to any more are gone.
Unused(t) == {h \in Handles : h \notin Range(t) /\ Holders(h) = {}}

\* An evicted ephemeral session takes its data root with it.
Evicted(t) == IF Persistent THEN {} ELSE {session[h].root : h \in Loaded \ Range(t)}
DiskWithout(roots) == [root \in Roots |->
    IF root \in roots THEN [disk[root] EXCEPT !.kept = FALSE] ELSE disk[root]]

\* A new StudioSession object, leased by the request that made it.
Insert(r, t, h, i, root, generation) ==
    /\ table' = Append(t, h)
    /\ session' = [k \in Handles |->
           IF k = h THEN [id |-> i, root |-> root, generation |-> generation,
                          active |-> 1, queue |-> <<r>>]
           ELSE IF k \in Unused(t) THEN None ELSE session[k]]
    /\ job' = [job EXCEPT ![r].handle = h]
    /\ GoTo(r, "queued")

\* The session is loaded: it becomes the most recently used.
Lookup(r, h) ==
    /\ Quiet /\ stage[r] = "ready"
    /\ h \in Found(r)
    /\ table' = Append(RemoveFirst(table, h), h)
    /\ session' = [session EXCEPT ![h].active = @ + 1, ![h].queue = Append(@, r)]
    /\ job' = [job EXCEPT ![r].handle = h]
    /\ GoTo(r, "queued")
    /\ UNCHANGED <<uploads, pins, doomed, files, client>>

\* Its data root of an earlier process, or of before its eviction, is loaded again.
Reopenable(r) ==
    Persistent /\ job[r].cookie # None /\ pointer[job[r].cookie] \in OnDisk

Reload(r, h) ==
    LET root == pointer[job[r].cookie] IN
    /\ Quiet /\ stage[r] = "ready"
    /\ Found(r) = {} /\ Reopenable(r)
    /\ \E t \in {table} \cup {RemoveAt(table, i) : i \in 1 .. Len(table)} :
           HasRoom(t) /\ h \in Unused(t)
           /\ Insert(r, t, h, job[r].cookie, root, disk[root].generation)
    /\ UNCHANGED <<uploads, pins, doomed, files, client>>

\* A new session with a blank project.
Create(r, h, i, root) ==
    /\ Quiet /\ stage[r] = "ready"
    /\ Found(r) = {} /\ ~Reopenable(r)
    /\ NewRoot(root) /\ NewId(i)
    /\ \E t \in {table} \cup {RemoveAt(table, j) : j \in 1 .. Len(table)} :
           /\ HasRoom(t) /\ h \in Unused(t)
           /\ Insert(r, t, h, i, root, 0)
           /\ disk' = [DiskWithout(Evicted(t)) EXCEPT
                          ![root] = [id |-> i, generation |-> 0, kept |-> TRUE]]
    /\ pointer' = IF Persistent THEN [pointer EXCEPT ![i] = root] ELSE pointer
    /\ UNCHANGED <<uploads, pins, doomed, client>>

\* SESSION_CAPACITY_REACHED: every loaded session is busy.
LeaseRefused(r) ==
    /\ Quiet /\ stage[r] = "ready"
    /\ Found(r) = {}
    /\ Len(table) >= MaxSessions /\ \A h \in Loaded : ~Idle(h)
    /\ End(r)
    /\ UNCHANGED <<table, session, pins, doomed, files, client>>

\* The new session cannot be made, or the evicted one's data root cannot be deleted:
\* the evicted session is gone all the same.  A data root left half made has no
\* pointer and no session, and is left out.
LeaseFails(r) ==
    /\ Quiet /\ stage[r] = "ready"
    /\ "storage" \in Faults
    /\ Found(r) = {}
    /\ \E t \in {table} \cup {RemoveAt(table, i) : i \in 1 .. Len(table)} :
           /\ HasRoom(t)
           /\ table' = t
           /\ session' = [h \in Handles |-> IF h \in Unused(t) THEN None ELSE session[h]]
           /\ disk' \in {disk, DiskWithout(Evicted(t))}
    /\ End(r)
    /\ UNCHANGED <<pins, doomed, pointer, client>>

\* The session's lock is handed on in the order it was asked for.
Enter(r) ==
    /\ Quiet /\ stage[r] = "queued"
    /\ Head(Mine(r).queue) = r
    /\ GoTo(r, "inside")
    /\ UNCHANGED <<table, session, job, uploads, pins, doomed, files, client>>

\* Releasing the lock, or the place in its queue, and the lease.
Unlease(r) ==
    session' = [session EXCEPT ![job[r].handle].active = @ - 1,
                               ![job[r].handle].queue = RemoveFirst(@, r)]

\* Mutation of CancelQueued: the place in the queue and the lease are not given back.
CancelQueuedStays(r) ==
    /\ Quiet /\ stage[r] = "queued"
    /\ End(r)
    /\ UNCHANGED <<table, session, pins, doomed, files, client>>

\* The request is cancelled while it waits for the lock.
CancelQueued(r) ==
    /\ Quiet /\ stage[r] = "queued"
    /\ Unlease(r)
    /\ End(r)
    /\ UNCHANGED <<table, pins, doomed, files, client>>

\* The lease ends and the browser gets the answer, unless it is gone.  A request that
\* made its session brings the cookie; a page shows the context it asked for; a
\* download goes on.
Leave(r) ==
    LET b == job[r].browser IN
    /\ Quiet /\ stage[r] \in {"inside", "finished", "pinned"}
    /\ Unlease(r)
    /\ \/ /\ jar' = IF Mine(r).id = job[r].cookie THEN jar ELSE [jar EXCEPT ![b] = Mine(r).id]
          /\ shown' = IF stage[r] = "finished" /\ job[r].kind = "context"
                      THEN [shown EXCEPT ![b] = [root |-> Mine(r).root,
                                                 generation |-> Mine(r).generation]]
                      ELSE shown
       \/ UNCHANGED client
    /\ IF stage[r] = "pinned"
       THEN GoTo(r, "streaming") /\ job' = [job EXCEPT ![r].handle = None] /\ UNCHANGED uploads
       ELSE End(r)
    /\ UNCHANGED <<table, pins, doomed, files>>

-----------------------------------------------------------------------------
(* What is done under the lease *)

\* A tool saves its project, once or more ...
Save(r) ==
    LET h == job[r].handle
        next == Mine(r).generation + 1 IN
    /\ Quiet /\ stage[r] = "inside"
    /\ job[r].kind \in {"context", "tool"}
    /\ next <= MaxGeneration
    /\ session' = [session EXCEPT ![h].generation = next]
    /\ disk' = [disk EXCEPT ![Mine(r).root].generation = next]
    /\ UNCHANGED <<table, stage, job, uploads, pins, doomed, pointer, client>>

\* ... and has its result.
Answer(r) ==
    /\ Quiet /\ stage[r] = "inside"
    /\ job[r].kind \in {"context", "tool"}
    /\ GoTo(r, "finished")
    /\ UNCHANGED <<table, session, job, uploads, pins, doomed, files, client>>

\* A download opens its artifact and pins the data root.
Pin(r) ==
    LET root == Mine(r).root IN
    /\ Quiet /\ stage[r] = "inside"
    /\ job[r].kind = "download"
    /\ pins' = [pins EXCEPT ![root] = @ + 1]
    /\ job' = [job EXCEPT ![r].root = root]
    /\ GoTo(r, "pinned")
    /\ UNCHANGED <<table, session, uploads, doomed, files, client>>

\* Mutation of Build: the replacement starts again at generation 0.
BuildFromZero(r, root) ==
    LET next == Mine(r).generation + 1 IN
    /\ Quiet /\ stage[r] = "inside"
    /\ job[r].kind \in {"reset", "import"}
    /\ job[r].kind = "import" => job[r].seen.generation = Mine(r).generation
    /\ next <= MaxGeneration
    /\ NewRoot(root)
    /\ disk' = [disk EXCEPT ![root] = [id |-> Mine(r).id, generation |-> 0, kept |-> TRUE]]
    /\ job' = [job EXCEPT ![r].root = root]
    /\ GoTo(r, "built")
    /\ UNCHANGED <<table, session, uploads, pins, doomed, pointer, client>>

\* reset and import_project: the replacement gets a data root of its own, one
\* generation on.  An import names the generation its caller saw.
Build(r, root) ==
    LET next == Mine(r).generation + 1 IN
    /\ Quiet /\ stage[r] = "inside"
    /\ job[r].kind \in {"reset", "import"}
    /\ job[r].kind = "import" => job[r].seen.generation = Mine(r).generation
    /\ next <= MaxGeneration
    /\ NewRoot(root)
    /\ disk' = [disk EXCEPT ![root] = [id |-> Mine(r).id, generation |-> next, kept |-> TRUE]]
    /\ job' = [job EXCEPT ![r].root = root]
    /\ GoTo(r, "built")
    /\ UNCHANGED <<table, session, uploads, pins, doomed, pointer, client>>

\* _publish_generation renames the new pointer file over the old one.
Publish(r) ==
    /\ stage[r] = "built"
    /\ pointer' = IF Persistent THEN [pointer EXCEPT ![Mine(r).id] = job[r].root] ELSE pointer
    /\ GoTo(r, "published")
    /\ UNCHANGED <<table, session, job, uploads, disk, pins, doomed, client>>

\* The replacement could not be published: it is deleted, if that does not fail too.
PublishFails(r) ==
    /\ stage[r] = "built"
    /\ "storage" \in Faults
    /\ disk' \in {disk, DiskWithout({job[r].root})}
    /\ GoTo(r, "finished")
    /\ UNCHANGED <<table, session, job, uploads, pointer, pins, doomed, client>>

\* Mutation of Delete: the pins are not looked at.
DeleteAtOnce(root) == disk' = DiskWithout({root}) /\ UNCHANGED doomed

\* _delete_generation: a data root with downloads is kept until the last one ends.
\* Failing to delete it is passed over.
Delete(root) ==
    IF pins'[root] > 0
    THEN doomed' = doomed \cup {root} /\ UNCHANGED disk
    ELSE /\ doomed' = doomed \ {root}
         /\ \/ disk' = DiskWithout({root})
            \/ "storage" \in Faults /\ UNCHANGED disk

\* Mutation of Swap: the old data root is not deleted.
SwapKeepsOld(r) ==
    LET h == job[r].handle
        root == job[r].root IN
    /\ stage[r] = "published"
    /\ session' = [session EXCEPT ![h].root = root, ![h].generation = disk[root].generation]
    /\ GoTo(r, "finished")
    /\ UNCHANGED <<table, job, uploads, files, pins, doomed, client>>

\* The replacement becomes the session's service; the old data root is deleted.
Swap(r) ==
    LET h == job[r].handle
        root == job[r].root IN
    /\ stage[r] = "published"
    /\ session' = [session EXCEPT ![h].root = root, ![h].generation = disk[root].generation]
    /\ UNCHANGED pins
    /\ Delete(session[h].root)
    /\ GoTo(r, "finished")
    /\ UNCHANGED <<table, job, uploads, pointer, client>>

\* Mutation of EndDownload: nobody deletes what waited for the last pin.
EndDownloadForgets(r) ==
    /\ Quiet /\ stage[r] = "streaming"
    /\ pins' = [pins EXCEPT ![job[r].root] = @ - 1]
    /\ End(r)
    /\ UNCHANGED <<table, session, doomed, files, client>>

\* The download's cleanup: its pin is released, and with the last pin the data root
\* that was to be deleted goes.
EndDownload(r) ==
    LET root == job[r].root IN
    /\ Quiet /\ stage[r] = "streaming"
    /\ pins' = [pins EXCEPT ![root] = @ - 1]
    /\ IF root \in doomed /\ pins[root] = 1 THEN Delete(root) ELSE UNCHANGED <<disk, doomed>>
    /\ End(r)
    /\ UNCHANGED <<table, session, pointer, client>>

-----------------------------------------------------------------------------
\* The process dies and another one starts: what it kept in memory is gone, and so
\* are the data roots of an ephemeral manager.
Crash ==
    /\ "crash" \in Faults
    /\ table' = <<>>
    /\ session' = [h \in Handles |-> None]
    /\ stage' = [r \in Requests |-> "idle"]
    /\ job' = [r \in Requests |-> None]
    /\ uploads' = <<>>
    /\ pins' = [root \in Roots |-> 0]
    /\ doomed' = {}
    /\ disk' = IF Persistent THEN disk ELSE DiskWithout(OnDisk)
    /\ UNCHANGED <<pointer, client>>

Lease(r) ==
    \/ \E h \in Handles : Lookup(r, h) \/ Reload(r, h)
    \/ \E h \in Handles, i \in Ids, root \in Roots : Create(r, h, i, root)
    \/ LeaseRefused(r) \/ LeaseFails(r)

Replace(r) == (\E root \in Roots : Build(r, root)) \/ Publish(r) \/ PublishFails(r) \/ Swap(r)

Next ==
    /\ \/ \E r \in Requests :
              \/ \E b \in Browsers, kind \in Kinds : Send(r, b, kind)
              \/ Uploaded(r) \/ UploadEnds(r)
              \/ Lease(r) \/ Enter(r) \/ CancelQueued(r) \/ Leave(r)
              \/ Save(r) \/ Answer(r) \/ Pin(r) \/ Replace(r) \/ EndDownload(r)
       \/ Crash
    /\ UNCHANGED setup

Spec == Init /\ [][Next]_vars

\* The event loop keeps running ready tasks, a tool ends, and a download ends because
\* its response's cleanup always runs.  An upload that holds a slot ends: the server
\* sets no time limit, so this is asked of the client, which sends its body or goes.
FairSpec ==
    /\ Spec
    /\ \A r \in Requests :
           /\ WF_moving(Uploaded(r)) /\ WF_moving(Lease(r)) /\ WF_moving(Enter(r))
           /\ WF_moving(Leave(r)) /\ WF_moving(Publish(r)) /\ WF_moving(Swap(r))
           /\ WF_moving(EndDownload(r))

-----------------------------------------------------------------------------
(* Properties *)

\* A lease is of the session that is loaded under its id, whose counter counts
\* exactly its leases: no session is evicted under a request, and none is kept busy
\* by a request that is over.
LeasesCounted ==
    /\ \A r \in Requests : stage[r] \in Leased => job[r].handle \in Loaded
    /\ \A h \in Loaded : session[h].active = Cardinality(Holders(h))
    /\ \A h, k \in Loaded : session[h].id = session[k].id => h = k

\* The data roots of the loaded sessions and of the running downloads are on disk.
RootsAlive ==
    /\ \A h \in Loaded : /\ session[h].root \in OnDisk
                         /\ disk[session[h].root].id = session[h].id
    /\ \A r \in Requests : stage[r] \in {"pinned", "streaming"} => job[r].root \in OnDisk
    /\ \A h, k \in Loaded : session[h].root = session[k].root => h = k

\* What is to be deleted waits for a download, and no session uses it.
DoomedPinned ==
    \A root \in doomed : pins[root] > 0 /\ \A h \in Loaded : session[h].root # root

\* The pins of a data root are the downloads that began on it and are not over.
PinsCounted ==
    \A root \in Roots : pins[root] = Cardinality({r \in Requests :
        stage[r] \in {"pinned", "streaming"} /\ job[r].root = root})

\* While nothing fails, no data root is forgotten: each is a session's, waits for its
\* downloads to end, is a replacement being installed, or will be loaded again.
NoGarbage == Faults = {} =>
    \A root \in OnDisk :
        \/ \E h \in Loaded : session[h].root = root
        \/ root \in doomed
        \/ \E r \in Requests : stage[r] \in {"built", "published"} /\ job[r].root = root
        \/ Persistent /\ pointer[disk[root].id] = root

\* A restart finds the project each session shows: the pointer names its data root,
\* with the generation in memory.
PointerCurrent ==
    Persistent =>
        \A h \in Loaded : LET root == session[h].root IN
            /\ disk[root].generation = session[h].generation
            /\ \/ pointer[session[h].id] = root
               \/ \E r \in Holders(h) :
                      stage[r] = "published" /\ pointer[session[h].id] = job[r].root

\* The project a restart would find never goes back to an earlier generation, and is
\* never lost, wherever the process dies.
DurableForward ==
    [][\A i \in Ids : pointer[i] # None =>
           /\ pointer'[i] # None /\ disk'[pointer'[i]].kept
           /\ disk'[pointer'[i]].generation >= disk[pointer[i]].generation]_vars

\* Every request that waits for a session's lock, or for an upload slot, gets it or
\* ends, and a superseded data root is deleted in the end.
QueueMoves ==
    \A r \in Requests : stage[r] \in {"upload", "queued"} ~> stage[r] \notin {"upload", "queued"}
DoomedDeleted == \A root \in Roots : root \in doomed ~> root \notin doomed

\* Every count is exact after any cancellation, eviction, replacement or failure: leases,
\* queues, download pins, and the deletions that wait for them.
CountsExact == TypeOK /\ LeasesCounted /\ PinsCounted /\ DoomedPinned

\* The files tell the truth: a pointer names the data root of the session that is loaded, and
\* no data root is left that nobody will ever ask for.
FilesCurrent == PointerCurrent /\ NoGarbage
=============================================================================
