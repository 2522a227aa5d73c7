------------------------------- MODULE V2Project -------------------------------
(***************************************************************************)
(* V2ProjectStore and V2ProjectService of character_robot/v2, with the V1  *)
(* store of character_robot/project_store.py that shares the SQLite file.  *)
(* Clients run in processes of their own.  A transaction that begins with  *)
(* BEGIN IMMEDIATE is one step, and so is every read; between the reads    *)
(* and the transaction of one call anything may happen.                    *)
(***************************************************************************)
EXTENDS Integers, FiniteSets

CONSTANTS Clients, Ids,
          Requirements, Heads, Contents,  \* of a RobotSystemSpec: the head's identity stands for
                                          \* the four head and draft fields, the content for the domains
          MaxGeneration,                  \* bound on the generations
          MaxFaults,                      \* bound on the faults
          None

ASSUME BoundAssumption == MaxGeneration \in Nat /\ MaxFaults \in Nat

VARIABLES legacy,    \* the ids with a row in V1's projects
          rows,      \* by id: its snapshot in project_rows, or None
          guards,    \* project_rows and the four triggers are there
          damaged,   \* the ids whose project_rows row was altered
          call,      \* what each client's call does
          seen,      \* by client: the project whose token it has, or None
          effects,   \* by client: how often its request was committed, retries included
          owners,    \* by id: the versions whose creation was answered with success, one entry each
          faults

vars == <<legacy, rows, guards, damaged, call, seen, effects, owners, faults>>

Idle == [at |-> "idle"]

Snapshots == [generation : 0 .. MaxGeneration, requirements : Requirements,
              head : Heads \cup {None}, content : Contents \cup {None}]

Views == [id : Ids, project : Snapshots]

ASSUME NoneAssumption == None \notin Snapshots \cup Views

\* Mutation of Token: the generation is left out.
TokenOfHeads(id, s) == <<id, s.requirements, s.head>>

\* calculate_active_target_token: a digest of these; what the domains hold is not among them.
Token(id, s) == <<id, s.generation, s.requirements, s.head>>

Init ==
    /\ legacy = {} /\ rows = [id \in Ids |-> None] /\ guards = FALSE /\ damaged = {}
    /\ call = [c \in Clients |-> Idle]
    /\ seen = [c \in Clients |-> None]
    /\ effects = [c \in Clients |-> 0]
    /\ owners = [id \in Ids |-> {}]
    /\ faults = 0

At(c, place) == call[c].at = place
Goes(c, place) == call' = [call EXCEPT ![c].at = place]

\* The request is kept: it may be sent once more.
Answered(c, answer) == call' = [call EXCEPT ![c] = [at |-> "answered", answer |-> answer, request |-> @.request]]
Quiet == UNCHANGED <<legacy, rows, guards, damaged, seen, effects, owners, faults>>

\* How a committed call ends: its connection is closed, or that fails and it is a storage error.
CloseFails == faults < MaxFaults /\ faults' = faults + 1

-----------------------------------------------------------------------------
(* The V1 store *)

\* Mutation of Collides: V1's table has no trigger.
CollidesNever(id) == FALSE

\* The trigger on projects.
Collides(id) == guards /\ rows[id] # None

\* ProjectStore.create_project
V1Create(id) ==
    /\ id \notin legacy /\ ~Collides(id)
    /\ legacy' = legacy \cup {id}
    /\ owners' = [owners EXCEPT ![id] = @ \cup {<<"V1">>}]
    /\ UNCHANGED <<rows, guards, damaged, call, seen, effects, faults>>

-----------------------------------------------------------------------------
(* create_project *)

StartCreate(c) ==
    /\ At(c, "idle")
    /\ \E id \in Ids, r \in Requirements :
          call' = [call EXCEPT ![c] = [at |-> "create look", request |-> [kind |-> "create", id |-> id, requirements |-> r]]]
    /\ effects' = [effects EXCEPT ![c] = 0]
    /\ UNCHANGED <<legacy, rows, guards, damaged, seen, owners, faults>>

Id(c) == call[c].request.id

\* _reject_legacy_if_present, outside a transaction.
Look(c, here, next) ==
    /\ At(c, here)
    /\ IF Id(c) \in legacy THEN Answered(c, "unsupported") ELSE Goes(c, next)
    /\ Quiet

New(c) == [generation |-> 0, requirements |-> call[c].request.requirements, head |-> None, content |-> None]

\* No row of either version: the checks of the transaction and, again, the trigger and the key.
MayInsert(id) == id \notin legacy /\ rows[id] = None

\* The transaction: both versions are looked for, the schema is made, the row inserted.
Create(c) ==
    /\ At(c, "create")
    /\ \/ /\ MayInsert(Id(c))
          /\ rows' = [rows EXCEPT ![Id(c)] = New(c)] /\ guards' = TRUE
          /\ effects' = [effects EXCEPT ![c] = @ + 1]
          /\ \/ /\ Answered(c, "done")
                /\ owners' = [owners EXCEPT ![Id(c)] = @ \cup {<<"V2", c>>}]
                /\ UNCHANGED faults
             \/ Answered(c, "storage") /\ CloseFails /\ UNCHANGED owners
          /\ UNCHANGED <<legacy, damaged, seen>>
       \/ /\ ~MayInsert(Id(c))
          /\ Answered(c, IF Id(c) \in legacy THEN "unsupported" ELSE "exists")
          /\ Quiet

-----------------------------------------------------------------------------
(* load_project and write_project *)

\* _reject_legacy_if_present, _read_v2_row and _decode_row let it through.
Readable(id) == id \notin legacy /\ rows[id] # None /\ id \notin damaged

Read(c) ==
    /\ At(c, "idle")
    /\ \E id \in Ids :
          /\ Readable(id)
          /\ seen' = [seen EXCEPT ![c] = [id |-> id, project |-> rows[id]]]
    /\ UNCHANGED <<legacy, rows, guards, damaged, call, effects, owners, faults>>

\* A write of the project the client has seen: one field is replaced in the specification it
\* has seen (spec), or in the one that is stored (update).
StartWrite(c) ==
    /\ At(c, "idle") /\ seen[c] # None
    /\ \E change \in [requirements : Requirements] \cup [head : Heads] \cup [content : Contents],
          given \in {"spec", "update"} :
          call' = [call EXCEPT ![c] = [at |-> "load",
              request |-> [kind |-> "write", id |-> seen[c].id, saw |-> seen[c].project, change |-> change, given |-> given]]]
    /\ effects' = [effects EXCEPT ![c] = 0]
    /\ UNCHANGED <<legacy, rows, guards, damaged, seen, owners, faults>>

\* The candidate over the stored project s.
Candidate(request, s) ==
    LET base == IF request.given = "spec" THEN request.saw ELSE s
    IN  [f \in DOMAIN s |-> IF f = "generation" THEN s.generation
                            ELSE IF f \in DOMAIN request.change THEN request.change[f] ELSE base[f]]

Refusal(id) == IF id \in legacy THEN "unsupported" ELSE IF rows[id] = None THEN "not found" ELSE "invalid"

\* Both write_project and save_project compare them.
SameRequirements(s, next) == s.requirements = next.requirements

\* write_project up to save_project: the stored project is loaded, the candidate made.
Load(c) ==
    /\ At(c, "load")
    /\ \/ /\ ~Readable(Id(c)) /\ Answered(c, Refusal(Id(c)))
       \/ /\ Readable(Id(c))
          /\ LET next == Candidate(call[c].request, rows[Id(c)])
             IN IF ~SameRequirements(rows[Id(c)], next) THEN Answered(c, "immutable")
                ELSE call' = [call EXCEPT ![c] = [at |-> "save look", request |-> @.request, candidate |-> next]]
    /\ Quiet

\* Mutation of Current: only the generation that write_project has just loaded is compared.
CurrentGeneration(c) == rows[Id(c)].generation = call[c].candidate.generation

\* The row is the one that the client's token names, and the one that the candidate is made of.
Current(c) ==
    /\ Token(Id(c), rows[Id(c)]) = Token(Id(c), call[c].request.saw)
    /\ rows[Id(c)].generation = call[c].candidate.generation

MaySave(c) == Current(c) /\ SameRequirements(rows[Id(c)], call[c].candidate)

\* The transaction of save_project.
Save(c) ==
    /\ At(c, "save")
    /\ \/ ~Readable(Id(c)) /\ Answered(c, Refusal(Id(c))) /\ Quiet
       \/ /\ Readable(Id(c)) /\ ~MaySave(c)
          /\ Answered(c, IF Current(c) THEN "immutable" ELSE "stale")
          /\ Quiet
       \/ LET next == [call[c].candidate EXCEPT !.generation = @ + 1] IN
          /\ Readable(Id(c)) /\ MaySave(c)
          /\ next.generation <= MaxGeneration
          /\ rows' = [rows EXCEPT ![Id(c)] = next]
          /\ effects' = [effects EXCEPT ![c] = @ + 1]
          /\ \/ /\ Answered(c, "done")
                /\ seen' = [seen EXCEPT ![c] = [id |-> Id(c), project |-> next]]
                /\ UNCHANGED faults
             \/ Answered(c, "storage") /\ CloseFails /\ UNCHANGED seen
          /\ UNCHANGED <<legacy, guards, damaged, owners>>

\* The caller has its answer.
Take(c) == At(c, "answered") /\ call' = [call EXCEPT ![c] = Idle] /\ Quiet

\* A storage error says "Retry the project operation."
Retry(c) ==
    /\ At(c, "answered") /\ call[c].answer = "storage"
    /\ call' = [call EXCEPT ![c] = [at |-> IF @.request.kind = "create" THEN "create look" ELSE "load",
                                    request |-> @.request]]
    /\ Quiet

-----------------------------------------------------------------------------
(* Faults *)

Running(c) == call[c].at \notin {"idle", "answered"}

\* SQLite fails before the commit: the transaction is rolled back.
StorageFails(c) ==
    /\ Running(c) /\ CloseFails
    /\ Answered(c, "storage")
    /\ UNCHANGED <<legacy, rows, guards, damaged, seen, effects, owners>>

\* The answer is lost with the process; the caller sends its request once more or gives up.
AnswerLost(c) ==
    /\ At(c, "answered") /\ call[c].answer = "done" /\ CloseFails
    /\ Answered(c, "storage")
    /\ UNCHANGED <<legacy, rows, guards, damaged, seen, effects, owners>>

Damage ==
    /\ CloseFails
    /\ \E id \in Ids : rows[id] # None /\ damaged' = damaged \cup {id}
    /\ UNCHANGED <<legacy, rows, guards, call, seen, effects, owners>>

Next ==
    \/ \E id \in Ids : V1Create(id)
    \/ \E c \in Clients :
          \/ StartCreate(c) \/ Look(c, "create look", "create again") \/ Look(c, "create again", "create") \/ Create(c)
          \/ Read(c) \/ StartWrite(c) \/ Load(c) \/ Look(c, "save look", "save") \/ Save(c)
          \/ Take(c) \/ Retry(c) \/ StorageFails(c) \/ AnswerLost(c)
    \/ Damage

Spec == Init /\ [][Next]_vars

-----------------------------------------------------------------------------
(* Properties *)

\* The type invariant, and no row without the triggers that guard its id.
TypeOK ==
    /\ \A id \in Ids : rows[id] # None => guards
    /\ legacy \subseteq Ids /\ damaged \subseteq {id \in Ids : rows[id] # None}
    /\ \A id \in Ids : rows[id] \in Snapshots \cup {None}
    /\ guards \in BOOLEAN
    /\ \A c \in Clients : seen[c] # None => seen[c].id \in Ids /\ seen[c].project \in Snapshots
    /\ \A c \in Clients : At(c, "save") => call[c].candidate \in Snapshots

\* An id belongs to one version, whichever of the two creates it first and however late the
\* tables are made.
OneVersion == \A id \in legacy : rows[id] = None

\* At most one creation of an id is told that it made it.
OneOwner == \A id \in Ids : Cardinality(owners[id]) <= 1

\* A call that is refused leaves no schema behind: what V2 needs in the file is there only with
\* a V2 project.
NoTrace == guards => \E id \in Ids : rows[id] # None

\* A request is committed once at most, also when its answer was a storage error after the
\* commit, or got lost, and the caller tries it again.
AtMostOnce == \A c \in Clients : effects[c] <= 1

\* A project is replaced in the save of a caller that has seen exactly what it replaces.
ReplacedAsSeen ==
    \A id \in Ids : rows[id] # None /\ rows'[id] # rows[id] =>
        \E c \in Clients : At(c, "save") /\ Id(c) = id /\ call[c].request.saw = rows[id]

DamageUntouched ==
    \A id \in damaged : /\ rows'[id] = rows[id]
                        /\ \A c \in Clients : seen'[c] # seen[c] => seen'[c].id # id

RequirementsKept == \A id \in Ids : rows[id] # None => rows'[id].requirements = rows[id].requirements

\* No update is lost: a project is replaced only by a caller that has seen exactly what it
\* replaces, whatever was written since its first read, back and forth.
NoLostUpdate == [][ReplacedAsSeen]_vars

\* A damaged row is evidence: no write covers it, and no caller gets a token from it.
DamageStands == [][DamageUntouched]_vars

\* The requirements of a project are those it was created with.
RequirementsImmutable == [][RequirementsKept]_vars

\* An id has one origin: one version, one caller that was told it made it, and no trace of the
\* creations that were refused.
OneOrigin == TypeOK /\ OneVersion /\ OneOwner /\ NoTrace

\* What no write may do: cover an update its caller has not seen, a damaged row, or the
\* requirements of the project.
WritesGuarded == NoLostUpdate /\ DamageStands /\ RequirementsImmutable
=============================================================================
