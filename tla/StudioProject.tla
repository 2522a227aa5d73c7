--------------------------- MODULE StudioProject ---------------------------
(***************************************************************************)
(* The durable Studio project: ProjectStore (character_robot/              *)
(* project_store.py), one SQLite row replaced under an optimistic          *)
(* generation guard, and the CharacterRobotService instances               *)
(* (character_robot/service.py) that keep a live copy of it.               *)
(*                                                                         *)
(* A service runs one tool at a time under its asyncio lock.  A tool checks *)
(* what its caller expects, compiles (an await), persists the telemetry of  *)
(* the run, changes the live copy and persists it.  Services of different   *)
(* processes interleave between any two of these steps.                    *)
(*                                                                         *)
(* Specifications are model values.  Run summaries and artifact bytes are   *)
(* left out: they never decide what a tool does.                            *)
(***************************************************************************)
EXTENDS Naturals, SequencesExt, FiniteSets

CONSTANTS Services,       \* the service instances sharing one project store
          Specs,          \* the robot specifications clients submit
          Builds,         \* the distinct Build Packs one revision can give
          NoSpec, NoDraft,
          RevisionLimit,  \* PROJECT_REVISION_LIMIT
          ManifestLimit,  \* PROJECT_MANIFEST_LIMIT
          MaxGeneration,  \* bound of the model: no tool begins beyond it
          Faults          \* the storage failures that may happen

ASSUME LimitsAssumption ==
    RevisionLimit \in Nat /\ ManifestLimit \in Nat /\ MaxGeneration \in Nat
ASSUME FaultsAssumption == Faults \subseteq {"write", "open", "reload"}
ASSUME NullsAssumption ==
    NoSpec \notin Specs /\ NoDraft \notin [base : Nat, spec : Specs]

VARIABLES exists,     \* the project's row is in the database
          store,      \* its decoded snapshot
          live,       \* each service's own fields, as _snapshot() gathers them
          persisted,  \* each service's _persisted_snapshot
          stage,      \* where each service stands in the tool it runs
          op,         \* the tool it runs and what its caller expected
          acked,      \* the revisions some caller was told are committed
          escaped     \* a save was refused without the live copy being looked after

vars == <<exists, store, live, persisted, stage, op, acked, escaped>>

-----------------------------------------------------------------------------
(* Snapshots.  Revision rNNN of the code is number NNN + 1 here; 0 is None. *)

Revisions == [id : Nat, parent : Nat, spec : Specs]
Drafts == [base : Nat, spec : Specs]
Manifests == [revision : Nat, build : Builds]
Snapshots == [generation : Nat, head : Nat, draft : Drafts \cup {NoDraft},
              revisions : Seq(Revisions), manifests : SUBSET Manifests]

\* empty_project_snapshot
Blank == [generation |-> 0, head |-> 0, draft |-> NoDraft,
          revisions |-> <<>>, manifests |-> {}]

\* validate_project_graph, which every snapshot passes before it is written.
ValidGraph(p) ==
    /\ Len(p.revisions) <= RevisionLimit
    /\ Cardinality(p.manifests) <= ManifestLimit
    /\ \A i \in 1 .. Len(p.revisions) :
           p.revisions[i].id = i /\ p.revisions[i].parent = i - 1
    /\ p.head = Len(p.revisions)
    /\ p.draft # NoDraft => p.draft.base = p.head
    /\ \A m \in p.manifests : m.revision \in 1 .. Len(p.revisions)

\* The revision chain of a validated portable project.
Chain(specs) ==
    [i \in 1 .. Len(specs) |-> [id |-> i, parent |-> i - 1, spec |-> specs[i]]]

NoOp == [kind |-> "none", spec |-> NoSpec, head |-> 0, draft |-> NoDraft, revision |-> 0]
Ops == [kind : {"none", "draft", "commit", "inspect", "validate", "pack"},
        spec : Specs \cup {NoSpec}, head : Nat, draft : Drafts \cup {NoDraft},
        revision : Nat]
Stages == {"down", "create", "idle", "compile", "telemetry", "apply", "save",
           "failing", "refailing", "reply"}

TypeOK ==
    /\ exists \in BOOLEAN
    /\ store \in Snapshots
    /\ live \in [Services -> Snapshots]
    /\ persisted \in [Services -> Snapshots]
    /\ stage \in [Services -> Stages]
    /\ op \in [Services -> Ops]
    /\ acked \subseteq Revisions
    /\ escaped \in BOOLEAN

Init ==
    /\ exists = FALSE
    /\ store = Blank
    /\ live = [s \in Services |-> Blank]
    /\ persisted = [s \in Services |-> Blank]
    /\ stage = [s \in Services |-> "down"]
    /\ op = [s \in Services |-> NoOp]
    /\ acked = {}
    /\ escaped = FALSE

\* The durable part and everybody's answers stay as they are.
Private == UNCHANGED <<exists, store, acked>>

Hydrate(s, p) ==
    /\ live' = [live EXCEPT ![s] = p]
    /\ persisted' = [persisted EXCEPT ![s] = p]

GoTo(s, to) ==
    /\ stage' = [stage EXCEPT ![s] = to]
    /\ op' = IF to = "idle" THEN [op EXCEPT ![s] = NoOp] ELSE op
    /\ UNCHANGED escaped

-----------------------------------------------------------------------------
(* Start, crash and replacement of a service *)

\* _load_or_create_project: the row is read ...
Start(s) ==
    /\ stage[s] = "down"
    /\ IF exists THEN Hydrate(s, store) /\ GoTo(s, "idle")
                 ELSE UNCHANGED <<live, persisted>> /\ GoTo(s, "create")
    /\ Private

\* ... or created, unless somebody else created it meanwhile: then it is read.
Create(s) ==
    /\ stage[s] = "create"
    /\ exists' = TRUE
    /\ Hydrate(s, store)
    /\ GoTo(s, "idle")
    /\ UNCHANGED <<store, acked>>

\* The process dies: the live copy and the tool it ran are gone.
Crash(s) ==
    /\ stage[s] # "down"
    /\ Hydrate(s, Blank)
    /\ stage' = [stage EXCEPT ![s] = "down"]
    /\ op' = [op EXCEPT ![s] = NoOp]
    /\ UNCHANGED escaped /\ Private

\* _replace_blank_project and restore_blank_project: a portable history, or none
\* for a reset, is installed into a project nothing was done to.
Replace(s, specs, generation) ==
    LET p == [Blank EXCEPT !.generation = generation, !.head = Len(specs),
                           !.revisions = Chain(specs)] IN
    /\ stage[s] = "idle"
    /\ live[s].draft = NoDraft /\ live[s].revisions = <<>> /\ live[s].manifests = {}
    /\ live[s].generation = 0 /\ generation > 0
    /\ store.generation = 0
    /\ ValidGraph(p)
    /\ store' = p
    /\ Hydrate(s, p)
    /\ UNCHANGED <<exists, stage, op, acked, escaped>>

-----------------------------------------------------------------------------
(* The beginning of a tool: its guards, up to the compilation *)

Begin(s, tool, to) ==
    /\ stage[s] = "idle"
    /\ live[s].generation < MaxGeneration
    /\ op' = [op EXCEPT ![s] = tool]
    /\ stage' = [stage EXCEPT ![s] = to]
    /\ UNCHANGED <<persisted, escaped>>
    /\ Private

\* Mutation of BeginSetDraft: the expected draft hash is not looked at.
BeginSetDraftUnchecked(s, spec, head, draft) ==
    /\ head = live[s].head
    /\ Begin(s, [NoOp EXCEPT !.kind = "draft", !.spec = spec, !.head = head,
                             !.draft = draft], "compile")
    /\ UNCHANGED live

\* set_design_draft: the caller names the head and the draft it replaces.
BeginSetDraft(s, spec, head, draft) ==
    /\ head = live[s].head
    /\ draft = live[s].draft
    /\ Begin(s, [NoOp EXCEPT !.kind = "draft", !.spec = spec, !.head = head,
                             !.draft = draft], "compile")
    /\ UNCHANGED live

\* revise_design_draft: the caller names the draft, and with it the head it is
\* based on; spec is what the semantic edits make of it.
BeginRevise(s, spec, draft) ==
    /\ draft # NoDraft
    /\ draft = live[s].draft
    /\ Begin(s, [NoOp EXCEPT !.kind = "draft", !.spec = spec, !.head = draft.base,
                             !.draft = draft], "compile")
    /\ UNCHANGED live

\* get_studio_context without a preview, inspect_design, preview_scenario
\* ("inspect") and validate_design ("validate") of the draft or a revision.
BeginRead(s, kind) ==
    /\ kind \in {"inspect", "validate"}
    /\ live[s].draft # NoDraft \/ live[s].revisions # <<>>
    /\ Begin(s, [NoOp EXCEPT !.kind = kind], "compile")
    /\ UNCHANGED live

\* prepare_build_pack of a committed revision.
BeginPack(s, revision) ==
    /\ revision \in 1 .. Len(live[s].revisions)
    /\ Begin(s, [NoOp EXCEPT !.kind = "pack", !.revision = revision], "compile")
    /\ UNCHANGED live

\* Mutation of Commit: the draft is not made again on the new head.
CommitKeepsDraft(s, head, draft) ==
    /\ head = live[s].head
    /\ draft # NoDraft /\ draft = live[s].draft /\ draft.base = live[s].head
    /\ live[s].revisions # <<>> => Last(live[s].revisions).spec # draft.spec
    /\ Len(live[s].revisions) < RevisionLimit
    /\ Begin(s, [NoOp EXCEPT !.kind = "commit", !.head = head, !.draft = draft], "save")
    /\ LET id == Len(live[s].revisions) + 1 IN
       live' = [live EXCEPT
           ![s].head = id,
           ![s].revisions = Append(@, [id |-> id, parent |-> head, spec |-> draft.spec])]

\* create_revision_from_draft: there is nothing to compile, the live copy changes
\* at once.  The draft is made again, on the new head.
Commit(s, head, draft) ==
    /\ head = live[s].head
    /\ draft # NoDraft /\ draft = live[s].draft /\ draft.base = live[s].head
    /\ live[s].revisions # <<>> => Last(live[s].revisions).spec # draft.spec
    /\ Len(live[s].revisions) < RevisionLimit
    /\ Begin(s, [NoOp EXCEPT !.kind = "commit", !.head = head, !.draft = draft], "save")
    /\ LET id == Len(live[s].revisions) + 1 IN
       live' = [live EXCEPT
           ![s].head = id,
           ![s].draft = [base |-> id, spec |-> draft.spec],
           ![s].revisions = Append(@, [id |-> id, parent |-> head, spec |-> draft.spec])]

-----------------------------------------------------------------------------
(* The compilation, and what the tools do with it *)

Changed(s) == op[s].kind \in {"draft", "pack"}

\* _compile returned.  A tool that goes on to change the project first persists
\* the telemetry of the run.
Compiled(s) ==
    /\ stage[s] = "compile"
    /\ GoTo(s, IF Changed(s) THEN "telemetry" ELSE "save")
    /\ UNCHANGED <<live, persisted>> /\ Private

\* The compiler failed: _compile persists the failed run and raises.
CompileFails(s) ==
    /\ stage[s] = "compile"
    /\ GoTo(s, "failing")
    /\ UNCHANGED <<live, persisted>> /\ Private

\* _validate_spec persists the run of every compilation that raised; the other
\* tools let the error pass.
AfterError(s) == IF op[s].kind \in {"validate", "pack"} THEN "refailing" ELSE "idle"

\* The task was cancelled at the await, or an artifact could not be stored, which
\* _compile reports without persisting anything.
CompileAborted(s) ==
    /\ stage[s] = "compile"
    /\ \E to \in {"idle", AfterError(s)} : GoTo(s, to)
    /\ UNCHANGED <<live, persisted>> /\ Private

\* The new draft is within its maximum dimensions: it is made on the live head.
ApplyDraft(s) ==
    /\ stage[s] = "apply" /\ op[s].kind = "draft"
    /\ live' = [live EXCEPT ![s].draft = [base |-> live[s].head, spec |-> op[s].spec]]
    /\ GoTo(s, "save")
    /\ UNCHANGED persisted /\ Private

\* The Build Pack is complete: its manifest is appended unless it is there already
\* or the project has no room for it.  A blocked pack leaves the manifests alone.
ApplyPack(s, build) ==
    LET m == [revision |-> op[s].revision, build |-> build] IN
    /\ stage[s] = "apply" /\ op[s].kind = "pack"
    /\ IF Cardinality(live[s].manifests) < ManifestLimit
       THEN live' = [live EXCEPT ![s].manifests = @ \cup {m}]
       ELSE UNCHANGED live
    /\ GoTo(s, "save")
    /\ UNCHANGED persisted /\ Private

BlockPack(s) ==
    /\ stage[s] = "apply" /\ op[s].kind = "pack"
    /\ GoTo(s, "save")
    /\ UNCHANGED <<live, persisted>> /\ Private

\* The draft exceeds its dimensions, or an artifact of the pack cannot be stored.
Reject(s) ==
    /\ stage[s] = "apply"
    /\ GoTo(s, "idle")
    /\ UNCHANGED <<live, persisted>> /\ Private

-----------------------------------------------------------------------------
(* _persist and ProjectStore.save_project *)

Saving(s) == stage[s] \in {"telemetry", "save", "failing", "refailing"}

\* Where the tool goes on after a persist that succeeded, and after one that
\* raised a DomainError.
AfterSave(s) == CASE stage[s] = "telemetry" -> "apply"
                  [] stage[s] = "save" -> "reply"
                  [] stage[s] = "failing" -> AfterError(s)
                  [] stage[s] = "refailing" -> "idle"
AfterRaise(s) == IF stage[s] = "failing" THEN AfterError(s) ELSE "idle"

\* Mutation of SaveOk: the generation in the database is not compared.
SaveOkUnguarded(s) ==
    LET saved == [live[s] EXCEPT !.generation = @ + 1] IN
    /\ Saving(s)
    /\ ValidGraph(live[s])
    /\ store' = saved
    /\ Hydrate(s, saved)
    /\ GoTo(s, AfterSave(s))
    /\ UNCHANGED <<exists, acked>>

\* The row is at the generation this service read: it is replaced.
SaveOk(s) ==
    LET saved == [live[s] EXCEPT !.generation = @ + 1] IN
    /\ Saving(s)
    /\ ValidGraph(live[s])
    /\ live[s].generation = store.generation
    /\ store' = saved
    /\ Hydrate(s, saved)
    /\ GoTo(s, AfterSave(s))
    /\ UNCHANGED <<exists, acked>>

\* Somebody else saved first: STALE_PROJECT.  The live copy is read again, unless
\* that fails as well, which is passed over in silence.  Nothing is saved between
\* the refusal and the reading that would not have been refused too.
SaveConflict(s) ==
    /\ Saving(s)
    /\ ValidGraph(live[s])
    /\ live[s].generation # store.generation
    /\ \/ Hydrate(s, store)
       \/ "reload" \in Faults /\ UNCHANGED <<live, persisted>>
    /\ GoTo(s, AfterRaise(s))
    /\ Private

\* Mutation of SaveFails: the live copy keeps the change that was not saved.
SaveFailsKeeps(s) ==
    /\ Saving(s)
    /\ ValidGraph(live[s])
    /\ "write" \in Faults
    /\ UNCHANGED <<live, persisted>>
    /\ GoTo(s, AfterRaise(s))
    /\ Private

\* The transaction failed and was rolled back: PROJECT_STORAGE_FAILED.  The live
\* copy goes back to the last snapshot this service read or saved.
SaveFails(s) ==
    /\ Saving(s)
    /\ ValidGraph(live[s])
    /\ "write" \in Faults
    /\ Hydrate(s, persisted[s])
    /\ GoTo(s, AfterRaise(s))
    /\ Private

\* An error that is no ProjectStoreError ends the tool where it is: the database
\* could not be opened (sqlite3.Error, outside the try of save_project), or
\* _snapshot() refused the live copy (ValidationError).
SaveEscapes(s) ==
    /\ Saving(s)
    /\ "open" \in Faults \/ ~ValidGraph(live[s])
    /\ stage' = [stage EXCEPT ![s] = "idle"]
    /\ op' = [op EXCEPT ![s] = NoOp]
    /\ escaped' = TRUE
    /\ UNCHANGED <<live, persisted>> /\ Private

\* The tool returns its result to the caller.
Reply(s) ==
    /\ stage[s] = "reply"
    /\ acked' = IF op[s].kind = "commit" THEN acked \cup {Last(live[s].revisions)}
                                         ELSE acked
    /\ GoTo(s, "idle")
    /\ UNCHANGED <<exists, store, live, persisted>>

-----------------------------------------------------------------------------
\* What a caller may name: whatever it read from some service at some time.
Named == [base : 0 .. RevisionLimit, spec : Specs] \cup {NoDraft}

Tool(s) ==
    \/ \E head \in 0 .. RevisionLimit, draft \in Named :
           \/ \E spec \in Specs : BeginSetDraft(s, spec, head, draft)
           \/ Commit(s, head, draft)
    \/ \E spec \in Specs, draft \in Named : BeginRevise(s, spec, draft)
    \/ \E kind \in {"inspect", "validate"} : BeginRead(s, kind)
    \/ \E revision \in 1 .. RevisionLimit : BeginPack(s, revision)

Step(s) ==
    \/ Compiled(s) \/ CompileFails(s) \/ CompileAborted(s)
    \/ ApplyDraft(s) \/ BlockPack(s) \/ Reject(s)
    \/ \E build \in Builds : ApplyPack(s, build)

Persist(s) == SaveOk(s) \/ SaveConflict(s) \/ SaveFails(s) \/ SaveEscapes(s)

Process(s) ==
    \/ Start(s) \/ Create(s) \/ Crash(s)
    \/ \E specs \in BoundedSeq(Specs, RevisionLimit), generation \in 1 .. MaxGeneration :
           Replace(s, specs, generation)

Next == \E s \in Services : Process(s) \/ Tool(s) \/ Step(s) \/ Persist(s) \/ Reply(s)

Spec == Init /\ [][Next]_vars

-----------------------------------------------------------------------------
(* Properties *)

\* A generation names one snapshot: no service is ahead of the database, and what
\* two of them took for generation g is the same project.
OneSnapshotPerGeneration ==
    /\ \A s \in Services :
           /\ live[s].generation = persisted[s].generation
           /\ persisted[s].generation <= store.generation
           /\ persisted[s].generation = store.generation => persisted[s] = store
    /\ \A s, t \in Services :
           persisted[s].generation = persisted[t].generation => persisted[s] = persisted[t]

\* What a tool makes of the live copy is always a project the store accepts: no
\* caller is refused, or left with a live copy nobody can save, by the validation.
SnapshotsValid == ValidGraph(store) /\ \A s \in Services : ValidGraph(live[s])

\* README.md:111: "Failed writes roll the live service back to its last durable
\* snapshot": between tools, a service shows what is or was in the database.
RolledBack == \A s \in Services : stage[s] = "idle" => live[s] = persisted[s]

\* Weaker, and true until such an error escapes: a service that still shows a change
\* whose save was refused is behind the database, so that nothing it does can make
\* that change durable.
PhantomsAreStale == ~escaped =>
    \A s \in Services : stage[s] = "idle" /\ live[s] # persisted[s] =>
        persisted[s].generation < store.generation

\* A revision a caller was told is committed stays where it is in the durable
\* chain, whatever crashes, fails or is saved by others afterwards.
AckedDurable ==
    \A r \in acked : r.id \in 1 .. Len(store.revisions) /\ store.revisions[r.id] = r

\* The row only moves forward: its generation grows with every write, revisions
\* are only appended and manifests are never dropped.
AppendOnly ==
    [][/\ store'.generation > store.generation
       /\ IsPrefix(store.revisions, store'.revisions)
       /\ store.manifests \subseteq store'.manifests]_store

\* No lost update: until an error escapes, the durable head and draft change only by a
\* tool whose caller named the very head and draft it replaced, or by the replacement
\* of a blank project.
NoLostUpdate ==
    [][\/ escaped
       \/ store'.head = store.head /\ store'.draft = store.draft
       \/ store.generation = 0 /\ store.head = 0 /\ store.draft = NoDraft
       \/ \E s \in Services : /\ stage[s] = "save" /\ stage'[s] = "reply"
                              /\ op[s].kind \in {"draft", "commit"}
                              /\ op[s].head = store.head
                              /\ op[s].draft = store.draft]_store

\* However many services share it, the durable project behaves as one log, until an
\* error escapes.
History == [i \in 1 .. Len(store.revisions) |-> store.revisions[i].spec]
DraftSpec == IF store.draft = NoDraft THEN NoSpec ELSE store.draft.spec
Log == INSTANCE ProjectLog WITH history <- History, draft <- DraftSpec
ImplementsLog == Log!Init /\ [][~escaped => Log!Next]_<<History, DraftSpec>>

\* The history of a project is sound under every failure: each copy of it is a valid snapshot
\* of one linear history, and what was acknowledged is in it.
HistorySound == TypeOK /\ OneSnapshotPerGeneration /\ SnapshotsValid /\ AckedDurable
=============================================================================
