# Verification of Character Robot Studio and Asset Autopsy

TLA+ models, TLC runs and TLAPS proofs of the parts of this repository whose
correctness depends on the order of steps: requests and tool calls that
interleave, processes that crash and restart, storage that fails half way, and
budgets, queues and guards that must hold through all of it.

Run a model with `tlc -workers 2 -config X.cfg M` and check the proofs with
`tlapm M.tla`, in this directory. `PROJECT.json` lists every run, the source lines
behind every definition, the mutations each property detects, the hazards and the
theorems. Paths below are relative to the repository.

## 1. Inventory

The repository holds two local workbenches served over HTTP to a browser whose
agent calls typed tools.

**Character Robot Studio** (`src/character_robot`):

| part | state | operations | hard behaviour |
|---|---|---|---|
| download admission (`workbench.py`) | active counter, waiter queue, grants | acquire, release, wake-up callback | several event loops in threads of their own, cancellation at any await, loops that close |
| sessions (`workbench.py`) | session table (LRU), leases, data roots, generation pins, pointer file | lease, reset, import, evict, pin/release, publish | a reset while downloads run from the old root, eviction, crash between publishing and deleting |
| durable project (`project_store.py`, `service.py`) | one SQLite row per project; a live copy per service | create, load, save, restore; eight tools | two processes on one row, compilation between check and save, crash, write/open/reload failures |
| artifact store (`artifacts.py`) | descriptor LRU, byte total, three kinds of pins, deferred drops | put, restore, read, download, pin transitions | eviction while downloads or a displayed pack pin objects, rollback in the middle of a pack |
| CAD jobs (`cad_jobs.py`, `cad_worker.py`) | a thread, a child process, its files | run | timeouts against late answers, limits, workers of a dead server |
| V2 project store (`v2/`) | one row per project in V1's file, an active target token | create, load, token-checked write, readiness | V1/V2 admission race, retries after a commit, stale tokens |
| specification, profiles, geometry, manufacturing, maker pack, evidence, simulation (`schemas.py`, `profiles.py`, `cad.py`, ...) | none (pure) | validation and generation | numeric edges |

**Asset Autopsy** (`src/asset_autopsy`):

| part | state | operations | hard behaviour |
|---|---|---|---|
| object store (`storage.py`) | hash-named files | put_stream, read, verify | a power failure between rename and sync, two writers of one object |
| evidence ledger (`storage.py`) | hash-chained events, revisions, runs, qualifications in SQLite | append, commit revision, record run, reserve and end a qualification, replay | two writers, retries of a lost answer, damaged rows |
| case service (`service.py`) | budgets derived from the ledger | run_task, run_experiment, create_revision, verify_revision | idempotent retries, a budget spent by a failed call, a crash in the middle of a qualification |
| workbench (`workbench.py`) | one case per browser session; draft, traces, lock | lease, tool calls, reset, evict | a reset or eviction while requests wait, a cancelled verification |
| MuJoCo client (`mujoco_client.py`) | one child process, contexts, slots | enter, call, leave, restart | a cancelled call whose child must be stopped under other tasks |

**Web client** (`web/src`): the pages, their requests and their last answers.
Ordering of answers is the hard part.

The parts interact this way. A request acquires a download slot (artifact
downloads only) or an upload slot (imports only), then leases its session; under
the session's lock it calls one tool of the session's service; the service holds
its own lock through the tool, calls the CAD compiler, writes generated bytes to
its artifact store and the project to its project store. A download outlives its
lease: it keeps an admission slot, a pin on the artifact and a pin on the session's
data root until the response is streamed. V1's and V2's stores share one SQLite file.

An Autopsy request leases its session and waits for the session's lock; under it a tool
of the session's case service reads the ledger, awaits the runner (which enters the
MuJoCo client's context, loads a slot and steps it), puts the bytes it made into the
object store and commits one transaction to the ledger.

What makes each part correct:

- admission: a bound, no lost and no doubly returned slot, no overtaking, every
  waiter served;
- sessions: a lease is always of the current session, no data root is deleted under
  a session or a download, superseded roots are deleted in the end, an import
  replaces only the project its caller saw;
- durable project: no lost update, acknowledged revisions stay, no refused change
  becomes durable, one linear history;
- artifact store: over budget only by what is pinned, a displayed pack stays
  readable, no bytes hidden from the budget;
- ledger and case service: budgets are never exceeded and never leak, each
  idempotent request has one effect, replaying the ledger gives the state, a
  qualification ends;
- workbench: no request works on a closed store, a reset leaves nothing behind, the lock
  on editing tells the truth;
- object store and MuJoCo client: what was acknowledged survives, nothing is torn; one
  child that ends, no slot used in another child than its own;
- V2 store: an id belongs to one version, no lost update, a retry has no second effect;
- CAD jobs: an answer is of the design asked for, comes in time and leaves nothing;
  the morphology graph's visible nodes are each printed once.

## 2. Plan

| order | modules | status |
|---|---|---|
| 1 | `SlotPool` (abstract), `DownloadAdmission`, in `StudioServer` | checked, proved |
| 2 | `ProjectLog` (abstract), `StudioProject` | checked, proved |
| 3 | `StudioSessions`: lease, evict, reset, import, pins, pointer, restart; `StudioServer` | checked, proved |
| 4 | `ArtifactStore` (operators), `StudioArtifacts` (composed with the service); in `StudioBuild` | checked, proved |
| 5 | `CaseHistory` (abstract), `EvidenceLedger` (operators), `EvidenceStore` | checked, proved |
| 6 | `AutopsyCase` (the service on `EvidenceLedger`) | checked; `EvidenceInOrder`, `OneSuite` and the budgets proved |
| 7 | `AutopsyWorkbench`: sessions of the Autopsy workbench; in `AutopsyServer` | checked, proved |
| 8 | `ObjectPublication`, `MujocoClient`, in `AutopsyServer`: what the case service stands on | checked; both proved |
| 9 | `V2Project` beside V1's store, `V2Readiness` | checked; the store proved |
| 10 | `CadJobs`, in `StudioBuild`; `CadMorphology` | checked; the jobs proved |

`StudioArtifacts` extends `ArtifactStore`, and both `EvidenceStore` and `AutopsyCase`
extend `EvidenceLedger`: the tables and their transactions are operators on a record,
called with any arguments by the one and as the case service calls them by the other.
Abstract specifications are instantiated with a refinement mapping in the module that
implements them. That the ledger implements `CaseHistory` is shown of `EvidenceStore`,
whose calls take any arguments; the service changes its case by these calls only.

The theorems of a component are in its `...Proofs` module, with the lemmas they need; those
about a queue that a waiter may leave from any place are in both modules that have one.
Three of these modules are about components that stand side by side, all but one of them as
instances: `StudioServerProofs` about the sessions and, as `Slots`, the download admission,
`StudioBuildProofs` about the artifact store and, as `Cad`, the CAD jobs,
`AutopsyServerProofs` about the MuJoCo client and, as `Objects`, the object store and, as
`Bench`, the workbench. What is assumed of an instance's constants is stated in
`StudioServer`, `StudioBuild` and `AutopsyServer`. An instance has its own copies of the library's
operators; lemmas say that they are the library's (`SlotsCardinality`, `SlotsRemoveFirst`,
`BenchLibrary`).
`EvidenceStoreProofs` and `AutopsyCaseProofs` stand on `EvidenceLedgerProofs`. Section 14
says what is proved and what is not.

A property of a run is often the conjunction of a few named parts, each with a comment
of its own; the sections below name both.

Several runs check more than one instance of a module, or modules that have nothing to
do with each other. Then the MC module holds an `INSTANCE` for each, with constants of
its own, and a variable that `Init` chooses and nothing changes says which of them takes
the steps: the state graph is the disjoint union of theirs.

## 3. Download admission

`DownloadAdmission` models `_ArtifactDownloadAdmission` and the life of a request
in `artifact_endpoint`. `active`, `waiters` and `granted` are the fields of the same
names, `woken` is `future.done()`. An *actor* is a request's task or the
`wake_waiter` callback scheduled for it; `pc` says where it stands. `acquire()` is
`AcquireFree`, `AcquireWait`, `Resume`, `CancelGranted` and `CancelQueued`.
`release()` is two steps, because the lock is dropped before `call_soon_threadsafe`:
`HandOver`, `FreeSlot` or `OverRelease` under the lock, then `Notify` or, when the
waiter's loop is closed, `NotifyClosed`. `MayRun` is the atomicity of an event loop:
while an actor of a loop is inside `release()` nothing else of that loop runs, and
other loops interleave. `CloseLoop` is the external shutdown of a loop. `StudioServer`
puts it beside the sessions, which it neither asks nor waits for, as the instance `Slots`.

Run `admission` checks four requests on three loops and two slots; one loop, with one
of the requests, may close. Four requests are enough for two to hold, one to wait and
one to arrive or cancel; two share a loop, two have one of their own. `SlotsAccounted`
joins `WaiterDiscipline`, `QueuedOnlyWhenFull`, `NoSlotLost`, `SlotsConserved` and
`AdmissionBound`. The first three, `NoOvertaking` and `WaitEnds` hold whatever closes.
`SlotsConserved`, `AdmissionBound` and the refinement of `SlotPool` (`ImplementsPool`)
are stated until a loop closes (`closed = {}`), because after it they do not hold: see
section 13.

Fairness: `WF` on `Resume`, `Finish`, `RunWake` and `Release`. An event loop runs
its ready callbacks, and a download ends because the `finally` of the response runs
its cleanup whether the body was streamed or not. Cancellation and new requests
need not happen. `CHECK_DEADLOCK FALSE`, because the requests are finitely many.

Proved in `StudioServerProofs` for every finite set of requests, any loops and closable
loops and every capacity: `AdmissionTypeCorrect`, `NoSlotLostAlways`,
`SlotsConservedAlways`, `AdmissionBoundAlways`, together `SlotsAccountedAlways`,
`NoOvertakingAlways` and `ImplementsPoolAlways`. The inductive invariant is
`WaiterDiscipline` with the count of owners: `OwnersStep` says how each action changes
the set of owners, `CountStep` turns that into the counter, and the queue is empty or
the counter full. The count cannot be kept past a hand-over to a closed loop, which is
why it is conditional. `NoOvertaking` rests on `QueuedOnlyWhenFull`: of all actions only
`AcquireFree` admits a request that never waited, and it needs a free slot. `WaitEnds` is
liveness and stays with TLC.

## 4. Durable Studio project

`StudioProject` models one row of `ProjectStore` and the `CharacterRobotService`
instances that keep a live copy of it. `store` is the decoded row, `live` what
`_snapshot()` gathers, `persisted` is `_persisted_snapshot`, `stage` and `op` say
where a service stands in its one tool (it holds its `asyncio.Lock` throughout), and
`acked` remembers the commits that were answered. Each tool is a `Begin...` action
(its guards), the compilation (`Compiled`, `CompileFails`, `CompileAborted`), the
persist of the telemetry, the change of the live copy (`ApplyDraft`, `ApplyPack`,
`BlockPack`, `Reject`) and its persist; a commit changes the live copy at once.
`_persist` has four outcomes: `SaveOk`, `SaveConflict`, `SaveFails`, `SaveEscapes`.
`Crash`, `Start` and `Create` are the life of a process, `Replace` the import or
reset of a blank project. Specifications are model values and a hash is the thing it
is the hash of; run telemetry and artifact bytes are left out, because no guard of a
modelled step reads them.

- `project` checks, beside the morphology graph of section 12, two services, two specifications, at most two revisions, one
  manifest and generation 4, with crashes, failing writes, failing reloads and failures
  to open the database. Two services are what a conflict needs; two revisions make a
  commit on a commit and reach the revision limit; four generations let a draft, a
  commit, a conflict and a retry follow each other. `HistorySound`
  (`OneSnapshotPerGeneration`, `SnapshotsValid` and `AckedDurable`) holds under every
  failure. `PhantomsAreStale`, `NoLostUpdate` and the refinement of `ProjectLog`
  (`ImplementsLog`) hold until a save escapes the handler, which the history variable
  `escaped` remembers.
- `project_rollback` shows that `RolledBack` does not hold: see section 13.

Both use symmetry of services and of specifications; they check no liveness. They say
`CHECK_DEADLOCK FALSE` because no tool begins at `MaxGeneration`.

Proved in `StudioProjectProofs` for every set of services, specifications, faults and
limits: `TypeCorrect`, `OneSnapshotAlways`, `SnapshotsValidAlways`,
`AckedDurableAlways`, together `HistorySoundAlways`, `AppendOnlyAlways` (proved only: no
run checks it), `PhantomsAreStaleAlways`, `NoLostUpdateAlways` and `Refinement`. Every step is one of five kinds (`StepEffect`):
it leaves the copies alone, reads one again, edits a live copy, writes the row, or
answers. The inductive invariant `IInv` adds to the properties where each copy comes
from (`Origins`) and that every copy's chain extends the chain it was read from
(`Lineage`). `Faithful` says that, until an error escapes a save, a service that is not
behind the row shows exactly its last snapshot or the one change it is saving; from it
follow the last three, through the four ways the row changes (`StoreChange`).

## 5. Studio sessions

`StudioSessions` models `StudioSessionManager` and how every endpoint uses it.
`table` is the `OrderedDict` of sessions, least recently used first; `session` holds
the `StudioSession` objects with their lease counter and the queue of their
`asyncio.Lock`, whose head owns the lock; `pins` and `doomed` are
`_download_generation_pins` and `_pending_generation_deletes`; `disk` and `pointer`
are the data roots and the active-generation files; `jar` and `shown` are what a
browser keeps: its cookie and the project on its page. A request is `Send` (an
import then waits for one of the upload slots and reads its body), one of the
outcomes of `lease()` (`Lookup`, `Reload`, `Create`, or a refusal), `Enter`, its
work, and `Leave`, which also stands for a cancellation under the lock. A download
pins its data root under the lease and lives on to `EndDownload`. `reset` and
`import_project` contain no `await`, so nothing interleaves with them (`Quiet`), but
the process may die between their steps `Build`, `Publish` and `Swap`; `Crash` keeps
the files of a persistent manager and the browsers' memory. What a project contains
is its generation here, and a save is one step: `StudioProject` has the rest.

- `sessions`: room for one session, two requests of one browser and three data roots,
  with a persistent manager that crashes (two generations), one whose storage fails as
  well (one generation) and a temporary one without faults (two generations); the frozen
  variable `setup` is the choice.
  One place makes every other session an eviction; two requests make a lease and a
  replacement, or a download and a replacement, or two downloads meet; three roots
  are a session, its replacement and one more. `CountsExact` is about leases
  (`LeasesCounted`), pins (`PinsCounted`) and what waits to be deleted (`DoomedPinned`);
  `RootsAlive` about the data roots that are used; `FilesCurrent` about the pointer files
  (`PointerCurrent`) and the data roots nobody will use (`NoGarbage`), which only a
  temporary manager has to delete when it evicts. `DurableForward`: a project that was
  made durable never goes back a generation, wherever the process dies.
- `sessions_liveness`: `QueueMoves` and `DoomedDeleted` with failing storage, two roots
  and one generation. Fairness: `WF` on the steps of a request that only wait for the
  event loop, on `Leave` (a tool ends) and `EndDownload`, and on `Uploaded`. The last is
  a wish to the client and not a promise of the server: `_read_portable_project_body`
  has no time limit, so a client that neither sends nor leaves keeps its slot.

These runs say `CHECK_DEADLOCK FALSE`, because names and generations run out. Left
out: the selected node, the fallback of `_existing_generation` for a directory
without pointer file, and directories that a failed creation leaves half made.

Proved in `StudioServerProofs` for every finite set of requests, any browsers, session
objects, limits and setups: `CountsExactAlways`, `RootsAliveAlways`, `FilesCurrentAlways`
and `DurableForwardAlways`. The inductive invariant `IInv` has three parts beside the types.
`TableInv` and `LeaseInv`: the table names each loaded session once, and the queue of a
session's lock holds just the requests that lease it, each once, with whoever is past the
queue at its head (`Queue`), so that two requests are never inside one session. The
properties speak of counters only, which says nothing of who comes next. `RootInv` joins
`RootsAlive`, `PinsCounted`, `DoomedPinned`, `PointerCurrent` and `NoGarbage` with
what they need of each other: a pointer names a kept data root of its own id that does not
wait to be deleted, and only in a server whose files outlive it (`PointersInv`); one
replacement at most is being installed, on a data root that is nobody else's, without
downloads, one generation on, and named by the pointer once it is published (`BuildInv`).
Were it somebody else's, `PublishFails` would delete the project of another session. Most steps change the disk by deletions alone (`Shrinks`), for
which `FilesShrink` gives `RootInv` at once; `Create`, `Save`, `Build`, `Publish`, `Swap` and
`EndDownload` have a lemma each. For `DurableForward` the pointers stand still and
generations rise (`PointersForward`), or a pointer moves to the replacement, whose
generation `BuildInv` gives (`PublishForward`), or it is that of an id nobody had
(`CreateForward`). Assumed: requests are finitely many and `None` is neither a number nor
what a data root holds.

## 6. Artifact store

`ArtifactStore` has `SessionArtifactStore` as a record and each of its methods as an
operator on it; `Evict` is `_evict_to_budget` in closed form (the shortest prefix of
the evictable artifacts, in index order, that is enough). `StudioArtifacts` extends
it with the service that calls these methods: `Begin`, `CacheHit`, `CacheMiss`,
`Reserve`, `PutNext`, `Stored` are `_compile`; `Check`, `Blocked`, `Unblocked`, again
`PutNext` and `EndPack` are `prepare_build_pack`; `EndDesign` stands for the tools
that compile and then save; `PutFails`, `CompileFails`, `SaveFails` and
`EndPackUnsaved` are the error paths with their rollbacks. A tool holds the
service's lock, so the only thing that interleaves with it is the end of a
download, at its two awaits. `Damage` is an object file that is lost or altered,
`Restart` a new process on the same data root.

`ArtifactStore` is written without recursion, so that it can be proved about: a loop over
the index is the sequence of the artifacts that pass its test (`Only`), "move to the end"
is the sequence of last occurrences (`Latest`), a number of bytes is the cardinality of a
set of (artifact, byte) pairs (`Bytes`).

Run `artifacts` has two designs whose batches share one artifact, three artifacts in
all, and a budget of two artifacts and three bytes, which holds either pack and not
both: displaying one and packing the other exceeds it. The frozen variable `faults` is
one of three: the process crashes and the project store and the compiler fail; the writes
of objects fail besides; or the process crashes and object files are damaged.
`TotalExact` and `BudgetHeld` say the same of all three. `NoHiddenBytes`, the other half of
`AccountExact`, speaks of the first, where writes succeed: what a crash between an object and
its manifest leaves on the disk is swept by the next `restore`, and a restore that does not
sweep is its mutation. Where a write may fail, the object can be there without its index entry
until then. Of `PinnedKept`, `DisplayKept` and `BatchKept` say nothing where files may be damaged, which the code drops; `OnePackPinned`
says that between tools what is displayed is one whole pack, or, when a save fails where
files may be damaged too, what the rollback still finds of one pack.

Left out: an object file that cannot be unlinked, an object tree that cannot be swept
(`_remove_unindexed_objects` raises before anything is evicted), and a second process
on the same data root, which would sweep files of the first.

Proved in `StudioBuildProofs` for any artifacts, sizes, budgets, designs, batches, documents
and sets of failures, also those the run does not combine: `AccountExactAlways`,
`BudgetHeldAlways` and `PinnedKeptAlways`. The lemmas go from places of sequences
(`RankFacts`, `AtFacts`, `OnlyFacts`, `LatestFacts`) over counted bytes to what each method
leaves: `Fit`, the account (`Exact`: total and index agree, nothing is indexed twice) and
the files, `Held`, the budget or an eviction that is due, and `Spared` or `Stays`, what is
pinned stays indexed. `EvictPinned` carries most of it: a prefix that is enough is taken
without what is pinned, or all that is not pinned goes and the flag is set. The inductive invariant
`ArtifactsInv` adds what the service knows while a tool works: every durable manifest is
of a design, once, and listed (`ManifestsInv`); the display is a pack of a durable manifest, with
the pack in the making on top while it is stored, and the one before remembered for the
error path (`DisplayInv`); the compile pins likewise (`CompileInv`); and what has been
stored of a batch or pack is still indexed (`TodoInv`). That the displayed pack belongs to a
*durable* manifest is the strengthening that `PinnedKept` needs: only so does a rollback,
which rebuilds the index from the durable manifests, find it again. Assumed: sizes are
numbers, both budgets are positive, as the constructor demands, and a design has one batch
and one list of documents.

## 7. Evidence ledger

`EvidenceLedger` has the database of one case as a record (its row of `cases`, the rows
of `revisions` and `runs`, the contents of `ledger_events` in order) and each
transaction of `EvidenceStore` as an operator that answers `done`, `again` (what a retry
asks for is stored) or `refused` and gives the database it leaves. `ValidCase` is
`_validate_case_lifecycle_from_connection` with the replay `Replays`
(`_replay_case_lifecycle`). `NoCase` and `NoEvent` are the row and the event that are not
there; `Shaped` is what an event that creates a revision must look like. `EvidenceStore` adds what is stored of an event: its content,
the hash of its predecessor and its own, where a hash is the history it stands for, and
the entry of `sqlite_sequence` (`last`). Its actions are the calls with any arguments, a
`Retry` by the same or another client, and the reads; `honest` is the database as the
calls left it and `told` every qualification a client was answered. `DamageEvents`,
`DamageCase`, `DamageRevision` and `DamageCitedRun` lose a row or change a column.

Run `ledger` takes two revisions, four event ids, two runs, attempts and results and
seven events without damage (a case, two revisions with their hypotheses, a
reservation and a verdict are seven), and a smaller database with one damage at
any time. `CaseSound` says that no accepted call makes the store refuse its own case
(`NeverBricked`) and that a revision's evidence is in the ledger before it
(`EvidenceFirst`); `OneVerdict` and the refinement of `CaseHistory`
(`ImplementsHistory`) say what clients rely on; `DamageNoticed` that a case that is still
accepted is the one the calls wrote.
Symmetry of the identities the calls treat alike; no liveness. `CHECK_DEADLOCK FALSE`:
the ledger reaches `MaxEvents`.

Limits. One case per store. Damage does not make hashes fit again, leaves
`sqlite_sequence` alone (who changes both can cut the ledger's end), and does not touch
a run that no revision cites: its row is in no event, so the store does not notice.
Calls do begin on a ledger whose hashes fit but whose rows are damaged; each validates
the case itself.

Proved in `EvidenceLedgerProofs`: `TransactionsKeepSound`. A database is `Sound` when it is
empty, or its case is valid (the replay of the whole ledger accepts it) and no two rows
share an id. Each of the transactions keeps it so, with any arguments and a ledger of any
length, so the store never refuses a case it wrote itself. `ValidParts` splits a
valid case into the creation, `QualificationOk` (where the one reservation and the one
ending stand, and that the row agrees), `RowsOk` (the rows are what the events say) and the
head. A transaction appends one event (`Extends`), which leaves
what is true of the earlier ones alone, so a proof looks at the new one. Assumed: `Root` is
not `None`, and `None` is not a state of a qualification.

Proved in `EvidenceStoreProofs`, for any identifiers, arguments and retries, and a ledger of
any length: `CaseSound`, `OneVerdict`, `DamageNoticed` and that the store implements
`CaseHistory`. The inductive invariant `IInv` (TLC checked it first, on both instances of the
run) says what a case keeps and how the file agrees with it:

- `KeptOf`, of the database as the calls left it: it is `Sound`, each revision is `Backed` by
  a hypothesis and a probe run of its parent (`Evidenced`), the ordinals of the revisions
  number them without gaps and the head has the last (`Lined`), and what a client was
  answered is what the ledger says (`Knows`). `CaseSound` and `OneVerdict` follow, the latter
  as a sound case has one reservation and one ending at most; `Lined` makes the line of
  `CaseHistory` grow at its end.
- `Fits`: the rows form a chain of hashes as long as `sqlite_sequence` says and the tables
  are that database. Without damage it holds, and every call keeps it.
- `Noticed`: after one damage the file either still fits (a column was overwritten with what
  it held) or `restore_state` refuses it. A change to a row of the ledger breaks the chain
  (`RowMissed`, `EventNoticed`, `HashNoticed`). If the rows are untouched, they
  fix the rest: a ledger fits one row of `cases` only (`CaseDetermined`), and the revisions
  and the runs they cite are repeated in its events (`RowsDetermined`). No call is possible
  on a file that is refused (`NoticedStops`), so the damage cannot be built upon.

The theorems are guarded by `damages <= 1`, as changes made together to several tables could
agree: then the store has no way to know. The refinement needs no guard of its own;
`ImplementsHistory` speaks of the steps of an undamaged store. Assumed besides: `None` is
not an identifier of a revision or of a run, and the bounds are natural numbers.

## 8. Case service

`AutopsyCase` models `AssetAutopsyService`. Each service holds one lock around a tool,
so `at[s]` is `idle`, `down` or the tool that awaits the runner: `task`, `probe`,
`revise`, `recheck`, `hidden`. `Begin...` are the guards and what a tool writes before
its await (a hypothesis is in the ledger before its experiment), `End...` the
transaction after it; `FailTool`, `PartialExperiment` and `HiddenRaises` are failures
and cancellations in the await, `Crash` the death of the process. `verify_revision` is
`BeginVerify`, then `FailRecheck` or `Reserve`, then `EndHidden` or `HiddenRaises`;
`StoredVerdict` is its answer to a repeated call. The ids of events and runs are their
places in the ledger. Budgets are counted from the ledger, as the code does. Whether a
run passes is up to the simulator.

Run `case` checks five instances:

| `case` | services | faults | budgets: runs, experiments, revisions | events |
|---|---|---|---|---|
| `shared` | 2 | crash | 3, 1, 2 | 10 |
| `alone` | 1 | all | 5, 2, 2 | 9 |
| `twice` | 1, two attributes | none | 5, 2, 2 | 12 |
| `fair` | 2 | upstream | 3, 1, 1 | 9 |
| `calm` | 2 | none | 3, 1, 1 | 9 |

`shared` is where a budget or a head read before an await is stale after it, `alone`
where every failure is, `twice` the only one whose ledger is long enough for a second
revision and its verdict. `EachBudgetHeld`: a budget is checked when a run begins and
used when it ends, so one service never exceeds it and each further service on the store
by at most the run it has begun. `EvidenceInOrder` is `CausalOrder`, of any number of
services, and `ReservedOnPass`, that the head's latest public task passed when the
qualification was reserved, of one service only: with two, a task that fails may be
recorded between the check and the reservation. `OneSuite` (`HiddenOnce`,
`TicketsStand`) holds of any number.

Fairness, in `fair` and `calm`: `WF` on what a service does in a tool, as every wait for
the runner has a timeout. With it a tool returns and a reservation is decided
(`FairProgress`). Where a process dies, or the verdict cannot be stored, the
reservation stays `RUNNING` for ever: that is what the code does, and why this is
not stated of the other instances. `CHECK_DEADLOCK FALSE`: budgets and the ledger end.

Proved in `AutopsyCaseProofs`, for any services, attributes, values, budgets and faults:
`EvidenceInOrderAlways`, `OneSuiteAlways` and `BudgetsHeldAlways`. None is inductive,
because what a tool writes after its await was checked before it. `IInv` adds `LedgerOk` (the database is
`Sound`, and its rows and events are such as services write), `DoingOk` (what a service
holds across an await still fits: a hypothesis is in the ledger, a revision to be committed
has its evidence there, which no later event takes away), `SuiteOk` (the suite ran, or one
service runs it, and the case was sealed before), `VerdictOk` (a stored ticket was earned by
the suite that ran) and, for a service that is alone, `AloneOk` (the task it checked is
still the latest when it reserves). TLC checked `IInv` before it was proved, with two
services and with one under every fault. Every step of a service appends one event or none
(`Grows`, `Logs`), and that the case stays valid is cited from `EvidenceLedgerProofs`.
Assumed: there are finitely many services, at least one; `Root` is 0, the ordinal of the
fixture's `r000`; the source asset gives every attribute a value; `None` is no type of an
event.

For the budgets `BudgetInv` counts what is used together with what was begun: the runs in
the ledger and those that services are at stay within the budget and one more for each
further service, and so do the experiments; a revision to be committed has an ordinal
within its budget. What a run adds to the ledger when it ends it takes from those begun
(`BudgetStep`, with `CountGrows` and `BusyMoves`); when it began the
ledger had room, and at most every further service was at a run of its own. Revisions are counted by their rows, the
root and one per event (`LineCount`), and an ordinal is used once, so not even two services
overdraw theirs. TLC checked `BudgetInv` on `shared`. The theorem is about `BudgetsHeld`,
the formula `EachBudgetHeld` applies to each instance of the run; of the properties of the
run only `FairProgress`, liveness, is left to TLC.

## 9. Autopsy workbench

`AutopsyWorkbench`, in `AutopsyServer` the instance `Bench`, models the `SessionManager` of `asset_autopsy/workbench.py` and what a
session remembers: `session` (leases `active`, the queue of its lock, the generation of
its service, draft, traces, latest task, ticket, the lock on editing `terminal`, and of
the case its head, its result and whether a suite has run), `listed` (the LRU order),
`request` (one per client), `cookie`, which a browser gets with an answer only, `disk`
and `open`, the directories and stores. `LeaseKnown`, `LeaseNew` and `LeaseFails` are
`lease` with `_evict_one`; each tool is an action under the session's lock; `Reset`
swaps the service of the same session object; `Cancel` ends a request while it waits,
before its tool had an effect, or within the hidden suite. `setup`, which nothing changes,
says which clients share a browser and which faults happen.

Run `server`, beside the tasks and objects of section 10, takes two clients and room for
one session: two tabs of one browser, where a verdict may not be stored, or two browsers
that compete for the place, on a disk that works, or on one where directories may not be
made or deleted. Requests may be cancelled in each.
`SessionsSound` is about requests against eviction (`LeasesCounted`,
`NoDeadSession`) and about stores and directories (`NothingLeaks`), `MemoryTrue` about
requests that waited while another reset the session (`OneGeneration`) and, like
`NoDraftAfterSuite`, about the page's lock on editing (`LockIsTrue`). Fairness: `WF` on what serves a request, for `RequestsEnd`.
Bounds: three sessions in all (two on the failing disk, where every set of directories
left behind is a state of its own), two generations, one revision. A third request, or a
second revision, meets no guard that two requests and one revision do not. Left out:
the statistics of `query_trace`, and a request that comes with a cookie of an earlier
server.

Proved in `AutopsyServerProofs` for any browsers with any finite set of tabs, any limits
and faults: `SessionsSoundAlways`, `MemoryTrueAlways` and `NoDraftAfterSuiteAlways`.
`BenchInv` says of each session what the properties say of all and what makes it so: ids
are given in turn (`Numbered`), so a new session has none of an evicted one's requests;
a session in the table is there, once (`TableInv`); the queue of a session's lock has
just its holders, each once, and `active` is their number (`LeasesIn`); a request's
session is in the table (`HeldInv`); the open stores are those of the table
(`StoresInv`); and what a session remembers is of its generation and true of its case
(`MemoryIn`). An eviction needs an idle session, so `LeasesIn` gives that no request
holds it, and `HeldInv` survives; a drafting tool looks at the case before it takes a
draft (`Refreshed`), and learns there that its hidden suite was judged (`MemoryIn`
again), so `NoDraftAfterSuite` follows step by step. Assumed: a tab is of some browser,
and at most 32 sessions, as the constructor demands. `RequestsEnd` is model-checked
only.

## 10. Object store and MuJoCo client

`ObjectPublication` models `put_stream` step by step: the copy with short reads, the
sync of the file, the comparison of the digest, the look for the object, the rename and
the three syncs of `_fsync_object_tree`. `objects` is what one sees of the tree, `synced`
what survives a power failure: a directory's entries are durable when that directory was
synced after them. Clients may be processes of their own. `DiskFails`, `Dies`,
`PowerFails` and `Damage` are the failures; a temporary file may be lost or stay.
`AckedSurvive` and `NeverTorn` are the two promises the ledger stands on, in the
presence of a client that finds an object renamed by another and not yet synced;
`LimitExact` is the boundary of docs/storage-contract.md. Run `server` checks the three of
them as `ObjectsDurable` for two clients: with contents at and above the limit and two
failures (`boundary`), and with an object of each client's own, in two shards, and one
failure (`shards`). One failure is what a second client that finds an unsynced object
meets; two are a client that dies before the power fails. Two objects of both clients, or
with more failures, are left to the proof below. The root exists and is kept: that
document (line 31) leaves its ancestors to the caller.

`AutopsyServer` puts the two parts beside the workbench; they share no state.

`MujocoClient` models `PinnedMujocoClient` as `DeterministicRunner` uses it. `session`,
`owners`, `lifecycle` and `operation` are its fields (a lock is the queue of its tasks);
`token` and `slot` what a task keeps; `children` the processes that live and `stuck` those
of them that the cleanup gave up waiting for. `Enter` to
`StartOk` or `StartFails` are `__aenter__` and the start of the child, `Call`, `Refused`,
`Answer`, `BadAnswer`, `CallFails` are `_invoke`, `Kill` and `Killed` `_shutdown_session`,
`Leave` and `Closed` the release of a context, which is a task of its own.

Run `server` checks three tasks, two calls per slot and three sessions, with children
that end when told (`client`), and two of these tasks with children that may not (`stuck`):
two are enough for one to meet a child that another gave up. Three
tasks let one fail a call, one wait for the lock with a slot of the stopped session and
one start the next child. `ClientSound` says who owns a session (`OwnersCounted`), that
a slot is used in the child that loaded it (`SlotsStayHome`) and that, but for those in
`stuck`, there is one child and nobody's child is left (`OneChild`, `NoOrphan`): after the
time of the cleanup the code gives a child up and may start another beside it. `Bystanders` is
about the tasks whose slots a failed call of another spoils.
`SlotsStayHome` is about calls on slots; `validate_model` has none and goes to whatever
session is there. Fairness: `WF` on each task's steps, for `UsersReturnFairly`.
`CHECK_DEADLOCK FALSE`: sessions and failures run out.

Proved in `AutopsyServerProofs` for every finite set of tasks and any numbers of calls and
sessions, whatever faults happen: `ClientSoundAlways` and `BystandersAlways`. `IInv` adds
to the properties who is in the queue of which lock (`Locks`: just the tasks at a place that
needs it, each once, the holder first), what a task's context and slot are at each place
(`Contexts`), that nobody has a context of the session whose child is being started
(`Fresh`), and just when a child lives (`Children`). TLC checked it on the graph of the run
before it was proved. Assumed: `None` is neither a number nor a slot. `UsersReturnFairly`
is model-checked only.

The same module proves `ObjectsDurableAlways` of `ObjectPublication`, instantiated as
`Objects`, for any clients, contents, shards and sizes. The invariant `ObjectsInv` says what
is behind a put at each place (`PutOk`): what it has read is within the limit, what it
has read to the end is small enough, and before it answers, its entry and its shard are
synced. `TreeOk` says that what was acknowledged is there and synced up to the root, and
that nothing too large is there. Only synced files are renamed, so no object is ever
torn, and a power failure keeps what was synced up to the root. The assumption `Sizes`
only says what kind of constants they are: sizes and limits are natural numbers, a chunk
has a byte, each content has a shard.

## 11. V2 project store

`V2Project` models `V2ProjectStore` and `V2ProjectService` with V1's `create_project` on
the same file. `legacy` are the ids of V1, `rows` the decoded `project_rows`, `guards`
whether V2's table and triggers exist (they are made in the transaction of the first V2
project), `damaged` the rows whose checksum no longer fits. A call is the looks outside a
transaction (`Look`), the load of `write_project` (`Load`) and the `BEGIN IMMEDIATE`
transaction (`Create`, `Save`), and anything may happen between them. A token is what
it is a digest of. After a storage error, also one that came after the commit, or a lost
answer, the client may send its request once more. `V2Readiness` models
`derive_readiness` and the answer of a write for every valid specification of one
domain beside the requirements: cut texts, made unique and numbered, the changed
entities, the invalidated digests. A domain record may carry the id of the requirements,
which the contract accepts: their readiness ignores it, a change of it is a changed entity.

Run `v2` has two clients, one id, two requirements and contents, one head, generation 2
and one fault; the derivation has two texts that are alike once they are cut. One id is
enough because no statement of the code reads two; two clients are what a race or a lost
update needs, generation 2 a write over a write. `OneOrigin` (`OneVersion`, `OneOwner`,
`NoTrace`) is about creation, `AtMostOnce` about retries, `WritesGuarded` about what no
write may cover: an update its caller has not seen (`NoLostUpdate`), a damaged row
(`DamageStands`), the requirements (`RequirementsImmutable`). `DerivationSound` says that
what the server derives satisfies the contract of its own answer (`NeverRefused`) and
neither hides a domain nor completes one (`NothingHidden`, `NoSelfPromotion`). No liveness:
nothing in the code keeps a client from starving. Left out: `verify`, `import_payload`
and `list_project_ids`, which change nothing.

Proved in `V2ProjectProofs` for every set of clients, ids, requirements, heads and contents
and any number of faults: `OneOriginAlways`, `AtMostOnceAlways`, `WritesGuardedAlways`.
`IInv` says that a row comes with the triggers that keep V1 off its id (`Guarded`), that an
id that exists has one creator (`Owned`), that what a client read, or goes by in a call, is
what is there or older (`Known`), and that a request that was committed cannot be again
(`Spent`), because its token is of an earlier generation or its id exists. Every step is of
one of a few kinds (`OfAKind`): it asks, moves a call on, creates, or saves. Assumed: `None`
is neither a snapshot nor an answer. `DerivationSound` is model-checked only.

## 12. CAD jobs and the morphology graph

`CadJobs` models a job as three parties: `caller` (the coroutine of
`IsolatedCadCompiler.compile`), `thread` (`IsolatedCadJobRunner.run` on asyncio's
executor) and `worker` (the process of `cad_worker.main`), with `files`, the job's
directory. What is wrong with a call is part of its input: `Call` refuses a profile of
another id or another type, and `Begin`, on the thread, an invalid design, a profile that is
not canonical and a request that is too large, in the code's order (`Refusal`). `Timeout`
and `Kill` race the worker's steps, which are `ReadRequest`, `Compile`, `WriteResponse`
(`_write_atomic`) and `Exit`. `Crash` is a limit or a signal that ends the worker; `RunsShort`
is an error outside the compiler's own `try`, before the geometry or while its result is
encoded, which becomes `CAD_JOB_INTERNAL_ERROR`. `Damage` is a changed file, `Dies` the death
of the server, which leaves workers and directories behind. `Collect` reads the response:
`stat` and the read may fail, and of what `_decode_result` asks for the model keeps the digest
and that no two parts have one name (`Decoded`); the rest the compiler sees to. The designs
in `Clashing` have a visible node named like a part that the compiler adds, so that their
results are refused. `harm` is a history variable: whether a file of the job was changed or
unreadable, whether its worker ran short. `CadMorphology` models
`MorphologyGraph.validate_graph`, the order in which `cad.py` makes the shapes and the
choice of the parts. The shapes themselves are left out, so a graph that is compiled here
may still fail on its geometry.

Run `cad` has two jobs, either on one thread with every wrong request, a design of each kind
and failing calls (`jobs`), or on two threads with damaged files and a dying server
(`deaths`). One thread makes a job that hangs hold up the other. `JobsSound` says that an
answer is of the very design and profile asked for (`OutcomeTrue`), how a job ends
(`LeavesNothing`), and what a failure may blame where no file was touched (`TransportWorks`):
never a missing result, the transport only for a design whose parts clash, the worker only
if it ran short. That the first exception is needed is run `cad_transport` (section 13).
Fairness, in `jobs`: `WF` on each thread's steps; a worker need not take another one, as
the wait has a timeout: every caller is answered and every worker ends (`JobsEnd`). Jobs are
finitely many, so weak fairness is enough for a thread to be free in the end. After the
server's death its workers are nobody's: they end by themselves or never. `process.kill`
reaches the worker only, not processes it might start. An `OSError` of the temporary directory
or of the request leaves `run` as it is, without a code.

Run `project` has, beside the project store, graphs of three nodes of every kind with depth 2
(`graphs`) and of four solids and csgs, one of them surely a solid (`csgs`: four csgs, each of two nodes or more,
would have a cycle). `DesignSound` compares the search with its remembered depths with the
definition by chains (`AcceptsExactly`) and follows a graph into its parts (`MadeInOrder`,
`VisibleOnce`).

`StudioBuild` puts the jobs beside the artifact store, as the instance `Cad`: `_compile` awaits a
job and has its answer before it stores anything. Proved in `StudioBuildProofs` for every set
of jobs, inputs, designs that are refused, too large or clash, threads and directories and
whatever faults happen: `JobsSoundAlways`. As jobs share nothing but the threads and the
supply of directories, `CadInv` is a statement about each job (`JobOk`): what its thread and
its worker may be doing together, that what the directory holds, what the worker works on
and what the thread collected is of the input of that very job, and, while nobody changed
its files, that a worker that ends well has left its response and that no answer on its way
blames what has not happened (`Undamaged`, `Blameless`). Assumed: `None` is neither a file's
content nor a directory. `JobsEnd` and `DesignSound` are model-checked only.

## 13. Disagreements found

- `project_store.py`, `save_project`: README.md says that failed writes roll the live
  service back to its last durable snapshot. The database is opened outside the
  `try`, `_persist` catches only `ProjectStoreError`, and the live copy keeps the
  change. Run `project_rollback` shows an idle service in that state.
- `cad_jobs.py:373` and `cad.py:1088`: the compiler joins the visible nodes, named by their
  ids, with `wheel_left`, `wheel_right`, `neck_pan`, `neck_tilt` and the profile's
  `hardware_...` and `keepout_...` parts, and no schema reserves these names
  (`schemas.py:42`, `157`). The server's decoder refuses a result in which two parts have
  one name. So a valid design with a visible node `wheel_left` is answered with
  `CAD_JOB_TRANSPORT_INVALID`, "The isolated CAD result failed transport integrity checks.",
  marked as retryable, though the response is what the worker wrote, and so is every retry.
  Run `cad_transport` shows that answer to a job whose files nobody touched.

These were met while modelling; no run keeps them:

- `workbench.py:107`, `_ArtifactDownloadAdmission`: the docstring promises "Process-wide
  bounded admission that is safe across event loops." A `release()` grants a waiter
  and drops its lock; the waiter is cancelled on its own thread and gives the slot
  back; its loop closes; `call_soon_threadsafe` raises `RuntimeError` and the slot is
  given back again: one more download than the bound is admitted.
- `workbench.py:326`, `import_project`: README.md:118 says "Import requires the currently
  viewed project generation". The guard compares numbers, and each session counts
  from 0. A browser's session is evicted, a tool call gives it another one, that one
  reaches the same generation, and an import with the generation of the page replaces a
  project the page never showed. The web client reads the context again just before it
  imports, which narrows the window.
- `asset_autopsy/service.py:1020`: README.md:196 and docs/asset-autopsy-mvp-design.md:57
  lock the editing once the hidden suite has run. When its verdict cannot be stored, the
  case stays reserved and the workbench takes a new draft, which no revision can come of.
- `cad.py:133`: a visible `chassis_shell` or `head_shell` that is an operand of a csg is
  accepted as a graph, is part of that csg's shape and is no part of its own; the later
  steps that look for it (`cad.py:507`, `522`, `585`) then fail the compilation.

## 14. What is proved, what is only model-checked, and why

| component | proved for all values of the constants | only model-checked |
|---|---|---|
| download admission | `SlotsAccounted`, `NoOvertaking`, `ImplementsPool` | `WaitEnds` |
| durable project | `HistorySound`, `PhantomsAreStale`, `NoLostUpdate`, `ImplementsLog`, and `AppendOnly` | that `RolledBack` fails |
| sessions | `CountsExact`, `RootsAlive`, `FilesCurrent`, `DurableForward` | `QueueMoves`, `DoomedDeleted` |
| artifact store | `AccountExact`, `BudgetHeld`, `PinnedKept` | |
| evidence ledger | `CaseSound`, `OneVerdict`, `DamageNoticed` (all up to one damage), `ImplementsHistory`, and that transactions keep a case valid | |
| case service | `EvidenceInOrder`, `OneSuite`, `BudgetsHeld` (`EachBudgetHeld` of the run) | `FairProgress` |
| workbench | `SessionsSound`, `MemoryTrue`, `NoDraftAfterSuite` | `RequestsEnd` |
| MuJoCo client | `ClientSound`, `Bystanders` | `UsersReturnFairly` |
| object store | `ObjectsDurable` | |
| V2 project store | `OneOrigin`, `AtMostOnce`, `WritesGuarded` | `DerivationSound` |
| CAD jobs, morphology | `JobsSound` | `JobsEnd`, `DesignSound`, that `TransportBlamedRightly` fails |

Liveness under fairness and `ENABLED` are out of the proof system's reach (`WaitEnds`,
`QueueMoves`, `DoomedDeleted`, `FairProgress`, `RequestsEnd`, `UsersReturnFairly`,
`JobsEnd`), and so is induction over data: that the search through a graph of any size or
the derivation of any texts computes what it should is checked on bounded inputs.
`CadMorphology` writes that search as the recursive operator the code has and is for TLC
only.

So what is only model-checked is liveness (the first list), and `DerivationSound`,
`DesignSound` and that `RolledBack` and `TransportBlamedRightly` fail; every invariant and action property over the
steps of a component is proved for all values of its constants.

## 15. What is not modelled

Geometry, manufacturing checks, profiles, the maker pack's contents, simulation
numerics, the scoring of Autopsy runs and the field constraints of every schema are pure
functions of one input: they have no interleavings and need numeric tests rather than
model checking. The start-up modules only wire the parts. The HTTP layer's parsing,
cookies and headers, the SQLite and operating system internals are taken as atomic
operations with the failures named above. The web pages show what the server answers;
what they ask to change is checked against the head, draft or token they name, by code
that is modelled.
