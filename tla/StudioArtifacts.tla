--------------------------- MODULE StudioArtifacts ---------------------------
(***************************************************************************)
(* How CharacterRobotService (character_robot/service.py) uses its artifact *)
(* store.  One tool runs at a time.  A tool compiles a design, which puts a *)
(* batch of artifacts, or finds it in the compile cache; prepare_build_pack *)
(* then puts the rest of the pack and displays it, once the manifest is    *)
(* durable.  Downloads begin between tools and end whenever nothing else   *)
(* runs: between tools, while a compiler works, while a simulation runs.   *)
(* A save that fails rebuilds the index from the durable manifests, and so *)
(* does a process that is started again.                                   *)
(***************************************************************************)
EXTENDS ArtifactStore

CONSTANTS Designs,
          Batch,       \* the artifacts a compilation of each design makes, in order
          Documents,   \* what a pack adds to them, in order
          MaxDownloads, \* bound of the model on the downloads of one artifact
          FaultModels, \* sets of failures that may happen together
          None

ASSUME DesignAssumption ==
    /\ Batch \in [Designs -> Seq(Digests)] /\ Documents \in [Designs -> Seq(Digests)]
    /\ MaxDownloads \in Nat
    /\ FaultModels \subseteq SUBSET {"crash", "save", "write", "compiler", "damage"}

VARIABLES faults,     \* the failures that may happen here
          store,
          cache,      \* the designs in _compile_cache
          manifests,  \* _artifact_manifests
          durable,    \* those of the last durable snapshot
          stage,      \* where the tool stands
          job         \* what it does

vars == <<faults, store, cache, manifests, durable, stage, job>>

Pack(design) == Batch[design] \o Documents[design]

Stages == {"idle", "asked", "compiling", "storing", "compiled", "checked", "packing"}
Tools == {"design", "pack"}
Jobs == [tool : Tools, design : Designs, todo : Seq(Digests), before : SUBSET Digests]

TypeOK ==
    /\ faults \in FaultModels
    /\ store \in Stores /\ store.total >= 0
    /\ \A d \in Digests : store.downloads[d] <= MaxDownloads
    /\ cache \subseteq Designs
    /\ manifests \in Seq(Designs) /\ IsInjective(manifests) /\ durable \in Seq(Designs)
    /\ stage \in Stages
    /\ job \in Jobs \cup {None}

Init ==
    /\ faults \in FaultModels
    /\ store = EmptyStore
    /\ cache = {}
    /\ manifests = <<>> /\ durable = <<>>
    /\ stage = "idle"
    /\ job = None

-----------------------------------------------------------------------------
Mine == job.design
GoTo(to) == stage' = to /\ UNCHANGED job
End == stage' = "idle" /\ job' = None

Fits(artifacts) == /\ Cardinality(Range(artifacts)) <= MaximumArtifacts
                   /\ Bytes(Range(artifacts)) <= MaximumBytes

Of(packs) == FlattenSeq([i \in 1 .. Len(packs) |-> Pack(packs[i])])

\* _hydrate_preserving_artifact_pins, from the last durable snapshot.
Rollback(s) ==
    LET restored == Restore(s, Of(durable), s.display, s.compile)
        compiled == ReplaceCompile(restored, s.compile \cap Indexed(restored))
    IN ReplaceDisplay(compiled, s.display \cap Indexed(compiled))

Saved(s) == /\ store' = s
            /\ durable' = manifests
            /\ UNCHANGED <<cache, manifests>>

\* The save fails: the service goes back to its last snapshot, or the database could
\* not even be opened and it does not.
SaveFails(s) ==
    /\ "save" \in faults
    /\ \/ store' = Rollback(s) /\ cache' = {} /\ manifests' = durable
       \/ store' = s /\ UNCHANGED <<cache, manifests>>
    /\ UNCHANGED durable
    /\ End

-----------------------------------------------------------------------------
(* Downloads *)

StartDownload(d) ==
    /\ stage = "idle"
    /\ d \in Indexed(store) /\ store.downloads[d] < MaxDownloads
    /\ store' = PrepareDownload(store, d)
    /\ UNCHANGED <<cache, manifests, durable, stage, job>>

EndDownload(d) ==
    /\ stage \in {"idle", "compiling", "compiled"}
    /\ store.downloads[d] > 0
    /\ store' = ReleaseDownload(store, d)
    /\ UNCHANGED <<cache, manifests, durable, stage, job>>

-----------------------------------------------------------------------------
(* _compile *)

Begin(tool, design) ==
    /\ stage = "idle"
    /\ stage' = "asked"
    /\ job' = [tool |-> tool, design |-> design, todo |-> <<>>, before |-> {}]
    /\ UNCHANGED <<store, cache, manifests, durable>>

\* The design is cached and its artifacts can be read.
CacheHit ==
    /\ stage = "asked" /\ Mine \in cache
    /\ LET read == ReadAll(store, Batch[Mine]) IN
           read.ok /\ store' = ReplaceCompile(read.store, Range(Batch[Mine]))
    /\ GoTo("compiled")
    /\ UNCHANGED <<cache, manifests, durable>>

\* It is not, or they cannot: the compiler is asked.
CacheMiss ==
    /\ stage = "asked"
    /\ IF Mine \in cache
       THEN LET read == ReadAll(store, Batch[Mine]) IN ~read.ok /\ store' = read.store
       ELSE UNCHANGED store
    /\ cache' = cache \ {Mine}
    /\ GoTo("compiling")
    /\ UNCHANGED <<manifests, durable>>

\* The compiler fails, or its artifacts exceed the budget: the run is saved.
CompileFails ==
    /\ stage = "compiling"
    /\ "compiler" \in faults \/ ~Fits(Batch[Mine])
    /\ \/ Saved(store) /\ End
       \/ SaveFails(store)

\* Its artifacts are pinned before the first of them is stored.
Reserve ==
    /\ stage = "compiling" /\ Fits(Batch[Mine])
    /\ store' = ReserveCompile(store, Range(Batch[Mine]))
    /\ stage' = "storing"
    /\ job' = [job EXCEPT !.todo = Batch[Mine], !.before = store.compile]
    /\ UNCHANGED <<cache, manifests, durable>>

\* The artifacts are stored one by one, of a compilation or of a pack.
PutNext ==
    /\ stage \in {"storing", "packing"} /\ job.todo # <<>>
    /\ CanPut(store, Head(job.todo))
    /\ store' = Put(store, Head(job.todo))
    /\ job' = [job EXCEPT !.todo = Tail(@)]
    /\ UNCHANGED <<cache, manifests, durable, stage>>

\* One cannot be stored.  A write that fails may leave its object file behind.
Unpin(s) == IF stage = "storing" THEN ReplaceCompile(s, job.before)
                                 ELSE ReplaceDisplay(s, job.before)

\* A validation saves its run even when the compilation failed.
PutFails ==
    /\ stage \in {"storing", "packing"} /\ job.todo # <<>>
    /\ LET d == Head(job.todo)
           left == {store.file[d]} \cup (IF store.file[d] = "none" THEN {"good"} ELSE {})
       IN /\ ~CanPut(store, d) \/ "write" \in faults
          /\ \E f \in IF CanPut(store, d) THEN left ELSE {store.file[d]} :
                 LET s == Unpin([store EXCEPT !.file[d] = f]) IN
                 \/ store' = s /\ End /\ UNCHANGED <<cache, manifests, durable>>
                 \/ stage = "storing" /\ ((Saved(s) /\ End) \/ SaveFails(s))

Stored ==
    /\ stage = "storing" /\ job.todo = <<>>
    /\ store' = ReplaceCompile(store, Range(Batch[Mine]))
    /\ cache' = cache \cup {Mine}
    /\ GoTo("compiled")
    /\ UNCHANGED <<manifests, durable>>

\* _MAX_COMPILE_CACHE_ENTRIES: an older design leaves the cache.
Forget(design) ==
    /\ stage = "compiled" /\ design \in cache \ {Mine}
    /\ cache' = cache \ {design}
    /\ UNCHANGED <<store, manifests, durable, stage, job>>

-----------------------------------------------------------------------------
(* The rest of the tools *)

\* The run is saved.  A tool that replaced the design lets go of the displayed pack.
EndDesign ==
    /\ stage = "compiled" /\ job.tool = "design"
    /\ \/ \E shown \in {store, ReleaseDisplay(store)} : Saved(shown) /\ End
       \/ SaveFails(store)

\* create_revision_from_draft does not compile.
Commit ==
    /\ stage = "idle"
    /\ Saved(ReleaseDisplay(store))
    /\ UNCHANGED <<stage, job>>

\* The simulation is over and the run is saved.
Check ==
    /\ stage = "compiled" /\ job.tool = "pack"
    /\ \/ Saved(store) /\ GoTo("checked")
       \/ SaveFails(store)

\* The compiled artifacts are read again; the pack is blocked when one is missing, or
\* when the pack exceeds the budget.
Blocked ==
    /\ stage = "checked"
    /\ LET read == ReadAll(store, Batch[Mine]) IN
           /\ ~read.ok \/ ~Fits(Pack(Mine))
           /\ \/ Saved(read.store) /\ End
              \/ SaveFails(read.store)

Unblocked ==
    /\ stage = "checked"
    /\ LET read == ReadAll(store, Batch[Mine]) IN
           /\ read.ok /\ Fits(Pack(Mine))
           /\ store' = ReserveDisplay(read.store, Range(Pack(Mine)))
    /\ stage' = "packing"
    /\ job' = [job EXCEPT !.todo = Pack(Mine), !.before = store.display]
    /\ UNCHANGED <<cache, manifests, durable>>

\* All of the pack is stored: its manifest is saved, and it is displayed, or not.
Listed == IF Mine \in Range(manifests) THEN manifests ELSE Append(manifests, Mine)

EndPack ==
    /\ stage = "packing" /\ job.todo = <<>>
    /\ store' = ReplaceDisplay(store, Range(Pack(Mine)))
    /\ manifests' = Listed /\ durable' = Listed
    /\ End
    /\ UNCHANGED cache

EndPackUnsaved ==
    /\ stage = "packing" /\ job.todo = <<>>
    /\ "save" \in faults
    /\ \/ /\ store' = ReplaceDisplay(Rollback(store), job.before)
          /\ cache' = {}
          /\ manifests' = durable
       \/ /\ store' = ReplaceDisplay(store, job.before)
          /\ manifests' = Listed
          /\ UNCHANGED cache
    /\ End
    /\ UNCHANGED durable

-----------------------------------------------------------------------------
(* The environment *)

\* An object file is lost or altered.
Damage(d) ==
    /\ "damage" \in faults
    /\ store.file[d] = "good"
    /\ \E left \in {"none", "bad"} : store' = [store EXCEPT !.file[d] = left]
    /\ UNCHANGED <<cache, manifests, durable, stage, job>>

\* The process dies and another one opens the data root.
Restart ==
    /\ "crash" \in faults
    /\ store' = Restore([EmptyStore EXCEPT !.file = store.file], Of(durable), {}, {})
    /\ cache' = {}
    /\ manifests' = durable
    /\ stage' = "idle" /\ job' = None
    /\ UNCHANGED durable

Compile == CacheHit \/ CacheMiss \/ CompileFails \/ Reserve \/ PutNext \/ PutFails \/ Stored

Next ==
    /\ \/ \E d \in Digests : StartDownload(d) \/ EndDownload(d) \/ Damage(d)
       \/ \E tool \in Tools, design \in Designs : Begin(tool, design)
       \/ Compile \/ EndDesign \/ Commit \/ Check \/ Blocked \/ Unblocked
       \/ EndPack \/ EndPackUnsaved
       \/ \E design \in Designs : Forget(design)
       \/ Restart
    /\ UNCHANGED faults

Spec == Init /\ [][Next]_vars

-----------------------------------------------------------------------------
(* Properties *)

\* total_bytes is what the indexed artifacts weigh, and none is indexed twice.
TotalExact ==
    /\ store.total = Bytes(Indexed(store))
    /\ Len(store.index) = Cardinality(Indexed(store))

\* The budget is exceeded only by what is pinned, and only while an eviction is due: it
\* cannot be forgotten.
BudgetHeld == Over(store) => store.due /\ \A d \in Indexed(store) : Pinned(store, d)

\* artifacts.py:91: no object file is hidden from the budget, while writes succeed.
NoHiddenBytes == faults \cap {"write", "damage"} = {} =>
    \A d \in Digests : store.file[d] # "none" => d \in Indexed(store)

\* While no object file is damaged: the displayed pack can be downloaded whatever is
\* compiled, packed, evicted or rolled back.
DisplayKept ==
    "damage" \notin faults /\ stage # "packing" => \A d \in store.display : CanRead(store, d)

\* While no object file is damaged: a pack finds all that was compiled for it.
BatchKept ==
    "damage" \notin faults /\ stage \in {"compiled", "checked", "packing"} =>
        \A d \in Range(Batch[Mine]) : CanRead(store, d)

\* Between tools one pack at most is pinned for display - what a rollback finds of it, where
\* its files may be damaged - and one batch for its design: what a tool reserved does not stay
\* when it fails.
OnePackPinned ==
    stage = "idle" =>
        /\ store.display = {} \/ \E m \in Designs :
               IF {"save", "damage"} \subseteq faults THEN store.display \subseteq Range(Pack(m))
               ELSE store.display = Range(Pack(m))
        /\ store.compile = {} \/ \E m \in Designs : store.compile \subseteq Range(Batch[m])

\* The account of bytes is exact: the total is that of the index, and no object file is outside.
AccountExact == TypeOK /\ TotalExact /\ NoHiddenBytes

\* What is pinned is kept through evictions, rollbacks and restarts: the displayed pack, of
\* which there is one, and the batch that a tool is working on.
PinnedKept == DisplayKept /\ BatchKept /\ OnePackPinned
=============================================================================
