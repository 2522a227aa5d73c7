---------------------------- MODULE ArtifactStore ----------------------------
(***************************************************************************)
(* SessionArtifactStore of character_robot/artifacts.py, over the object   *)
(* files of asset_autopsy/storage.py: an index of generated artifacts in   *)
(* least-recently-used order, bounded in number and bytes, with three kinds *)
(* of pins that hold an artifact in it.                                    *)
(*                                                                         *)
(* A store is a record; each method is an operator that gives the store it *)
(* leaves.  StudioArtifacts says when the service calls them.              *)
(*   index     _descriptors, the least recently used first                 *)
(*   total     _total_bytes                                                *)
(*   file      the object files: missing, sound or corrupt                 *)
(*   downloads, display, compile   the pins                                *)
(*   pending   _pending_drops;  due   _eviction_pending                    *)
(***************************************************************************)
EXTENDS Integers, FiniteSets, SequencesExt

CONSTANTS Digests,
          Size,               \* byte_size of each artifact
          MaximumArtifacts, MaximumBytes

ASSUME SizeAssumption == Size \in [Digests -> Nat]
ASSUME BudgetAssumption == MaximumArtifacts \in Nat \ {0} /\ MaximumBytes \in Nat \ {0}

Stores == [index : Seq(Digests), total : Int, file : [Digests -> {"none", "good", "bad"}],
           downloads : [Digests -> Nat], display : SUBSET Digests, compile : SUBSET Digests,
           pending : SUBSET Digests, due : BOOLEAN]

EmptyStore == [index |-> <<>>, total |-> 0, file |-> [d \in Digests |-> "none"],
               downloads |-> [d \in Digests |-> 0], display |-> {}, compile |-> {},
               pending |-> {}, due |-> FALSE]

\* The elements of a sequence at some of its places, those in a set, and each at its last place.
Nth(places, i) == CHOOSE k \in places : Cardinality({j \in places : j <= k}) = i
At(q, places) == [i \in 1 .. Cardinality(places) |-> q[Nth(places, i)]]
Only(q, digests) == At(q, {k \in DOMAIN q : q[k] \in digests})
Latest(q) == At(q, {k \in DOMAIN q : \A j \in k + 1 .. Len(q) : q[j] # q[k]})

\* The number of bytes of some artifacts.
Bytes(digests) == Cardinality(UNION {{d} \X (1 .. Size[d]) : d \in digests})
Indexed(s) == Range(s.index)
Pinned(s, d) == s.downloads[d] > 0 \/ d \in s.display \/ d \in s.compile
Over(s) == Len(s.index) > MaximumArtifacts \/ s.total > MaximumBytes
ToEnd(q, d) == Latest(Append(q, d))

-----------------------------------------------------------------------------
(* Dropping and eviction *)

\* Descriptors and their object files go.
Discard(s, digests) ==
    LET gone == digests \cap Indexed(s) IN
    [s EXCEPT !.index = Only(@, Indexed(s) \ gone),
              !.total = @ - Bytes(gone),
              !.file = [d \in Digests |-> IF d \in gone THEN "none" ELSE @[d]]]

\* _drop: what is downloaded or displayed is dropped later.
Drop(s, d) ==
    IF s.downloads[d] > 0 \/ d \in s.display
    THEN [s EXCEPT !.pending = @ \cup {d}]
    ELSE Discard(s, {d})

\* Mutation of Evict: the displayed pack is not spared.
EvictDisplayed(s, protected) ==
    LET idle == Only(s.index, {d \in Digests \ protected : s.downloads[d] = 0 /\ d \notin s.compile})
        Without(k) == Discard(s, Range(SubSeq(idle, 1, k)))
        enough == {k \in 0 .. Len(idle) : ~Over(Without(k))}
    IN IF enough = {} THEN [Without(Len(idle)) EXCEPT !.due = TRUE]
       ELSE [Without(Min(enough)) EXCEPT !.due = FALSE]

\* _evict_to_budget: the least recently used that nothing pins go, as few as are
\* enough; if all of them are not enough the eviction is due again later.
Evict(s, protected) ==
    LET idle == Only(s.index, {d \in Digests \ protected : ~Pinned(s, d)})
        Without(k) == Discard(s, Range(SubSeq(idle, 1, k)))
        enough == {k \in 0 .. Len(idle) : ~Over(Without(k))}
    IN IF enough = {} THEN [Without(Len(idle)) EXCEPT !.due = TRUE]
       ELSE [Without(Min(enough)) EXCEPT !.due = FALSE]

EvictIfDue(s) == IF s.due THEN Evict(s, {}) ELSE s

-----------------------------------------------------------------------------
(* put, read, restore *)

\* put() of an artifact that fits.  An object file that is there must be sound: see CanPut.
Put(s, d) ==
    Evict([s EXCEPT !.pending = @ \ {d},
                    !.index = ToEnd(@, d),
                    !.total = @ + Size[d] - Bytes({d} \cap Indexed(s)),
                    !.file[d] = "good"], {d})

CanPut(s, d) == Size[d] <= MaximumBytes /\ s.file[d] # "bad"

CanRead(s, d) == d \in Indexed(s) /\ s.file[d] = "good"

\* read(): an artifact that cannot be read is dropped.
Read(s, d) ==
    IF d \notin Indexed(s) THEN s
    ELSE IF s.file[d] = "good" THEN [s EXCEPT !.index = ToEnd(@, d)]
    ELSE Drop(s, d)

\* Reading one after the other, up to the first that cannot be read.
ReadAll(s, digests) ==
    LET failing == {k \in DOMAIN digests : ~CanRead(s, digests[k])}
        Used(k) == [s EXCEPT !.index = Latest(@ \o SubSeq(digests, 1, k))]
    IN IF failing = {} THEN [ok |-> TRUE, store |-> Used(Len(digests))]
       ELSE [ok |-> FALSE, store |-> Read(Used(Min(failing) - 1), digests[Min(failing)])]

\* Mutation of Restore: the object files of no manifest stay.
RestoreUnswept(s, digests, display, compile) ==
    LET sound == Latest(Only(digests, {d \in Digests : s.file[d] = "good"}))
        kept == Evict([s EXCEPT !.index = sound, !.total = Bytes(Range(sound)),
                         !.display = display, !.compile = compile, !.pending = {}, !.due = FALSE], {})
    IN [kept EXCEPT !.display = @ \cap Indexed(kept), !.compile = @ \cap Indexed(kept)]

\* restore() from the artifacts of the manifests: the index has those whose files are
\* sound, in that order; every other object file is deleted.
Restore(s, digests, display, compile) ==
    LET sound == Latest(Only(digests, {d \in Digests : s.file[d] = "good"}))
        swept == [s EXCEPT !.index = sound, !.total = Bytes(Range(sound)),
                    !.display = display, !.compile = compile, !.pending = {}, !.due = FALSE,
                    !.file = [d \in Digests |-> IF d \in Range(sound) THEN "good" ELSE "none"]]
        kept == Evict(swept, {})
    IN [kept EXCEPT !.display = @ \cap Indexed(kept), !.compile = @ \cap Indexed(kept)]

-----------------------------------------------------------------------------
(* Pins *)

ReserveDisplay(s, digests) == [s EXCEPT !.display = @ \cup digests]
ReserveCompile(s, digests) == [s EXCEPT !.compile = @ \cup digests]

ReplaceDisplay(s, digests) == EvictIfDue([s EXCEPT !.display = digests])
ReplaceCompile(s, digests) == EvictIfDue([s EXCEPT !.compile = digests])

\* release_display_pins: what waited only for the display is dropped.
ReleaseDisplay(s) ==
    LET gone == {d \in s.pending : s.downloads[d] = 0} IN
    EvictIfDue(Discard([s EXCEPT !.display = {}, !.pending = @ \ gone], gone))

\* Mutation of ReleaseDownload: an eviction that was due is not made up for.
ReleaseDownloadOnly(s, d) ==
    LET free == [s EXCEPT !.downloads[d] = IF @ = 0 THEN 0 ELSE @ - 1] IN
    IF s.downloads[d] > 1 THEN free
    ELSE IF d \in s.pending THEN Drop([free EXCEPT !.pending = @ \ {d}], d) ELSE free

\* release_download: with the last download, a drop or an eviction that waited for it.
ReleaseDownload(s, d) ==
    LET free == [s EXCEPT !.downloads[d] = IF @ = 0 THEN 0 ELSE @ - 1] IN
    IF s.downloads[d] > 1 THEN free
    ELSE EvictIfDue(IF d \in s.pending THEN Drop([free EXCEPT !.pending = @ \ {d}], d)
                    ELSE free)

\* prepare_download of an indexed artifact: an object that cannot be opened is dropped.
PrepareDownload(s, d) ==
    LET pinned == [s EXCEPT !.downloads[d] = @ + 1] IN
    IF s.file[d] = "good" THEN [pinned EXCEPT !.index = ToEnd(@, d)]
    ELSE Drop(ReleaseDownload(pinned, d), d)
=============================================================================
