------------------------ MODULE StudioProjectProofs ------------------------
(***************************************************************************)
(* Proofs about StudioProject, for every set of services and of            *)
(* specifications and every limit.                                         *)
(***************************************************************************)
EXTENDS StudioProject, FiniteSetTheorems, SequenceTheorems, TLAPS

\* A commit is under way only while its revision is in the live copy, a new draft has
\* a specification, a tool replies from a copy that was saved, and a Build Pack is of
\* a revision the live copy has.
OpShape ==
    \A s \in Services :
        /\ op[s].kind = "draft" => op[s].spec \in Specs
        /\ op[s].kind = "commit" => /\ stage[s] \in {"save", "reply"}
                                    /\ live[s].revisions # <<>>
        /\ stage[s] = "reply" => live[s] = persisted[s]
        /\ op[s].kind = "pack" /\ stage[s] \in {"compile", "telemetry", "apply"} =>
               op[s].revision \in 1 .. Len(live[s].revisions)

LEMMA BlankType == Blank \in Snapshots
  BY LimitsAssumption DEF Blank, Snapshots

LEMMA ChainType ==
    ASSUME NEW specs \in Seq(Specs)
    PROVE  Chain(specs) \in Seq(Revisions) /\ Len(Chain(specs)) = Len(specs)
  <1>1. Len(specs) \in Nat /\ \A i \in 1 .. Len(specs) : specs[i] \in Specs
    OBVIOUS
  <1>2. \A i \in 1 .. Len(specs) :
            [id |-> i, parent |-> i - 1, spec |-> specs[i]] \in Revisions
    BY <1>1 DEF Revisions
  <1>3. QED
    BY <1>1, <1>2 DEF Chain

LEMMA NoOpType == NoOp \in Ops /\ NoOp.kind = "none"
  BY DEF NoOp, Ops

LEMMA DraftTool ==
    ASSUME NEW spec \in Specs, NEW head \in Nat, NEW draft \in Drafts \cup {NoDraft}
    PROVE  LET tool == [NoOp EXCEPT !.kind = "draft", !.spec = spec, !.head = head,
                                    !.draft = draft]
           IN  tool \in Ops /\ tool.kind = "draft" /\ tool.spec \in Specs
  BY DEF NoOp, Ops

LEMMA CommitTool ==
    ASSUME NEW head \in Nat, NEW draft \in Drafts \cup {NoDraft}
    PROVE  LET tool == [NoOp EXCEPT !.kind = "commit", !.head = head, !.draft = draft]
           IN  tool \in Ops /\ tool.kind = "commit"
  BY DEF NoOp, Ops

LEMMA PackTool ==
    ASSUME NEW revision \in Nat
    PROVE  LET tool == [NoOp EXCEPT !.kind = "pack", !.revision = revision]
           IN  tool \in Ops /\ tool.kind = "pack" /\ tool.revision = revision
  BY DEF NoOp, Ops

LEMMA NextGeneration ==
    ASSUME NEW p \in Snapshots
    PROVE  LET q == [p EXCEPT !.generation = @ + 1]
           IN  /\ q \in Snapshots /\ q.generation = p.generation + 1
               /\ q.head = p.head /\ q.draft = p.draft
               /\ q.revisions = p.revisions /\ q.manifests = p.manifests
  BY DEF Snapshots

LEMMA NamedType == Named \subseteq Drafts \cup {NoDraft}
  BY LimitsAssumption DEF Named, Drafts

\* Every tool leaves a well-typed state.
LEMMA TypeStep ==
    ASSUME TypeOK, OpShape, [Next]_vars
    PROVE  TypeOK' /\ OpShape'
  <1> USE DEF TypeOK
  <1>1. CASE UNCHANGED vars
    BY <1>1 DEF vars, OpShape
  <1> SUFFICES ASSUME NEW s \in Services,
                      Process(s) \/ Tool(s) \/ Step(s) \/ Persist(s) \/ Reply(s)
               PROVE  TypeOK' /\ OpShape'
    BY <1>1 DEF Next
  <1>a. live[s] \in Snapshots /\ op[s] \in Ops
    OBVIOUS
  <1>2. CASE Process(s)
    <2>1. CASE Start(s)
      BY <2>1, NoOpType DEF Start, Hydrate, GoTo, Private, OpShape, Stages
    <2>2. CASE Create(s)
      BY <2>2, NoOpType DEF Create, Hydrate, GoTo, Private, OpShape, Stages
    <2>3. CASE Crash(s)
      BY <2>3, NoOpType, BlankType DEF Crash, Hydrate, Private, OpShape, Stages
    <2>4. ASSUME NEW specs \in BoundedSeq(Specs, RevisionLimit),
                 NEW generation \in 1 .. MaxGeneration, Replace(s, specs, generation)
          PROVE  TypeOK' /\ OpShape'
      <3> DEFINE p == [Blank EXCEPT !.generation = generation, !.head = Len(specs),
                                    !.revisions = Chain(specs)]
      <3>1. specs \in Seq(Specs)
        BY DEF BoundedSeq, SeqOf
      <3>2. generation \in Nat /\ Len(specs) \in Nat
        BY <3>1, LimitsAssumption
      <3>3. p \in Snapshots
        BY <3>1, <3>2, ChainType, BlankType DEF Snapshots
      <3> HIDE DEF p
      <3>4. stage[s] = "idle" /\ store' = p /\ Hydrate(s, p) /\ UNCHANGED <<exists, stage, op, acked, escaped>>
        BY <2>4 DEF Replace, p
      <3>5. QED
        BY <3>3, <3>4 DEF Hydrate, OpShape
    <2>5. QED
      BY <1>2, <2>1, <2>2, <2>3, <2>4 DEF Process
  <1>3. CASE Tool(s)
    <2>1. ASSUME NEW spec \in Specs, NEW head \in 0 .. RevisionLimit, NEW draft \in Named,
                 BeginSetDraft(s, spec, head, draft)
          PROVE  TypeOK' /\ OpShape'
      <3> DEFINE tool == [NoOp EXCEPT !.kind = "draft", !.spec = spec, !.head = head,
                                      !.draft = draft]
      <3>a. head \in Nat /\ draft \in Drafts \cup {NoDraft}
        BY LimitsAssumption, NamedType
      <3>1. tool \in Ops /\ tool.kind = "draft" /\ tool.spec \in Specs
        BY <3>a, DraftTool
      <3> HIDE DEF tool
      <3>2. Begin(s, tool, "compile") /\ UNCHANGED live
        BY <2>1 DEF BeginSetDraft, tool
      <3>3. QED
        BY <3>1, <3>2 DEF Begin, Private, OpShape, Stages
    <2>2. ASSUME NEW head \in 0 .. RevisionLimit, NEW draft \in Named, Commit(s, head, draft)
          PROVE  TypeOK' /\ OpShape'
      <3> DEFINE tool == [NoOp EXCEPT !.kind = "commit", !.head = head, !.draft = draft]
                 id == Len(live[s].revisions) + 1
                 r == [id |-> id, parent |-> head, spec |-> draft.spec]
                 d == [base |-> id, spec |-> draft.spec]
                 p == [live[s] EXCEPT !.head = id, !.draft = d, !.revisions = Append(@, r)]
      <3>1. draft \in Drafts /\ head \in Nat /\ live[s] \in Snapshots
        BY <2>2, LimitsAssumption DEF Commit, Named, Drafts
      <3>2. live[s].revisions \in Seq(Revisions) /\ id \in Nat
        BY <3>1 DEF Snapshots
      <3>a. tool \in Ops /\ tool.kind = "commit"
        BY <3>1, CommitTool
      <3>3. r \in Revisions /\ d \in Drafts
        BY <3>1, <3>2 DEF Drafts, Revisions
      <3> HIDE DEF tool, r, d, id
      <3>4. Append(live[s].revisions, r) \in Seq(Revisions) /\ Append(live[s].revisions, r) # <<>>
        BY <3>2, <3>3
      <3>5. p \in Snapshots /\ p.revisions # <<>>
        BY <3>1, <3>2, <3>3, <3>4 DEF Snapshots
      <3>6. Begin(s, tool, "save") /\ live' = [live EXCEPT ![s] = p]
        BY <2>2, <3>1 DEF Commit, tool, p, r, d, id
      <3> HIDE DEF p
      <3>7. QED
        BY <3>a, <3>5, <3>6 DEF Begin, Private, OpShape, Stages
    <2>3. ASSUME NEW spec \in Specs, NEW draft \in Named, BeginRevise(s, spec, draft)
          PROVE  TypeOK' /\ OpShape'
      <3> DEFINE tool == [NoOp EXCEPT !.kind = "draft", !.spec = spec, !.head = draft.base,
                                      !.draft = draft]
      <3>a. draft \in Drafts /\ draft.base \in Nat
        BY <2>3, NamedType DEF BeginRevise, Drafts
      <3>1. tool \in Ops /\ tool.kind = "draft" /\ tool.spec \in Specs
        BY <3>a, DraftTool
      <3> HIDE DEF tool
      <3>2. Begin(s, tool, "compile") /\ UNCHANGED live
        BY <2>3 DEF BeginRevise, tool
      <3>3. QED
        BY <3>1, <3>2 DEF Begin, Private, OpShape, Stages
    <2>4. ASSUME NEW kind \in {"inspect", "validate"}, BeginRead(s, kind)
          PROVE  TypeOK' /\ OpShape'
      BY <2>4, NoOpType DEF BeginRead, Begin, Private, OpShape, Stages, Ops
    <2>5. ASSUME NEW revision \in 1 .. RevisionLimit, BeginPack(s, revision)
          PROVE  TypeOK' /\ OpShape'
      <3> DEFINE tool == [NoOp EXCEPT !.kind = "pack", !.revision = revision]
      <3>a. revision \in Nat
        BY LimitsAssumption
      <3>1. tool \in Ops /\ tool.kind = "pack" /\ tool.revision = revision
        BY <3>a, PackTool
      <3> HIDE DEF tool
      <3>2. Begin(s, tool, "compile") /\ UNCHANGED live
        BY <2>5 DEF BeginPack, tool
      <3>b. revision \in 1 .. Len(live[s].revisions)
        BY <2>5 DEF BeginPack
      <3>3. QED
        BY <3>b, <3>1, <3>2 DEF Begin, Private, OpShape, Stages
    <2>6. QED
      BY <1>3, <2>1, <2>2, <2>3, <2>4, <2>5 DEF Tool
  <1>4. CASE Step(s)
    <2>1. CASE Compiled(s)
      BY <2>1, NoOpType DEF Compiled, Changed, GoTo, Private, OpShape, Stages
    <2>2. CASE CompileFails(s)
      BY <2>2, NoOpType DEF CompileFails, GoTo, Private, OpShape, Stages
    <2>3. CASE CompileAborted(s)
      BY <2>3, NoOpType DEF CompileAborted, AfterError, GoTo, Private, OpShape, Stages
    <2>4. CASE ApplyDraft(s)
      <3> DEFINE p == [live[s] EXCEPT !.draft = [base |-> live[s].head, spec |-> op[s].spec]]
      <3>1. p \in Snapshots
        BY <1>a, <2>4 DEF ApplyDraft, OpShape, Snapshots, Drafts
      <3> HIDE DEF p
      <3>2. QED
        BY <2>4, <3>1, NoOpType DEF ApplyDraft, p, GoTo, Private, OpShape, Stages
    <2>5. CASE BlockPack(s)
      BY <2>5, NoOpType DEF BlockPack, GoTo, Private, OpShape, Stages
    <2>6. CASE Reject(s)
      BY <2>6, NoOpType DEF Reject, GoTo, Private, OpShape, Stages
    <2>7. ASSUME NEW build \in Builds, ApplyPack(s, build)
          PROVE  TypeOK' /\ OpShape'
      <3> DEFINE p == [live[s] EXCEPT !.manifests = @ \cup {[revision |-> op[s].revision,
                                                              build |-> build]}]
      <3>a. [revision |-> op[s].revision, build |-> build] \in Manifests
        BY <1>a DEF Ops, Manifests
      <3>1. p \in Snapshots
        BY <1>a, <3>a DEF Snapshots
      <3>2. live' = [live EXCEPT ![s] = p] \/ UNCHANGED live
        BY <2>7 DEF ApplyPack
      <3> HIDE DEF p
      <3>3. stage[s] = "apply" /\ op[s].kind = "pack" /\ GoTo(s, "save") /\ UNCHANGED persisted /\ Private
        BY <2>7 DEF ApplyPack
      <3>4. QED
        BY <3>1, <3>2, <3>3, NoOpType DEF GoTo, Private, OpShape, Stages
    <2>8. QED
      BY <1>4, <2>1, <2>2, <2>3, <2>4, <2>5, <2>6, <2>7 DEF Step
  <1>5. CASE Persist(s)
    <2>1. CASE SaveOk(s)
      <3> DEFINE p == [live[s] EXCEPT !.generation = @ + 1]
      <3>1. p \in Snapshots /\ p.revisions = live[s].revisions
        BY <1>a, NextGeneration
      <3>2. store' = p /\ Hydrate(s, p) /\ UNCHANGED <<exists, acked>>
        BY <2>1 DEF SaveOk
      <3> HIDE DEF p
      <3>3. /\ stage[s] \in {"telemetry", "save", "failing", "refailing"}
            /\ GoTo(s, AfterSave(s))
        BY <2>1 DEF SaveOk, Saving
      <3>4. /\ AfterSave(s) \in {"apply", "reply", "refailing", "idle"}
            /\ stage[s] = "save" => AfterSave(s) = "reply"
            /\ AfterSave(s) = "apply" => stage[s] = "telemetry"
        BY <3>3 DEF AfterSave, AfterError
      <3>5. QED
        BY <3>1, <3>2, <3>3, <3>4, NoOpType DEF Hydrate, GoTo, OpShape, Stages
    <2>2. CASE SaveConflict(s)
      BY <2>2, NoOpType DEF SaveConflict, Saving, AfterRaise, AfterError, Hydrate, GoTo, Private, OpShape, Stages
    <2>3. CASE SaveFails(s)
      BY <2>3, NoOpType DEF SaveFails, Saving, AfterRaise, AfterError, Hydrate, GoTo, Private, OpShape, Stages
    <2>4. CASE SaveEscapes(s)
      BY <2>4, NoOpType DEF SaveEscapes, GoTo, Private, OpShape, Stages
    <2>5. QED
      BY <1>5, <2>1, <2>2, <2>3, <2>4 DEF Persist
  <1>6. CASE Reply(s)
    BY <1>6, NoOpType DEF Reply, GoTo, OpShape, Stages, Snapshots, Last
  <1>7. QED
    BY <1>2, <1>3, <1>4, <1>5, <1>6

\* The live copy, the snapshots and everything else are of the types TypeOK gives them.
THEOREM TypeCorrect == Spec => []TypeOK
  <1>1. Init => TypeOK /\ OpShape
    BY BlankType, NoOpType DEF Init, TypeOK, OpShape, Stages
  <1>2. TypeOK /\ OpShape /\ [Next]_vars => TypeOK' /\ OpShape'
    BY TypeStep
  <1>3. QED
    BY <1>1, <1>2, PTL DEF Spec

-----------------------------------------------------------------------------
(* What one step can do to the durable project and to the copies of it *)

Extends(q, r) == Len(q) <= Len(r) /\ \A i \in 1 .. Len(q) : q[i] = r[i]

Sound(p) == ValidGraph(p) /\ IsFiniteSet(p.manifests)

\* The new snapshot p keeps what the older one q had.
Keeps(q, p) ==
    /\ Extends(q.revisions, p.revisions)
    /\ q.manifests \subseteq p.manifests
    /\ Sound(q) => Sound(p)

\* A step leaves the copies alone, reads one again, changes a live copy, writes the
\* row, or answers a caller.
Idles == UNCHANGED <<store, acked, live, persisted>>

Rereads(s) ==
    /\ \E p \in {store, Blank, persisted[s]} : Hydrate(s, p)
    /\ UNCHANGED <<store, acked>>

Edits(s) ==
    /\ \E p \in Snapshots :
           /\ live' = [live EXCEPT ![s] = p]
           /\ p.generation = live[s].generation
           /\ Keeps(live[s], p)
    /\ UNCHANGED <<store, acked, persisted>>

Writes(s) ==
    /\ \E p \in Snapshots :
           /\ store' = p /\ Hydrate(s, p)
           /\ p.generation > store.generation
           /\ Keeps(live[s], p)
    /\ live[s].generation = store.generation
    /\ UNCHANGED acked

Answers(s) ==
    /\ live[s] = persisted[s]
    /\ live[s].revisions # <<>>
    /\ acked' = acked \cup {Last(live[s].revisions)}
    /\ UNCHANGED <<store, live, persisted>>

LEMMA CommitKeeps ==
    ASSUME NEW q \in Snapshots, NEW spec \in Specs, Len(q.revisions) < RevisionLimit
    PROVE  LET id == Len(q.revisions) + 1
               p == [q EXCEPT !.head = id, !.draft = [base |-> id, spec |-> spec],
                              !.revisions = Append(@, [id |-> id, parent |-> q.head,
                                                       spec |-> spec])]
           IN  p \in Snapshots /\ p.generation = q.generation /\ Keeps(q, p)
  <1> DEFINE id == Len(q.revisions) + 1
             d == [base |-> id, spec |-> spec]
             r == [id |-> id, parent |-> q.head, spec |-> spec]
             p == [q EXCEPT !.head = id, !.draft = d, !.revisions = Append(@, r)]
  <1>1. q.revisions \in Seq(Revisions) /\ q.head \in Nat /\ id \in Nat
    BY DEF Snapshots
  <1>2. /\ d \in Drafts /\ d.base = id
        /\ r \in Revisions /\ r.id = id /\ r.parent = q.head
    BY <1>1 DEF Drafts, Revisions
  <1> DEFINE t == Append(q.revisions, r)
  <1>3. /\ t \in Seq(Revisions) /\ Len(t) = id /\ t[id] = r
        /\ \A i \in 1 .. Len(q.revisions) : t[i] = q.revisions[i]
    BY <1>1, <1>2
  <1> HIDE DEF d, r, t
  <1>4. /\ p \in Snapshots /\ p.generation = q.generation /\ p.head = id /\ p.draft = d
        /\ p.revisions = t /\ p.manifests = q.manifests
    BY <1>1, <1>2, <1>3 DEF Snapshots, t
  <1> HIDE DEF p
  <1>5. Extends(q.revisions, p.revisions)
    BY <1>1, <1>3, <1>4 DEF Extends
  <1>6. ASSUME Sound(q) PROVE Sound(p)
    <2>a. /\ Len(q.revisions) \in Nat /\ q.head = Len(q.revisions)
          /\ \A i \in 1 .. Len(q.revisions) :
                 q.revisions[i].id = i /\ q.revisions[i].parent = i - 1
      BY <1>1, <1>6 DEF Sound, ValidGraph
    <2>b. ASSUME NEW i \in 1 .. id
          PROVE  t[i].id = i /\ t[i].parent = i - 1
      <3>1. CASE i = id
        BY <3>1, <2>a, <1>2, <1>3
      <3>2. CASE i # id
        <4>1. i \in 1 .. Len(q.revisions)
          BY <3>2, <2>a
        <4>2. QED
          BY <4>1, <2>a, <1>3
      <3>3. QED
        BY <3>1, <3>2
    <2>1. \A i \in 1 .. id : t[i].id = i /\ t[i].parent = i - 1
      BY <2>b
    <2>2. Len(t) <= RevisionLimit
      BY <1>1, <1>3, LimitsAssumption
    <2>3. \A m \in p.manifests : m.revision \in 1 .. id
      BY <1>1, <1>4, <1>6 DEF Sound, ValidGraph
    <2>4. QED
      BY <1>2, <1>3, <1>4, <1>6, <2>1, <2>2, <2>3 DEF Sound, ValidGraph
  <1>7. QED
    BY <1>4, <1>5, <1>6 DEF Keeps, p, d, r

LEMMA DraftKeeps ==
    ASSUME NEW q \in Snapshots, NEW spec \in Specs
    PROVE  LET p == [q EXCEPT !.draft = [base |-> q.head, spec |-> spec]]
           IN  p \in Snapshots /\ p.generation = q.generation /\ Keeps(q, p)
  <1> DEFINE d == [base |-> q.head, spec |-> spec]
             p == [q EXCEPT !.draft = d]
  <1>1. d \in Drafts /\ d.base = q.head
    BY DEF Drafts, Snapshots
  <1> HIDE DEF d
  <1>2. /\ p \in Snapshots /\ p.generation = q.generation /\ p.head = q.head /\ p.draft = d
        /\ p.revisions = q.revisions /\ p.manifests = q.manifests
    BY <1>1 DEF Snapshots
  <1> HIDE DEF p
  <1>3. Len(q.revisions) \in Nat
    BY DEF Snapshots
  <1>4. QED
    BY <1>1, <1>2, <1>3 DEF Keeps, Extends, Sound, ValidGraph, p, d

LEMMA PackKeeps ==
    ASSUME NEW q \in Snapshots, NEW m \in Manifests,
           m.revision \in 1 .. Len(q.revisions),
           Cardinality(q.manifests) < ManifestLimit
    PROVE  LET p == [q EXCEPT !.manifests = @ \cup {m}]
           IN  p \in Snapshots /\ p.generation = q.generation /\ Keeps(q, p)
  <1> DEFINE p == [q EXCEPT !.manifests = @ \cup {m}]
  <1>1. /\ p \in Snapshots /\ p.generation = q.generation /\ p.head = q.head
        /\ p.draft = q.draft /\ p.revisions = q.revisions
        /\ p.manifests = q.manifests \cup {m}
    BY DEF Snapshots
  <1> HIDE DEF p
  <1>2. Len(q.revisions) \in Nat
    BY DEF Snapshots
  <1>3. ASSUME IsFiniteSet(q.manifests)
        PROVE  IsFiniteSet(p.manifests) /\ Cardinality(p.manifests) <= ManifestLimit
    <2>1. Cardinality(q.manifests) \in Nat
      BY <1>3, FS_CardinalityType
    <2>2. /\ IsFiniteSet(q.manifests \cup {m})
          /\ Cardinality(q.manifests \cup {m}) =
                 IF m \in q.manifests THEN Cardinality(q.manifests)
                                      ELSE Cardinality(q.manifests) + 1
      BY <1>3, FS_AddElement
    <2>3. QED
      BY <1>1, <2>1, <2>2, LimitsAssumption
  <1>4. QED
    BY <1>1, <1>2, <1>3 DEF Keeps, Extends, Sound, ValidGraph, p

LEMMA ReplaceKeeps ==
    ASSUME NEW q \in Snapshots, q.revisions = <<>>, q.manifests = {},
           NEW specs \in Seq(Specs), NEW generation \in Nat,
           ValidGraph([Blank EXCEPT !.generation = generation, !.head = Len(specs),
                                    !.revisions = Chain(specs)])
    PROVE  LET p == [Blank EXCEPT !.generation = generation, !.head = Len(specs),
                                  !.revisions = Chain(specs)]
           IN  p \in Snapshots /\ p.generation = generation /\ Keeps(q, p)
  <1> DEFINE c == Chain(specs)
             p == [Blank EXCEPT !.generation = generation, !.head = Len(specs),
                                !.revisions = c]
  <1>1. c \in Seq(Revisions) /\ Len(specs) \in Nat
    BY ChainType
  <1> HIDE DEF c
  <1>2. p \in Snapshots /\ p.generation = generation /\ p.manifests = {}
    BY <1>1, BlankType DEF Snapshots, Blank
  <1>3. ValidGraph(p)
    BY DEF c
  <1> HIDE DEF p
  <1>4. Sound(p)
    BY <1>2, <1>3, FS_EmptySet DEF Sound
  <1>5. Extends(q.revisions, p.revisions)
    BY DEF Extends
  <1>6. QED
    BY <1>2, <1>4, <1>5 DEF Keeps, p, c

LEMMA KeepsSelf ==
    ASSUME NEW q \in Snapshots
    PROVE  LET p == [q EXCEPT !.generation = @ + 1] IN Keeps(q, p)
  <1> DEFINE p == [q EXCEPT !.generation = @ + 1]
  <1>1. /\ p.head = q.head /\ p.draft = q.draft
        /\ p.revisions = q.revisions /\ p.manifests = q.manifests
    BY NextGeneration
  <1> HIDE DEF p
  <1>2. Len(q.revisions) \in Nat
    BY DEF Snapshots
  <1>3. QED
    BY <1>1, <1>2 DEF Keeps, Extends, Sound, ValidGraph, p

\* Every action is one of the five kinds of step.
LEMMA StepEffect ==
    ASSUME TypeOK, OpShape, Next
    PROVE  \/ Idles
           \/ \E s \in Services : Rereads(s) \/ Edits(s) \/ Writes(s) \/ Answers(s)
  <1> DEFINE Goal == \/ Idles
                     \/ \E t \in Services : Rereads(t) \/ Edits(t) \/ Writes(t) \/ Answers(t)
  <1> SUFFICES ASSUME NEW s \in Services,
                      Process(s) \/ Tool(s) \/ Step(s) \/ Persist(s) \/ Reply(s)
               PROVE  Goal
    BY DEF Next
  <1>a. live[s] \in Snapshots /\ op[s] \in Ops /\ persisted[s] \in Snapshots
    BY DEF TypeOK
  <1>2. CASE Process(s)
    <2>1. CASE Start(s) \/ Create(s) \/ Crash(s)
      BY <2>1 DEF Start, Create, Crash, Private, Rereads, Idles
    <2>2. ASSUME NEW specs \in BoundedSeq(Specs, RevisionLimit),
                 NEW generation \in 1 .. MaxGeneration, Replace(s, specs, generation)
          PROVE  Writes(s)
      <3> DEFINE p == [Blank EXCEPT !.generation = generation, !.head = Len(specs),
                                    !.revisions = Chain(specs)]
      <3>1. specs \in Seq(Specs) /\ generation \in Nat /\ generation > 0
        BY LimitsAssumption DEF BoundedSeq, SeqOf
      <3>2. /\ live[s].revisions = <<>> /\ live[s].manifests = {}
            /\ live[s].generation = 0 /\ store.generation = 0
            /\ store' = p /\ Hydrate(s, p) /\ UNCHANGED acked /\ ValidGraph(p)
        BY <2>2 DEF Replace
      <3>3. p \in Snapshots /\ p.generation = generation /\ Keeps(live[s], p)
        BY <1>a, <3>1, <3>2, ReplaceKeeps
      <3> HIDE DEF p
      <3>4. QED
        BY <3>1, <3>2, <3>3 DEF Writes
    <2>3. QED
      BY <1>2, <2>1, <2>2 DEF Process
  <1>3. CASE Tool(s)
    <2>1. ASSUME NEW head \in 0 .. RevisionLimit, NEW draft \in Named, Commit(s, head, draft)
          PROVE  Edits(s)
      <3> DEFINE id == Len(live[s].revisions) + 1
                 p == [live[s] EXCEPT !.head = id, !.draft = [base |-> id, spec |-> draft.spec],
                                      !.revisions = Append(@, [id |-> id, parent |-> live[s].head,
                                                               spec |-> draft.spec])]
      <3>1. /\ head = live[s].head /\ draft # NoDraft
            /\ Len(live[s].revisions) < RevisionLimit
            /\ live' = [live EXCEPT ![s] = p]
            /\ UNCHANGED <<store, acked, persisted>>
        BY <1>a, <2>1 DEF Commit, Begin, Private, TypeOK
      <3>2. draft.spec \in Specs
        BY <3>1, NamedType DEF Drafts
      <3>3. p \in Snapshots /\ p.generation = live[s].generation /\ Keeps(live[s], p)
        BY <1>a, <3>1, <3>2, CommitKeeps
      <3> HIDE DEF p
      <3>4. QED
        BY <3>1, <3>3 DEF Edits
    <2>2. CASE /\ UNCHANGED <<store, acked, live, persisted>>
      BY <2>2 DEF Idles
    <2>3. QED
      BY <1>3, <2>1, <2>2 DEF Tool, BeginSetDraft, BeginRevise, BeginRead, BeginPack, Begin, Private
  <1>4. CASE Step(s)
    <2>1. CASE Compiled(s) \/ CompileFails(s) \/ CompileAborted(s) \/ BlockPack(s) \/ Reject(s)
      BY <2>1 DEF Compiled, CompileFails, CompileAborted, BlockPack, Reject, Private, Idles
    <2>2. CASE ApplyDraft(s)
      <3> DEFINE p == [live[s] EXCEPT !.draft = [base |-> live[s].head, spec |-> op[s].spec]]
      <3>1. op[s].spec \in Specs
        BY <2>2 DEF ApplyDraft, OpShape
      <3>2. live' = [live EXCEPT ![s] = p] /\ UNCHANGED <<store, acked, persisted>>
        BY <2>2 DEF ApplyDraft, Private, TypeOK
      <3>3. p \in Snapshots /\ p.generation = live[s].generation /\ Keeps(live[s], p)
        BY <1>a, <3>1, DraftKeeps
      <3> HIDE DEF p
      <3>4. QED
        BY <3>2, <3>3 DEF Edits
    <2>3. ASSUME NEW build \in Builds, ApplyPack(s, build)
          PROVE  Idles \/ Edits(s)
      <3> DEFINE m == [revision |-> op[s].revision, build |-> build]
                 p == [live[s] EXCEPT !.manifests = @ \cup {m}]
      <3>1. m \in Manifests /\ m.revision \in 1 .. Len(live[s].revisions)
        BY <1>a, <2>3 DEF ApplyPack, OpShape, Ops, Manifests
      <3>2. UNCHANGED <<store, acked, persisted>>
        BY <2>3 DEF ApplyPack, Private
      <3>3. \/ UNCHANGED live
            \/ Cardinality(live[s].manifests) < ManifestLimit /\ live' = [live EXCEPT ![s] = p]
        BY <2>3 DEF ApplyPack, TypeOK
      <3> HIDE DEF m
      <3>4. Cardinality(live[s].manifests) < ManifestLimit =>
                p \in Snapshots /\ p.generation = live[s].generation /\ Keeps(live[s], p)
        BY <1>a, <3>1, PackKeeps
      <3> HIDE DEF p
      <3>5. QED
        BY <3>2, <3>3, <3>4 DEF Edits, Idles
    <2>4. QED
      BY <1>4, <2>1, <2>2, <2>3 DEF Step
  <1>5. CASE Persist(s)
    <2>1. CASE SaveOk(s)
      <3> DEFINE p == [live[s] EXCEPT !.generation = @ + 1]
      <3>1. /\ live[s].generation = store.generation /\ store' = p
            /\ Hydrate(s, p) /\ UNCHANGED acked
        BY <2>1 DEF SaveOk
      <3>2. p \in Snapshots /\ p.generation = live[s].generation + 1 /\ Keeps(live[s], p)
        BY <1>a, NextGeneration, KeepsSelf
      <3> HIDE DEF p
      <3>3. live[s].generation \in Nat
        BY <1>a DEF Snapshots
      <3>4. p.generation > store.generation
        BY <3>1, <3>2, <3>3
      <3>5. QED
        BY <3>1, <3>2, <3>4 DEF Writes
    <2>2. CASE SaveConflict(s) \/ SaveFails(s) \/ SaveEscapes(s)
      BY <2>2 DEF SaveConflict, SaveFails, SaveEscapes, Private, Idles, Rereads
    <2>3. QED
      BY <1>5, <2>1, <2>2 DEF Persist
  <1>6. CASE Reply(s)
    <2>1. stage[s] = "reply" /\ live[s] = persisted[s]
      BY <1>6 DEF Reply, OpShape
    <2>2. QED
      BY <1>6, <2>1 DEF Reply, OpShape, Answers, Idles
  <1>7. QED
    BY <1>2, <1>3, <1>4, <1>5, <1>6

-----------------------------------------------------------------------------
(* What holds whatever fails *)

\* Nothing is stored before generation 1.
Origins ==
    /\ store.generation = 0 => store = Blank
    /\ \A s \in Services : persisted[s].generation = 0 => persisted[s] = Blank

\* A live copy adds to the snapshot it was made from, and that snapshot is part of the
\* durable history.
Lineage ==
    \A s \in Services :
        /\ Extends(persisted[s].revisions, live[s].revisions)
        /\ persisted[s].manifests \subseteq live[s].manifests
        /\ Extends(persisted[s].revisions, store.revisions)

AllSound == Sound(store) /\ \A s \in Services : Sound(live[s]) /\ Sound(persisted[s])

IInv == /\ TypeOK /\ OpShape /\ OneSnapshotPerGeneration /\ Origins
        /\ Lineage /\ AllSound /\ AckedDurable

LEMMA ExtendsTransitive ==
    ASSUME NEW S, NEW q \in Seq(S), NEW r \in Seq(S), NEW t \in Seq(S),
           Extends(q, r), Extends(r, t)
    PROVE  Extends(q, t)
  <1>1. Len(q) \in Nat /\ Len(r) \in Nat /\ Len(t) \in Nat
    OBVIOUS
  <1>2. QED
    BY <1>1 DEF Extends

LEMMA ExtendsSelf ==
    ASSUME NEW S, NEW q \in Seq(S)
    PROVE  Extends(q, q) /\ Extends(<<>>, q)
  BY DEF Extends

LEMMA BlankFacts ==
    /\ Blank \in Snapshots /\ Sound(Blank)
    /\ Blank.generation = 0 /\ Blank.revisions = <<>> /\ Blank.manifests = {}
  <1>1. /\ Blank.generation = 0 /\ Blank.revisions = <<>> /\ Blank.manifests = {}
        /\ Blank.head = 0 /\ Blank.draft = NoDraft
    BY DEF Blank
  <1>2. ValidGraph(Blank)
    BY <1>1, FS_EmptySet, LimitsAssumption DEF ValidGraph
  <1>3. QED
    BY <1>1, <1>2, BlankType, FS_EmptySet DEF Sound

LEMMA InitIInv == Init => IInv
  <1> SUFFICES ASSUME Init PROVE IInv
    OBVIOUS
  <1>1. TypeOK /\ OpShape
    BY BlankType, NoOpType DEF Init, TypeOK, OpShape, Stages
  <1>2. store = Blank /\ acked = {} /\ \A s \in Services : live[s] = Blank /\ persisted[s] = Blank
    BY DEF Init
  <1>3. OneSnapshotPerGeneration /\ Origins /\ AckedDurable
    BY <1>2, BlankFacts DEF OneSnapshotPerGeneration, Origins, AckedDurable
  <1>4. Extends(Blank.revisions, Blank.revisions)
    BY BlankFacts DEF Extends
  <1>5. Lineage /\ AllSound
    BY <1>2, <1>4, BlankFacts DEF Lineage, AllSound
  <1>6. QED
    BY <1>1, <1>3, <1>5 DEF IInv

\* Reading a copy again: from the row, from what was read before, or empty.
LEMMA RereadStep ==
    ASSUME IInv, NEW s \in Services, Rereads(s), TypeOK', OpShape'
    PROVE  IInv'
  <1> USE DEF IInv
  <1>1. PICK p \in {store, Blank, persisted[s]} : Hydrate(s, p)
    BY DEF Rereads
  <1>2. UNCHANGED <<store, acked>>
    BY DEF Rereads
  <1>3. /\ \A t \in Services \ {s} : live'[t] = live[t] /\ persisted'[t] = persisted[t]
        /\ live'[s] = p /\ persisted'[s] = p
    BY <1>1 DEF Hydrate, TypeOK
  <1>4. p \in Snapshots /\ Sound(p)
    BY BlankFacts DEF AllSound, TypeOK
  <1>5. /\ p.generation <= store.generation
        /\ p.generation = store.generation => p = store
        /\ p.generation = 0 => p = Blank
        /\ \A t \in Services : persisted[t].generation = p.generation => persisted[t] = p
    <2>1. store.generation \in Nat /\ Blank.generation = 0
      BY BlankFacts DEF TypeOK, Snapshots
    <2>2. CASE p = store
      BY <2>1, <2>2 DEF OneSnapshotPerGeneration, Origins
    <2>3. CASE p = Blank
      BY <2>1, <2>3 DEF Origins
    <2>4. CASE p = persisted[s]
      BY <2>1, <2>4 DEF OneSnapshotPerGeneration, Origins
    <2>5. QED
      BY <2>2, <2>3, <2>4
  <1>6. Extends(p.revisions, p.revisions) /\ Extends(p.revisions, store.revisions)
    <2>1. p.revisions \in Seq(Revisions) /\ store.revisions \in Seq(Revisions)
      BY <1>4 DEF TypeOK, Snapshots
    <2>2. p = store \/ p.revisions = <<>> \/ Extends(p.revisions, store.revisions)
      BY BlankFacts DEF Lineage
    <2>3. QED
      BY <2>1, <2>2, ExtendsSelf
  <1>7. OneSnapshotPerGeneration'
    BY <1>2, <1>3, <1>5 DEF OneSnapshotPerGeneration
  <1>8. Origins'
    BY <1>2, <1>3, <1>5 DEF Origins
  <1>9. Lineage'
    BY <1>2, <1>3, <1>6 DEF Lineage
  <1>10. AllSound' /\ AckedDurable'
    BY <1>2, <1>3, <1>4 DEF AllSound, AckedDurable
  <1>11. QED
    BY <1>7, <1>8, <1>9, <1>10

\* Changing the live copy: it keeps its generation and what it had.
LEMMA EditStep ==
    ASSUME IInv, NEW s \in Services, Edits(s), TypeOK', OpShape'
    PROVE  IInv'
  <1> USE DEF IInv
  <1>1. PICK p \in Snapshots : /\ live' = [live EXCEPT ![s] = p]
                               /\ p.generation = live[s].generation
                               /\ Keeps(live[s], p)
    BY DEF Edits
  <1>2. UNCHANGED <<store, acked, persisted>>
    BY DEF Edits
  <1>3. live'[s] = p /\ \A t \in Services \ {s} : live'[t] = live[t]
    BY <1>1 DEF TypeOK
  <1>4. Extends(persisted[s].revisions, p.revisions)
    <2>1. /\ persisted[s].revisions \in Seq(Revisions) /\ live[s].revisions \in Seq(Revisions)
          /\ p.revisions \in Seq(Revisions)
      BY DEF TypeOK, Snapshots
    <2>2. Extends(persisted[s].revisions, live[s].revisions) /\ Extends(live[s].revisions, p.revisions)
      BY <1>1 DEF Lineage, Keeps
    <2>3. QED
      BY <2>1, <2>2, ExtendsTransitive
  <1>5. OneSnapshotPerGeneration' /\ Origins' /\ AckedDurable'
    BY <1>1, <1>2, <1>3 DEF OneSnapshotPerGeneration, Origins, AckedDurable
  <1>6. Lineage'
    BY <1>1, <1>2, <1>3, <1>4 DEF Lineage, Keeps
  <1>7. AllSound'
    BY <1>1, <1>2, <1>3 DEF AllSound, Keeps
  <1>8. QED
    BY <1>5, <1>6, <1>7

\* Writing the row: the writer's snapshot is the one in the row, so that what it writes
\* extends the durable history, at a generation nobody has yet.
LEMMA WriteFacts ==
    ASSUME IInv, NEW s \in Services, NEW p \in Snapshots,
           live[s].generation = store.generation, Keeps(live[s], p)
    PROVE  /\ persisted[s] = store
           /\ Extends(store.revisions, p.revisions)
           /\ store.manifests \subseteq p.manifests
           /\ Sound(p)
  <1> USE DEF IInv
  <1>1. persisted[s] = store
    BY DEF OneSnapshotPerGeneration
  <1>2. /\ store.revisions \in Seq(Revisions) /\ live[s].revisions \in Seq(Revisions)
        /\ p.revisions \in Seq(Revisions)
    BY DEF TypeOK, Snapshots
  <1>3. Extends(store.revisions, live[s].revisions) /\ Extends(live[s].revisions, p.revisions)
    BY <1>1 DEF Lineage, Keeps
  <1>4. Extends(store.revisions, p.revisions)
    BY <1>2, <1>3, ExtendsTransitive
  <1>5. QED
    BY <1>1, <1>4 DEF Lineage, Keeps, AllSound

LEMMA WriteStep ==
    ASSUME IInv, NEW s \in Services, Writes(s), TypeOK', OpShape'
    PROVE  IInv'
  <1> USE DEF IInv
  <1>1. PICK p \in Snapshots : /\ store' = p /\ Hydrate(s, p)
                               /\ p.generation > store.generation
                               /\ Keeps(live[s], p)
    BY DEF Writes
  <1>2. live[s].generation = store.generation /\ UNCHANGED acked
    BY DEF Writes
  <1>3. /\ Extends(store.revisions, p.revisions)
        /\ store.manifests \subseteq p.manifests /\ Sound(p)
    BY <1>1, <1>2, WriteFacts
  <1>4. /\ \A t \in Services \ {s} : live'[t] = live[t] /\ persisted'[t] = persisted[t]
        /\ live'[s] = p /\ persisted'[s] = p
    BY <1>1 DEF Hydrate, TypeOK
  <1>5. /\ p.generation \in Nat /\ store.generation \in Nat
        /\ \A t \in Services : /\ persisted[t].generation \in Nat
                               /\ persisted[t].generation <= store.generation
    BY DEF TypeOK, Snapshots, OneSnapshotPerGeneration
  <1>6. OneSnapshotPerGeneration'
    <2>1. ASSUME NEW t \in Services
          PROVE  /\ live'[t].generation = persisted'[t].generation
                 /\ persisted'[t].generation <= store'.generation
                 /\ persisted'[t].generation = store'.generation => persisted'[t] = store'
      BY <1>1, <1>4, <1>5 DEF OneSnapshotPerGeneration
    <2>2. ASSUME NEW t \in Services, NEW u \in Services,
                 persisted'[t].generation = persisted'[u].generation
          PROVE  persisted'[t] = persisted'[u]
      BY <2>2, <1>1, <1>4, <1>5 DEF OneSnapshotPerGeneration
    <2>3. QED
      BY <2>1, <2>2 DEF OneSnapshotPerGeneration
  <1>7. Origins'
    BY <1>1, <1>4, <1>5 DEF Origins
  <1>8. Lineage'
    <2>1. ASSUME NEW t \in Services
          PROVE  Extends(persisted'[t].revisions, store'.revisions)
      <3>1. /\ persisted[t].revisions \in Seq(Revisions) /\ store.revisions \in Seq(Revisions)
            /\ p.revisions \in Seq(Revisions)
        BY DEF TypeOK, Snapshots
      <3>2. Extends(persisted[t].revisions, p.revisions)
        BY <1>3, <3>1, ExtendsTransitive DEF Lineage
      <3>3. QED
        BY <1>1, <1>4, <3>1, <3>2, ExtendsSelf
    <2>2. p.revisions \in Seq(Revisions)
      BY DEF Snapshots
    <2>3. Extends(p.revisions, p.revisions)
      BY <2>2, ExtendsSelf
    <2>4. QED
      BY <1>4, <2>1, <2>3 DEF Lineage
  <1>9. AllSound'
    BY <1>1, <1>3, <1>4 DEF AllSound
  <1>10. AckedDurable'
    <2>0. store.revisions \in Seq(Revisions) /\ p.revisions \in Seq(Revisions)
      BY DEF TypeOK, Snapshots
    <2>1. Len(store.revisions) \in Nat /\ Len(p.revisions) \in Nat
      BY <2>0
    <2>2. ASSUME NEW r \in acked
          PROVE  r.id \in 1 .. Len(p.revisions) /\ p.revisions[r.id] = r
      <3>1. r.id \in 1 .. Len(store.revisions) /\ store.revisions[r.id] = r
        BY DEF AckedDurable
      <3>2. Len(store.revisions) <= Len(p.revisions) /\ p.revisions[r.id] = store.revisions[r.id]
        BY <1>3, <3>1 DEF Extends
      <3>3. QED
        BY <2>1, <3>1, <3>2
    <2>3. QED
      BY <1>1, <1>2, <2>2 DEF AckedDurable
  <1>11. QED
    BY <1>6, <1>7, <1>8, <1>9, <1>10

\* Answering: the acknowledged revision is the last of a snapshot that was saved.
LEMMA AnswerStep ==
    ASSUME IInv, NEW s \in Services, Answers(s), TypeOK', OpShape'
    PROVE  IInv'
  <1> USE DEF IInv
  <1> DEFINE r == Last(live[s].revisions)
  <1>1. /\ UNCHANGED <<store, live, persisted>>
        /\ acked' = acked \cup {r}
    BY DEF Answers
  <1>2. r.id \in 1 .. Len(store.revisions) /\ store.revisions[r.id] = r
    <2> DEFINE n == Len(persisted[s].revisions)
    <2>1. persisted[s].revisions \in Seq(Revisions) /\ persisted[s].revisions # <<>>
          /\ live[s] = persisted[s]
      BY DEF Answers, TypeOK, Snapshots
    <2>2. n \in Nat /\ n \in 1 .. n
      BY <2>1
    <2>3. persisted[s].revisions[n].id = n
      BY <2>2 DEF AllSound, Sound, ValidGraph
    <2>4. Extends(persisted[s].revisions, store.revisions)
      BY DEF Lineage
    <2>5. Len(store.revisions) \in Nat
      BY DEF TypeOK, Snapshots
    <2>6. n <= Len(store.revisions) /\ store.revisions[n] = persisted[s].revisions[n]
      BY <2>2, <2>4 DEF Extends
    <2>7. QED
      BY <2>1, <2>2, <2>3, <2>5, <2>6 DEF Last
  <1> HIDE DEF r
  <1>3. AckedDurable'
    BY <1>1, <1>2 DEF AckedDurable
  <1>4. OneSnapshotPerGeneration' /\ Origins' /\ Lineage' /\ AllSound'
    BY <1>1 DEF OneSnapshotPerGeneration, Origins, Lineage, AllSound
  <1>5. QED
    BY <1>3, <1>4

LEMMA IInvStep == IInv /\ [Next]_vars => IInv'
  <1> SUFFICES ASSUME IInv, [Next]_vars PROVE IInv'
    OBVIOUS
  <1>1. TypeOK' /\ OpShape'
    BY TypeStep DEF IInv
  <1>2. CASE UNCHANGED vars \/ Idles
    <2>1. UNCHANGED <<store, acked, live, persisted>>
      BY <1>2 DEF vars, Idles
    <2>2. QED
      BY <1>1, <2>1 DEF IInv, OneSnapshotPerGeneration, Origins, Lineage, AllSound, AckedDurable
  <1>3. ASSUME NEW s \in Services, Rereads(s) \/ Edits(s) \/ Writes(s) \/ Answers(s)
        PROVE  IInv'
    BY <1>1, <1>3, RereadStep, EditStep, WriteStep, AnswerStep
  <1>4. QED
    BY <1>2, <1>3, StepEffect DEF IInv

LEMMA IInvAlways == Spec => []IInv
  BY InitIInv, IInvStep, PTL DEF Spec

\* Optimistic concurrency keeps its promise: equal generations are equal projects.
THEOREM OneSnapshotAlways == Spec => []OneSnapshotPerGeneration
  <1>1. IInv => OneSnapshotPerGeneration
    BY DEF IInv
  <1>2. QED
    BY <1>1, IInvAlways, PTL

\* No tool, failure or crash leaves a project that the store would refuse.
THEOREM SnapshotsValidAlways == Spec => []SnapshotsValid
  <1>1. IInv => SnapshotsValid
    BY DEF IInv, AllSound, Sound, SnapshotsValid
  <1>2. QED
    BY <1>1, IInvAlways, PTL

\* A commit that was acknowledged survives every crash, failure and other writer.
THEOREM AckedDurableAlways == Spec => []AckedDurable
  <1>1. IInv => AckedDurable
    BY DEF IInv
  <1>2. QED
    BY <1>1, IInvAlways, PTL

\* The durable history is only ever extended.
THEOREM AppendOnlyAlways == Spec => AppendOnly
  <1> DEFINE Forward == /\ store'.generation > store.generation
                        /\ IsPrefix(store.revisions, store'.revisions)
                        /\ store.manifests \subseteq store'.manifests
  <1>1. IInv /\ [Next]_vars => [Forward]_store
    <2> SUFFICES ASSUME IInv, [Next]_vars, store' # store PROVE Forward
      OBVIOUS
    <2>a. TypeOK /\ OpShape /\ Next
      BY DEF IInv, vars
    <2>b. \/ Idles
          \/ \E s \in Services : Rereads(s) \/ Edits(s) \/ Writes(s) \/ Answers(s)
      BY <2>a, StepEffect
    <2>1. PICK s \in Services : Writes(s)
      BY <2>b DEF Idles, Rereads, Edits, Answers
    <2>2. PICK p \in Snapshots : store' = p /\ p.generation > store.generation /\ Keeps(live[s], p)
      BY <2>1 DEF Writes
    <2>3. Extends(store.revisions, p.revisions) /\ store.manifests \subseteq p.manifests
      BY <2>1, <2>2, WriteFacts DEF Writes
    <2>4. store.revisions \in Seq(Revisions) /\ p.revisions \in Seq(Revisions)
      BY DEF IInv, TypeOK, Snapshots
    <2>5. IsPrefix(store.revisions, p.revisions)
      <3> DEFINE n == Len(store.revisions)
      <3>1. n \in Nat /\ n <= Len(p.revisions)
        BY <2>3, <2>4 DEF Extends
      <3>2. SubSeq(store.revisions, 1, n) = SubSeq(p.revisions, 1, n)
        BY <2>3, <2>4, <3>1, SubSeqProperties, SeqEqual DEF Extends
      <3>3. QED
        BY <3>1, <3>2 DEF IsPrefix
    <2>6. QED
      BY <2>2, <2>3, <2>5
  <1>2. QED
    BY <1>1, IInvAlways, PTL DEF Spec, AppendOnly

-----------------------------------------------------------------------------
(* What holds while the database can be opened: every save that is refused is
   reported as a ProjectStoreError.  Then a service that is not behind the
   database shows exactly its last snapshot, or the one change it is saving. *)

Current(s) == persisted[s].generation = store.generation

\* The live copy of a service about to save the result of its tool.
Result(s) ==
    LET q == persisted[s] IN
    \/ /\ op[s].kind = "draft"
       /\ live[s] = [q EXCEPT !.draft = [base |-> q.head, spec |-> op[s].spec]]
    \/ /\ op[s].kind = "commit"
       /\ op[s].head = q.head /\ op[s].draft = q.draft
       /\ q.draft # NoDraft
       /\ Len(q.revisions) < RevisionLimit
       /\ q.revisions # <<>> => Last(q.revisions).spec # q.draft.spec
       /\ live[s] = [q EXCEPT
              !.head = Len(q.revisions) + 1,
              !.draft = [base |-> Len(q.revisions) + 1, spec |-> q.draft.spec],
              !.revisions = Append(@, [id |-> Len(q.revisions) + 1, parent |-> q.head,
                                       spec |-> q.draft.spec])]
    \/ /\ op[s].kind \notin {"draft", "commit"}
       /\ live[s].head = q.head /\ live[s].draft = q.draft
       /\ live[s].revisions = q.revisions

FaithfulAt(s) == Current(s) =>
    /\ stage[s] # "save" => live[s] = persisted[s]
    /\ stage[s] = "save" => Result(s)
    /\ op[s].kind = "draft" /\ stage[s] \in {"compile", "telemetry", "apply", "save"} =>
           op[s].head = persisted[s].head /\ op[s].draft = persisted[s].draft

Faithful == ~escaped => \A s \in Services : FaithfulAt(s)

\* What one service does leaves the others as they are.
LEMMA FaithfulOthers ==
    ASSUME IInv, NEW s \in Services, NEW t \in Services, t # s, FaithfulAt(t),
           Process(s) \/ Tool(s) \/ Step(s) \/ Persist(s) \/ Reply(s)
    PROVE  FaithfulAt(t)'
  <1>1. TypeOK /\ OpShape /\ Next
    BY DEF IInv, Next
  <1>2. /\ live'[t] = live[t] /\ persisted'[t] = persisted[t]
        /\ stage'[t] = stage[t] /\ op'[t] = op[t]
    <2>1. CASE Process(s)
      BY <1>1, <2>1 DEF Process, Start, Create, Crash, Replace, Hydrate, GoTo, Private, TypeOK
    <2>2. CASE Tool(s)
      BY <1>1, <2>2 DEF Tool, BeginSetDraft, Commit, BeginRevise, BeginRead, BeginPack, Begin, TypeOK
    <2>3. CASE Step(s)
      BY <1>1, <2>3 DEF Step, Compiled, CompileFails, CompileAborted, ApplyDraft, BlockPack, Reject,
                        ApplyPack, GoTo, TypeOK
    <2>4. CASE Persist(s)
      BY <1>1, <2>4 DEF Persist, SaveOk, SaveConflict, SaveFails, SaveEscapes, Hydrate, GoTo, TypeOK
    <2>5. CASE Reply(s)
      BY <1>1, <2>5 DEF Reply, GoTo, TypeOK
    <2>6. QED
      BY <2>1, <2>2, <2>3, <2>4, <2>5
  <1>3. Current(t)' => store' = store
    <2>1. CASE \E u \in Services : Writes(u)
      <3>1. /\ store'.generation > store.generation
            /\ store'.generation \in Nat /\ store.generation \in Nat
        BY <1>1, <2>1 DEF Writes, TypeOK, Snapshots
      <3>2. persisted[t].generation \in Nat /\ persisted[t].generation <= store.generation
        BY <1>1 DEF IInv, OneSnapshotPerGeneration, TypeOK, Snapshots
      <3>3. QED
        BY <1>2, <3>1, <3>2 DEF Current
    <2>2. CASE ~\E u \in Services : Writes(u)
      BY <1>1, <2>2, StepEffect DEF Idles, Rereads, Edits, Answers
    <2>3. QED
      BY <2>1, <2>2
  <1>4. QED
    BY <1>2, <1>3 DEF FaithfulAt, Current, Result

\* A service's own step keeps its live copy faithful.
LEMMA FaithfulOwn ==
    ASSUME IInv, NEW s \in Services, FaithfulAt(s), ~escaped',
           Process(s) \/ Tool(s) \/ Step(s) \/ Persist(s) \/ Reply(s)
    PROVE  FaithfulAt(s)'
  <1>a. TypeOK /\ OpShape /\ FaithfulAt(s)
    BY DEF IInv
  <1>b. live[s] \in Snapshots /\ persisted[s] \in Snapshots /\ op[s] \in Ops
    BY <1>a DEF TypeOK
  <1>c. ValidGraph(live[s])
    BY DEF IInv, AllSound, Sound
  <1>1. ASSUME live'[s] = persisted'[s], stage'[s] \in {"idle", "down", "create", "refailing", "reply"}
        PROVE  FaithfulAt(s)'
    BY <1>1 DEF FaithfulAt
  <1>2. CASE Process(s)
    <2>a. ASSUME NEW p, Hydrate(s, p) PROVE live'[s] = persisted'[s]
      BY <1>a, <2>a DEF Hydrate, TypeOK
    <2>1. live'[s] = persisted'[s] \/ UNCHANGED <<live, persisted>>
      BY <1>2, <2>a DEF Process, Start, Create, Crash, Replace
    <2>2. CASE Start(s)
      BY <1>a, <2>1, <2>2, NoOpType DEF Start, GoTo, Private, FaithfulAt, Current, TypeOK
    <2>3. CASE ~Start(s)
      <3>1. stage'[s] \in {"idle", "down"} /\ live'[s] = persisted'[s]
        BY <1>a, <1>2, <2>3 DEF Process, Create, Crash, Replace, Hydrate, GoTo, TypeOK
      <3>2. QED
        BY <1>1, <3>1
    <2>4. QED
      BY <2>2, <2>3
  <1>3. CASE Tool(s)
    <2>1. ASSUME Current(s) PROVE stage[s] = "idle" /\ live[s] = persisted[s]
      BY <1>a, <1>3, <2>1 DEF Tool, BeginSetDraft, Commit, BeginRevise, BeginRead, BeginPack, Begin,
                              FaithfulAt
    <2>2. UNCHANGED <<store, persisted>>
      BY <1>3 DEF Tool, BeginSetDraft, Commit, BeginRevise, BeginRead, BeginPack, Begin, Private
    <2>3. ASSUME NEW tool, Begin(s, tool, "compile"), UNCHANGED live,
                 tool.kind = "draft" => tool.head = live[s].head /\ tool.draft = live[s].draft
          PROVE  FaithfulAt(s)'
      BY <1>a, <2>1, <2>2, <2>3 DEF Begin, FaithfulAt, Current, TypeOK
    <2>4. ASSUME NEW spec \in Specs, NEW head \in 0 .. RevisionLimit, NEW draft \in Named,
                 BeginSetDraft(s, spec, head, draft)
          PROVE  FaithfulAt(s)'
      <3> DEFINE tool == [NoOp EXCEPT !.kind = "draft", !.spec = spec, !.head = head,
                                      !.draft = draft]
      <3>1. tool.head = head /\ tool.draft = draft
        BY DEF NoOp
      <3> HIDE DEF tool
      <3>2. Begin(s, tool, "compile") /\ UNCHANGED live /\ head = live[s].head /\ draft = live[s].draft
        BY <2>4 DEF BeginSetDraft, tool
      <3>3. QED
        BY <2>3, <3>1, <3>2
    <2>5. ASSUME NEW spec \in Specs, NEW draft \in Named, BeginRevise(s, spec, draft)
          PROVE  FaithfulAt(s)'
      <3> DEFINE tool == [NoOp EXCEPT !.kind = "draft", !.spec = spec, !.head = draft.base,
                                      !.draft = draft]
      <3>1. tool.head = draft.base /\ tool.draft = draft
        BY DEF NoOp
      <3> HIDE DEF tool
      <3>2. Begin(s, tool, "compile") /\ UNCHANGED live /\ draft # NoDraft /\ draft = live[s].draft
        BY <2>5 DEF BeginRevise, tool
      <3>3. draft.base = live[s].head
        BY <1>c, <3>2 DEF ValidGraph
      <3>4. QED
        BY <2>3, <3>1, <3>2, <3>3
    <2>6. ASSUME NEW kind \in {"inspect", "validate"}, BeginRead(s, kind)
          PROVE  FaithfulAt(s)'
      <3> DEFINE tool == [NoOp EXCEPT !.kind = kind]
      <3>1. tool.kind # "draft"
        BY DEF NoOp
      <3> HIDE DEF tool
      <3>2. Begin(s, tool, "compile") /\ UNCHANGED live
        BY <2>6 DEF BeginRead, tool
      <3>3. QED
        BY <2>3, <3>1, <3>2
    <2>7. ASSUME NEW revision \in 1 .. RevisionLimit, BeginPack(s, revision)
          PROVE  FaithfulAt(s)'
      <3> DEFINE tool == [NoOp EXCEPT !.kind = "pack", !.revision = revision]
      <3>1. tool.kind # "draft"
        BY DEF NoOp
      <3> HIDE DEF tool
      <3>2. Begin(s, tool, "compile") /\ UNCHANGED live
        BY <2>7 DEF BeginPack, tool
      <3>3. QED
        BY <2>3, <3>1, <3>2
    <2>8. ASSUME NEW head \in 0 .. RevisionLimit, NEW draft \in Named, Commit(s, head, draft)
          PROVE  FaithfulAt(s)'
      <3> DEFINE tool == [NoOp EXCEPT !.kind = "commit", !.head = head, !.draft = draft]
      <3>1. tool.kind = "commit" /\ tool.head = head /\ tool.draft = draft
        BY DEF NoOp
      <3> HIDE DEF tool
      <3>2. /\ op'[s] = tool /\ stage'[s] = "save"
            /\ head = live[s].head /\ draft = live[s].draft /\ draft # NoDraft
            /\ live[s].revisions # <<>> => Last(live[s].revisions).spec # draft.spec
            /\ Len(live[s].revisions) < RevisionLimit
            /\ live'[s] = [live[s] EXCEPT
                   !.head = Len(live[s].revisions) + 1,
                   !.draft = [base |-> Len(live[s].revisions) + 1, spec |-> draft.spec],
                   !.revisions = Append(@, [id |-> Len(live[s].revisions) + 1,
                                            parent |-> head, spec |-> draft.spec])]
        BY <1>a, <1>b, <2>8 DEF Commit, Begin, tool, TypeOK
      <3>3. ASSUME Current(s) PROVE Result(s)'
        <4> DEFINE q == persisted'[s]
        <4>1. live[s] = q
          BY <2>1, <2>2, <3>3
        <4> HIDE DEF q
        <4>2. /\ op'[s].kind = "commit" /\ op'[s].head = q.head /\ op'[s].draft = q.draft
              /\ q.draft # NoDraft /\ Len(q.revisions) < RevisionLimit
              /\ q.revisions # <<>> => Last(q.revisions).spec # q.draft.spec
          BY <3>1, <3>2, <4>1
        <4>3. live'[s] = [q EXCEPT
                  !.head = Len(q.revisions) + 1,
                  !.draft = [base |-> Len(q.revisions) + 1, spec |-> q.draft.spec],
                  !.revisions = Append(@, [id |-> Len(q.revisions) + 1, parent |-> q.head,
                                           spec |-> q.draft.spec])]
          BY <3>2, <4>1
        <4>4. QED
          BY <4>2, <4>3 DEF Result, q
      <3>4. QED
        BY <2>2, <3>1, <3>2, <3>3 DEF FaithfulAt, Current
    <2>9. QED
      BY <1>3, <2>4, <2>5, <2>6, <2>7, <2>8 DEF Tool
  <1>4. CASE Step(s)
    <2>1. UNCHANGED <<store, persisted>>
      BY <1>4 DEF Step, Compiled, CompileFails, CompileAborted, ApplyDraft, BlockPack, Reject,
                  ApplyPack, Private
    <2>2. CASE Compiled(s)
      BY <1>a, <2>1, <2>2 DEF Compiled, Changed, GoTo, FaithfulAt, Current, Result, OpShape, TypeOK
    <2>3. CASE CompileFails(s) \/ CompileAborted(s) \/ Reject(s)
      BY <1>a, <2>1, <2>3, NoOpType DEF CompileFails, CompileAborted, AfterError, Reject, GoTo, FaithfulAt,
                              Current, TypeOK
    <2>4. CASE ApplyDraft(s)
      <3>1. /\ stage[s] = "apply" /\ op[s].kind = "draft" /\ stage'[s] = "save" /\ op' = op
            /\ live'[s] = [live[s] EXCEPT !.draft = [base |-> live[s].head, spec |-> op[s].spec]]
        BY <1>a, <2>4 DEF ApplyDraft, GoTo, TypeOK
      <3>2. QED
        BY <1>a, <2>1, <3>1 DEF FaithfulAt, Current, Result
    <2>5. CASE BlockPack(s) \/ \E build \in Builds : ApplyPack(s, build)
      <3>1. /\ stage[s] = "apply" /\ op[s].kind = "pack" /\ stage'[s] = "save" /\ op' = op
            /\ live'[s].head = live[s].head /\ live'[s].draft = live[s].draft
            /\ live'[s].revisions = live[s].revisions
        BY <1>a, <1>b, <2>5 DEF BlockPack, ApplyPack, GoTo, TypeOK, Snapshots
      <3>2. QED
        BY <1>a, <2>1, <3>1 DEF FaithfulAt, Current, Result
    <2>6. QED
      BY <1>4, <2>2, <2>3, <2>4, <2>5 DEF Step
  <1>5. CASE Persist(s)
    <2>1. CASE SaveOk(s)
      <3>1. /\ live'[s] = persisted'[s] /\ stage'[s] = AfterSave(s) /\ Saving(s)
            /\ live[s].generation = store.generation
            /\ persisted'[s] = [live[s] EXCEPT !.generation = @ + 1]
        BY <1>a, <2>1 DEF SaveOk, Hydrate, GoTo, TypeOK
      <3>2. CASE stage[s] = "telemetry"
        <4>1. stage'[s] = "apply" /\ op' = op
          BY <2>1, <3>1, <3>2 DEF SaveOk, AfterSave, GoTo
        <4>2. Current(s)
          BY <3>1 DEF IInv, OneSnapshotPerGeneration, Current
        <4>3. persisted'[s].head = persisted[s].head /\ persisted'[s].draft = persisted[s].draft
          BY <1>a, <1>b, <3>1, <3>2, <4>2, NextGeneration DEF FaithfulAt
        <4>4. QED
          BY <1>a, <3>1, <3>2, <4>1, <4>2, <4>3 DEF FaithfulAt
      <3>3. CASE stage[s] # "telemetry"
        <4>1. stage'[s] \in {"idle", "refailing", "reply"}
          BY <3>1, <3>3 DEF Saving, AfterSave, AfterError
        <4>2. QED
          BY <1>1, <3>1, <4>1
      <3>4. QED
        BY <3>2, <3>3
    <2>2. CASE SaveConflict(s)
      <3>1. stage'[s] \in {"idle", "refailing"} /\ store' = store
        BY <1>a, <2>2 DEF SaveConflict, AfterRaise, AfterError, GoTo, Private, TypeOK
      <3>2. \/ live'[s] = persisted'[s]
            \/ persisted' = persisted /\ ~Current(s)
        BY <1>a, <2>2 DEF SaveConflict, Hydrate, TypeOK, IInv, OneSnapshotPerGeneration, Current
      <3>3. QED
        BY <1>1, <3>1, <3>2 DEF FaithfulAt, Current
    <2>3. CASE SaveFails(s)
      <3>1. stage'[s] \in {"idle", "refailing"} /\ live'[s] = persisted'[s]
        BY <1>a, <2>3 DEF SaveFails, Hydrate, AfterRaise, AfterError, GoTo, TypeOK
      <3>2. QED
        BY <1>1, <3>1
    <2>4. CASE SaveEscapes(s)
      BY <2>4 DEF SaveEscapes
    <2>5. QED
      BY <1>5, <2>1, <2>2, <2>3, <2>4 DEF Persist
  <1>6. CASE Reply(s)
    <2>1. stage'[s] = "idle" /\ live'[s] = persisted'[s]
      BY <1>a, <1>6 DEF Reply, GoTo, OpShape, TypeOK
    <2>2. QED
      BY <1>1, <2>1
  <1>7. QED
    BY <1>2, <1>3, <1>4, <1>5, <1>6

\* An error that escaped stays escaped.
LEMMA EscapedStays == ASSUME [Next]_vars, escaped PROVE escaped'
  <1>1. CASE UNCHANGED vars
    BY <1>1 DEF vars
  <1>2. ASSUME NEW s \in Services,
               Process(s) \/ Tool(s) \/ Step(s) \/ Persist(s) \/ Reply(s)
        PROVE  escaped'
    BY <1>2 DEF Process, Start, Create, Crash, Replace, Tool, BeginSetDraft, Commit,
                BeginRevise, BeginRead, BeginPack, Begin, Step, Compiled, CompileFails,
                CompileAborted, ApplyDraft, BlockPack, Reject, ApplyPack, Persist, SaveOk,
                SaveConflict, SaveFails, SaveEscapes, Reply, GoTo
  <1>3. QED
    BY <1>1, <1>2 DEF Next

LEMMA FaithfulAlways == Spec => [](IInv /\ Faithful)
  <1>1. Init => Faithful
    BY NoOpType DEF Init, Faithful, FaithfulAt
  <1>2. IInv /\ Faithful /\ [Next]_vars => Faithful'
    <2> SUFFICES ASSUME IInv, Faithful, [Next]_vars, ~escaped', NEW t \in Services
                 PROVE  FaithfulAt(t)'
      BY DEF Faithful
    <2>0. \A s \in Services : FaithfulAt(s)
      BY EscapedStays DEF Faithful
    <2>1. CASE UNCHANGED vars
      BY <2>0, <2>1 DEF vars, FaithfulAt, Current, Result
    <2>2. ASSUME NEW s \in Services,
                 Process(s) \/ Tool(s) \/ Step(s) \/ Persist(s) \/ Reply(s)
          PROVE  FaithfulAt(t)'
      BY <2>0, <2>2, FaithfulOwn, FaithfulOthers
    <2>3. QED
      BY <2>1, <2>2 DEF Next
  <1>3. QED
    BY <1>1, <1>2, InitIInv, IInvStep, PTL DEF Spec

\* A refused change that a service still shows cannot become durable.
THEOREM PhantomsAreStaleAlways == Spec => []PhantomsAreStale
  <1>1. IInv /\ Faithful => PhantomsAreStale
    <2> SUFFICES ASSUME IInv, Faithful, ~escaped, NEW s \in Services,
                        stage[s] = "idle", live[s] # persisted[s]
                 PROVE  persisted[s].generation < store.generation
      BY DEF PhantomsAreStale
    <2>1. ~Current(s)
      BY DEF Faithful, FaithfulAt
    <2>2. /\ persisted[s].generation \in Nat /\ store.generation \in Nat
          /\ persisted[s].generation <= store.generation
      BY DEF IInv, TypeOK, Snapshots, OneSnapshotPerGeneration
    <2>3. QED
      BY <2>1, <2>2 DEF Current
  <1>2. QED
    BY <1>1, FaithfulAlways, PTL

\* The four ways the row changes: telemetry or manifests only, a new draft, a commit, and
\* the replacement of a blank project.
KeepsProject == /\ store'.head = store.head /\ store'.draft = store.draft
                /\ store'.revisions = store.revisions

Expected(s) == /\ stage[s] = "save" /\ stage'[s] = "reply"
               /\ op[s].head = store.head /\ op[s].draft = store.draft

StoresDraft(s) == /\ op[s].kind = "draft" /\ op[s].spec \in Specs
                  /\ store'.draft = [base |-> store.head, spec |-> op[s].spec]
                  /\ store'.revisions = store.revisions

StoresRevision(s) ==
    LET n == Len(store.revisions) IN
    /\ op[s].kind = "commit" /\ store.draft # NoDraft
    /\ n < RevisionLimit
    /\ store.revisions # <<>> => Last(store.revisions).spec # store.draft.spec
    /\ store'.draft = [base |-> n + 1, spec |-> store.draft.spec]
    /\ store'.revisions = Append(store.revisions,
                                 [id |-> n + 1, parent |-> store.head,
                                  spec |-> store.draft.spec])

Installs == store = Blank /\ store'.draft = NoDraft

LEMMA StoreChange ==
    ASSUME IInv, Faithful, ~escaped, Next, store' # store
    PROVE  \/ KeepsProject \/ Installs
           \/ \E s \in Services : Expected(s) /\ (StoresDraft(s) \/ StoresRevision(s))
  <1> DEFINE Goal == \/ KeepsProject \/ Installs
                     \/ \E s \in Services : Expected(s) /\ (StoresDraft(s) \/ StoresRevision(s))
  <1>a. TypeOK /\ OpShape
    BY DEF IInv
  <1>1. PICK s \in Services :
            \/ SaveOk(s)
            \/ \E specs \in BoundedSeq(Specs, RevisionLimit), generation \in 1 .. MaxGeneration :
                   Replace(s, specs, generation)
    <2>1. PICK s \in Services : Process(s) \/ Tool(s) \/ Step(s) \/ Persist(s) \/ Reply(s)
      BY DEF Next
    <2>2. ~Tool(s) /\ ~Step(s) /\ ~Reply(s)
      BY DEF Tool, BeginSetDraft, Commit, BeginRevise, BeginRead, BeginPack, Begin, Step, Compiled,
             CompileFails, CompileAborted, ApplyDraft, BlockPack, Reject, ApplyPack, Reply, Private
    <2>3. ~Start(s) /\ ~Create(s) /\ ~Crash(s) /\ ~SaveConflict(s) /\ ~SaveFails(s) /\ ~SaveEscapes(s)
      BY DEF Start, Create, Crash, SaveConflict, SaveFails, SaveEscapes, Private
    <2>4. QED
      BY <2>1, <2>2, <2>3 DEF Process, Persist
  <1>b. live[s] \in Snapshots /\ persisted[s] \in Snapshots /\ op[s] \in Ops
    BY <1>a DEF TypeOK
  <1>2. ASSUME NEW specs, NEW generation, Replace(s, specs, generation)
        PROVE  Installs
    <2>1. store = Blank
      BY <1>2 DEF Replace, IInv, Origins
    <2>2. store'.draft = NoDraft
      BY <1>2 DEF Replace, Blank
    <2>3. QED
      BY <2>1, <2>2 DEF Installs
  <1>3. CASE SaveOk(s)
    <2>1. /\ live[s].generation = store.generation /\ Saving(s)
          /\ store' = [live[s] EXCEPT !.generation = @ + 1]
          /\ stage'[s] = AfterSave(s)
      BY <1>a, <1>3 DEF SaveOk, GoTo, TypeOK
    <2>2. /\ store'.head = live[s].head /\ store'.draft = live[s].draft
          /\ store'.revisions = live[s].revisions
      BY <1>b, <2>1, NextGeneration
    <2>3. persisted[s] = store /\ Current(s)
      BY <2>1 DEF IInv, OneSnapshotPerGeneration, Current
    <2>4. FaithfulAt(s)
      BY DEF Faithful
    <2>5. CASE stage[s] # "save"
      BY <2>2, <2>3, <2>4, <2>5 DEF FaithfulAt, KeepsProject
    <2>6. CASE stage[s] = "save"
      <3>1. stage'[s] = "reply"
        BY <2>1, <2>6 DEF AfterSave
      <3>2. Result(s)
        BY <2>3, <2>4, <2>6 DEF FaithfulAt
      <3>3. CASE op[s].kind = "draft"
        <4>1. live[s] = [store EXCEPT !.draft = [base |-> store.head, spec |-> op[s].spec]]
          BY <2>3, <3>2, <3>3 DEF Result
        <4>2. store \in Snapshots
          BY <1>a DEF TypeOK
        <4>3. /\ live[s].draft = [base |-> store.head, spec |-> op[s].spec]
              /\ live[s].revisions = store.revisions
          BY <4>1, <4>2 DEF Snapshots
        <4>4. Expected(s)
          BY <2>3, <2>4, <2>6, <3>1, <3>3 DEF FaithfulAt, Expected
        <4>5. op[s].spec \in Specs
          BY <1>a, <3>3 DEF OpShape
        <4>6. QED
          BY <2>2, <3>3, <4>3, <4>4, <4>5 DEF StoresDraft
      <3>4. CASE op[s].kind = "commit"
        <4> DEFINE n == Len(store.revisions)
                   d == [base |-> n + 1, spec |-> store.draft.spec]
                   r == [id |-> n + 1, parent |-> store.head, spec |-> store.draft.spec]
        <4>1. /\ op[s].head = store.head /\ op[s].draft = store.draft
              /\ store.draft # NoDraft /\ n < RevisionLimit
              /\ store.revisions # <<>> => Last(store.revisions).spec # store.draft.spec
              /\ live[s] = [store EXCEPT !.head = n + 1, !.draft = d,
                                         !.revisions = Append(@, r)]
          BY <2>3, <3>2, <3>4 DEF Result
        <4>2. store \in Snapshots
          BY <1>a DEF TypeOK
        <4> HIDE DEF d, r
        <4>3. live[s].draft = d /\ live[s].revisions = Append(store.revisions, r)
          BY <4>1, <4>2 DEF Snapshots
        <4>4. QED
          BY <2>2, <2>6, <3>1, <3>4, <4>1, <4>3 DEF StoresRevision, Expected, d, r
      <3>5. CASE op[s].kind \notin {"draft", "commit"}
        BY <2>2, <2>3, <3>2, <3>5 DEF Result, KeepsProject
      <3>6. QED
        BY <3>3, <3>4, <3>5
    <2>7. QED
      BY <2>5, <2>6
  <1>4. QED
    BY <1>1, <1>2, <1>3

\* No caller's change to the head or the draft is overwritten unseen.
THEOREM NoLostUpdateAlways == Spec => NoLostUpdate
  <1> DEFINE Seen == \/ escaped
                     \/ store'.head = store.head /\ store'.draft = store.draft
                     \/ store.generation = 0 /\ store.head = 0 /\ store.draft = NoDraft
                     \/ \E s \in Services : /\ stage[s] = "save" /\ stage'[s] = "reply"
                                            /\ op[s].kind \in {"draft", "commit"}
                                            /\ op[s].head = store.head
                                            /\ op[s].draft = store.draft
  <1>1. IInv /\ Faithful /\ [Next]_vars => [Seen]_store
    <2> SUFFICES ASSUME IInv, Faithful, [Next]_vars, store' # store, ~escaped PROVE Seen
      OBVIOUS
    <2>1. \/ KeepsProject \/ Installs
          \/ \E s \in Services : Expected(s) /\ (StoresDraft(s) \/ StoresRevision(s))
      BY StoreChange DEF vars
    <2>2. Blank.generation = 0 /\ Blank.head = 0 /\ Blank.draft = NoDraft
      BY DEF Blank
    <2>3. QED
      BY <2>1, <2>2 DEF KeepsProject, Installs, Expected, StoresDraft, StoresRevision
  <1>2. QED
    BY <1>1, FaithfulAlways, PTL DEF Spec, NoLostUpdate

-----------------------------------------------------------------------------
(* The durable project as one log *)

\* What the log sees of a row.
SpecsOf(revisions) == [i \in 1 .. Len(revisions) |-> revisions[i].spec]
DraftOf(draft) == IF draft = NoDraft THEN NoSpec ELSE draft.spec

LEMMA SpecsOfFacts ==
    ASSUME NEW q \in Seq(Revisions)
    PROVE  /\ SpecsOf(q) \in Seq(Specs) /\ Len(SpecsOf(q)) = Len(q)
           /\ \A i \in 1 .. Len(q) : SpecsOf(q)[i] = q[i].spec
           /\ q = <<>> <=> SpecsOf(q) = <<>>
  <1>1. Len(q) \in Nat /\ \A i \in 1 .. Len(q) : q[i] \in Revisions
    OBVIOUS
  <1>2. \A i \in 1 .. Len(q) : q[i].spec \in Specs
    BY <1>1 DEF Revisions
  <1>3. SpecsOf(q) \in Seq(Specs) /\ Len(SpecsOf(q)) = Len(q)
    BY <1>1, <1>2 DEF SpecsOf
  <1>4. \A i \in 1 .. Len(q) : SpecsOf(q)[i] = q[i].spec
    BY DEF SpecsOf
  <1>5. q = <<>> <=> SpecsOf(q) = <<>>
    BY <1>3, EmptySeq
  <1>6. QED
    BY <1>3, <1>4, <1>5

LEMMA SpecsOfAppend ==
    ASSUME NEW q \in Seq(Revisions), NEW r \in Revisions
    PROVE  SpecsOf(Append(q, r)) = Append(SpecsOf(q), r.spec)
  <1> DEFINE left == SpecsOf(Append(q, r))
             right == Append(SpecsOf(q), r.spec)
  <1>1. r.spec \in Specs
    BY DEF Revisions
  <1>2. /\ Append(q, r) \in Seq(Revisions) /\ Len(Append(q, r)) = Len(q) + 1
        /\ Append(q, r)[Len(q) + 1] = r
        /\ \A i \in 1 .. Len(q) : Append(q, r)[i] = q[i]
    OBVIOUS
  <1>3. left \in Seq(Specs) /\ Len(left) = Len(q) + 1
    BY <1>2, SpecsOfFacts
  <1>4. SpecsOf(q) \in Seq(Specs) /\ Len(SpecsOf(q)) = Len(q) /\ Len(q) \in Nat
    BY SpecsOfFacts
  <1>5. /\ right \in Seq(Specs) /\ Len(right) = Len(q) + 1
        /\ right[Len(q) + 1] = r.spec
        /\ \A i \in 1 .. Len(q) : right[i] = SpecsOf(q)[i]
    BY <1>1, <1>4
  <1>6. \A i \in 1 .. Len(q) + 1 : left[i] = right[i]
    <2> SUFFICES ASSUME NEW i \in 1 .. Len(q) + 1 PROVE left[i] = right[i]
      OBVIOUS
    <2>1. left[i] = Append(q, r)[i].spec
      BY <1>2, SpecsOfFacts
    <2>2. CASE i = Len(q) + 1
      BY <1>2, <1>5, <2>1, <2>2
    <2>3. CASE i \in 1 .. Len(q)
      BY <1>2, <1>5, <2>1, <2>3, SpecsOfFacts
    <2>4. QED
      BY <1>4, <2>2, <2>3
  <1>7. QED
    BY <1>3, <1>5, <1>6, SeqEqual

\* However many services share the store, whatever crashes or is refused: until a
\* refused save goes unreported, the durable project is one linear log.
THEOREM Refinement == Spec => ImplementsLog
  <1> DEFINE history == SpecsOf(store.revisions)
             draft == DraftOf(store.draft)
  <1>1. Init => Log!Init
    <2> SUFFICES ASSUME Init PROVE Log!Init
      OBVIOUS
    <2>1. store.revisions = <<>> /\ store.draft = NoDraft
      BY DEF Init, Blank
    <2>2. <<>> \in Seq(Revisions)
      OBVIOUS
    <2>3. history = <<>> /\ draft = NoSpec
      BY <2>1, <2>2, SpecsOfFacts DEF DraftOf
    <2>4. QED
      BY <2>3 DEF Log!Init, SpecsOf, DraftOf, History, DraftSpec
  <1>2. IInv /\ Faithful /\ ~escaped /\ [Next]_vars =>
            \/ \E spec \in Specs : draft' = spec /\ history' = history
            \/ /\ draft # NoSpec /\ Len(history) < RevisionLimit
               /\ history # <<>> => history[Len(history)] # draft
               /\ history' = Append(history, draft) /\ draft' = draft
            \/ /\ history = <<>> /\ draft = NoSpec
               /\ history' \in Seq(Specs) /\ draft' = draft
            \/ history' = history /\ draft' = draft
    <2> SUFFICES ASSUME IInv, Faithful, ~escaped, [Next]_vars
                 PROVE  \/ \E spec \in Specs : draft' = spec /\ history' = history
                        \/ /\ draft # NoSpec /\ Len(history) < RevisionLimit
                           /\ history # <<>> => history[Len(history)] # draft
                           /\ history' = Append(history, draft) /\ draft' = draft
                        \/ /\ history = <<>> /\ draft = NoSpec
                           /\ history' \in Seq(Specs) /\ draft' = draft
                        \/ history' = history /\ draft' = draft
      OBVIOUS
    <2>a. /\ store.revisions \in Seq(Revisions) /\ store'.revisions \in Seq(Revisions)
          /\ store.draft \in Drafts \cup {NoDraft} /\ store.head \in Nat
      <3>1. store \in Snapshots /\ store' \in Snapshots
        BY IInvStep DEF IInv, TypeOK
      <3>2. QED
        BY <3>1 DEF Snapshots
    <2>b. \A base \in Nat, spec \in Specs :
              DraftOf([base |-> base, spec |-> spec]) = spec
      BY NullsAssumption DEF DraftOf
    <2>1. CASE store' = store
      BY <2>1
    <2>2. CASE store' # store
      <3>1. \/ KeepsProject \/ Installs
            \/ \E s \in Services : Expected(s) /\ (StoresDraft(s) \/ StoresRevision(s))
        BY <2>2, StoreChange DEF vars
      <3>2. CASE KeepsProject
        BY <3>2 DEF KeepsProject
      <3>3. CASE Installs
        <4>1. store.revisions = <<>> /\ store.draft = NoDraft
          BY <3>3 DEF Installs, Blank
        <4>2. history = <<>> /\ draft = NoSpec /\ draft' = NoSpec
          BY <2>a, <3>3, <4>1, SpecsOfFacts DEF Installs, DraftOf
        <4>3. history' \in Seq(Specs)
          BY <2>a, SpecsOfFacts
        <4>4. QED
          BY <4>2, <4>3
      <3>4. ASSUME NEW s \in Services, StoresDraft(s)
            PROVE  \E spec \in Specs : draft' = spec /\ history' = history
        BY <2>a, <2>b, <3>4 DEF StoresDraft
      <3>5. ASSUME NEW s \in Services, StoresRevision(s)
            PROVE  /\ draft # NoSpec /\ Len(history) < RevisionLimit
                   /\ history # <<>> => history[Len(history)] # draft
                   /\ history' = Append(history, draft) /\ draft' = draft
        <4> DEFINE n == Len(store.revisions)
                   r == [id |-> n + 1, parent |-> store.head, spec |-> store.draft.spec]
        <4>1. n \in Nat
          BY <2>a
        <4>2. store.draft.spec \in Specs /\ draft = store.draft.spec
          BY <2>a, <3>5 DEF StoresRevision, Drafts, DraftOf
        <4>3. r \in Revisions /\ r.spec = store.draft.spec
          BY <2>a, <4>1, <4>2 DEF Revisions
        <4>4. Len(history) = n
          BY <2>a, SpecsOfFacts
        <4>5. /\ n < RevisionLimit
              /\ store'.draft = [base |-> n + 1, spec |-> store.draft.spec]
              /\ store'.revisions = Append(store.revisions, r)
              /\ store.revisions # <<>> => Last(store.revisions).spec # store.draft.spec
          BY <3>5 DEF StoresRevision
        <4> HIDE DEF r
        <4>6. history' = Append(history, draft)
          BY <2>a, <4>2, <4>3, <4>5, SpecsOfAppend
        <4>7. draft' = draft
          <5>1. n + 1 \in Nat /\ store.draft.spec \in Specs
            BY <4>1, <4>2
          <5>2. DraftOf([base |-> n + 1, spec |-> store.draft.spec]) = store.draft.spec
            <6> HIDE DEF n
            <6>1. QED
              BY <2>b, <5>1
          <5>3. QED
            BY <4>2, <4>5, <5>2
        <4>8. draft # NoSpec
          BY <4>2, NullsAssumption
        <4>9. history # <<>> => history[Len(history)] # draft
          <5> SUFFICES ASSUME history # <<>> PROVE history[n] # draft
            BY <4>4
          <5>1. store.revisions # <<>>
            BY <2>a, SpecsOfFacts
          <5>2. n \in 1 .. n
            BY <2>a, <4>1, <5>1, EmptySeq
          <5>3. history[n] = Last(store.revisions).spec
            BY <2>a, <5>2, SpecsOfFacts DEF Last
          <5>4. QED
            BY <4>2, <4>5, <5>1, <5>3
        <4>10. QED
          BY <4>4, <4>5, <4>6, <4>7, <4>8, <4>9
      <3>6. QED
        BY <3>1, <3>2, <3>3, <3>4, <3>5
    <2>3. QED
      BY <2>1, <2>2
  <1>3. IInv /\ Faithful /\ [Next]_vars =>
            [~escaped => Log!Next]_<<History, DraftSpec>>
    <2>1. history = History /\ draft = DraftSpec
      BY DEF History, DraftSpec, SpecsOf, DraftOf
    <2>2. history' = History' /\ draft' = DraftSpec'
      BY DEF History, DraftSpec, SpecsOf, DraftOf
    <2> HIDE DEF history, draft
    <2>3. QED
      BY <1>2, <2>1, <2>2 DEF Log!Next, Log!SetDraft, Log!Commit, Log!Install
  <1>4. QED
    BY <1>1, <1>3, FaithfulAlways, PTL DEF Spec, ImplementsLog

(* What the run checks of the history: one snapshot for a generation, wherever  *)
(* its copies are, every one of them valid, and an acknowledged snapshot still  *)
(* in the file, for any services, specifications, limits and faults.            *)
THEOREM HistorySoundAlways == Spec => []HistorySound
  <1>1. TypeOK /\ OneSnapshotPerGeneration /\ SnapshotsValid /\ AckedDurable => HistorySound
    BY DEF HistorySound
  <1>2. QED
    BY <1>1, TypeCorrect, OneSnapshotAlways, SnapshotsValidAlways, AckedDurableAlways, PTL
=============================================================================
