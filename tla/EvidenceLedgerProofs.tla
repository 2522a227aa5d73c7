------------------------- MODULE EvidenceLedgerProofs -------------------------
(***************************************************************************)
(* The transactions of EvidenceLedger keep a case valid: what they accept, *)
(* the replay of the whole ledger accepts, for every root, every caller    *)
(* and arguments of any kind.                                              *)
(***************************************************************************)
EXTENDS EvidenceLedger, FiniteSetTheorems, SequenceTheorems, WellFoundedInduction, TLAPS

-----------------------------------------------------------------------------
(* Databases that transactions make *)

IsSeq(q) == q \in Seq({q[i] : i \in DOMAIN q})

IsCase(c) == c = [head |-> c.head, source |-> c.source, commitments |-> c.commitments,
                  judged |-> c.judged, attempt |-> c.attempt, result |-> c.result]

\* A database is valid, or there is no case yet and nothing else; no two rows share an id,
\* which the schema's primary keys see to.
Sound(db) ==
    /\ db = Database(db.case, db.revisions, db.runs, db.events)
    /\ IsSeq(db.events)
    /\ \A v, w \in db.revisions : v.id = w.id => v = w
    /\ \A u, w \in db.runs : u.id = w.id => u = w
    /\ \/ db = NoDatabase
       \/ db.case.head # None /\ IsCase(db.case) /\ ValidCase(db)

LEMMA DatabaseFields ==
    ASSUME NEW c, NEW v, NEW u, NEW e
    PROVE  /\ Database(c, v, u, e).case = c /\ Database(c, v, u, e).revisions = v
           /\ Database(c, v, u, e).runs = u /\ Database(c, v, u, e).events = e
  BY DEF Database

LEMMA EmptySound == Sound(NoDatabase)
  <1>1. /\ NoDatabase.case = NoCase /\ NoDatabase.revisions = {} /\ NoDatabase.runs = {}
        /\ NoDatabase.events = <<>>
    BY DEF NoDatabase, Database
  <1>2. IsSeq(<<>>)
    BY DEF IsSeq
  <1>3. QED BY <1>1, <1>2 DEF Sound, NoDatabase

LEMMA SeqFacts ==
    ASSUME NEW q, IsSeq(q)
    PROVE  /\ Len(q) \in Nat /\ DOMAIN q = 1 .. Len(q)
           /\ \A i \in 1 .. Len(q) : i \in Nat /\ i < Len(q) + 1
  BY DEF IsSeq

LEMMA AppendSeq ==
    ASSUME NEW q, IsSeq(q), NEW e
    PROVE  LET t == Append(q, e) IN
           /\ IsSeq(t) /\ Len(t) = Len(q) + 1
           /\ \A i \in 1 .. Len(q) : t[i] = q[i]
           /\ t[Len(q) + 1] = e
  <1> DEFINE S == {q[i] : i \in DOMAIN q} \cup {e}
             t == Append(q, e)
  <1>1. q \in Seq(S)
    BY DEF IsSeq
  <1>2. /\ t \in Seq(S) /\ Len(t) = Len(q) + 1
        /\ \A i \in 1 .. Len(q) : t[i] = q[i]
        /\ t[Len(q) + 1] = e
    BY <1>1, AppendProperties
  <1> HIDE DEF t, S
  <1>3. t \in Seq({t[i] : i \in DOMAIN t})
    BY <1>2
  <1>4. QED BY <1>2, <1>3 DEF IsSeq, t

-----------------------------------------------------------------------------
(* Reading a ledger *)

LEMMA PlacesFacts ==
    ASSUME NEW db, IsSeq(db.events)
    PROVE  /\ \A types : Places(db, types) \subseteq 1 .. Len(db.events)
           /\ \A types, i \in 1 .. Len(db.events) :
                  i \in Places(db, types) <=> db.events[i].type \in types
  BY SeqFacts DEF Places

\* The last place of a set of places.
LEMMA LastPlace ==
    ASSUME NEW n \in Nat, NEW T, T \subseteq 1 .. n, T # {}
    PROVE  \E j \in T : \A k \in T : k <= j
  <1> DEFINE D == {n - j : j \in T}
  <1>1. D \subseteq Nat /\ D # {}
    <2>1. \A j \in T : n - j \in Nat
      OBVIOUS
    <2>2. QED BY <2>1
  <1>2. PICK d \in D : \A e \in D : ~(<<e, d>> \in OpToRel(<, Nat))
    BY <1>1, NatLessThanWellFounded, WFMin
  <1>3. PICK j \in T : d = n - j
    OBVIOUS
  <1>4. ASSUME NEW k \in T PROVE k <= j
    <2>1. n - k \in D /\ n - k \in Nat /\ d \in Nat
      BY <1>1
    <2>2. ~(<<n - k, d>> \in {p \in Nat \X Nat : p[1] < p[2]})
      BY <1>2, <2>1 DEF OpToRel
    <2>3. ~(n - k < d)
      BY <2>1, <2>2
    <2>4. k \in Nat /\ j \in Nat
      OBVIOUS
    <2>5. QED BY <1>3, <2>3, <2>4
  <1>5. QED BY <1>4

\* The places of the revision events before place i.
Before(db, i) == {j \in RevisionPlaces(db) : j < i}

\* The head before place i is the revision of the last revision event before i.
LEMMA HeadFacts ==
    ASSUME NEW db, IsSeq(db.events), NEW i
    PROVE  /\ Before(db, i) = {} => HeadBefore(db, i) = Root
           /\ \A m \in Before(db, i) : (\A k \in Before(db, i) : k <= m) =>
                  HeadBefore(db, i) = db.events[m].revision
           /\ Before(db, i) # {} => \E m \in Before(db, i) : \A k \in Before(db, i) : k <= m
  <1> DEFINE before == Before(db, i)
  <1>1. Len(db.events) \in Nat /\ before \subseteq 1 .. Len(db.events)
    BY SeqFacts, PlacesFacts DEF RevisionPlaces, Before
  <1>2. before # {} => \E m \in before : \A k \in before : k <= m
    BY <1>1, LastPlace
  <1>3. before = {} => HeadBefore(db, i) = Root
    BY DEF HeadBefore, Before
  <1>4. ASSUME NEW m \in before, \A k \in before : k <= m
        PROVE  HeadBefore(db, i) = db.events[m].revision
    <2>1. HeadBefore(db, i) = db.events[CHOOSE j \in before : \A k \in before : k <= j].revision
      BY <1>4 DEF HeadBefore, Before
    <2>2. \A j \in before : (\A k \in before : k <= j) => j = m
      BY <1>1, <1>4
    <2>3. (CHOOSE j \in before : \A k \in before : k <= j) = m
      BY <1>4, <2>2
    <2>4. QED BY <2>1, <2>3
  <1>5. QED BY <1>2, <1>3, <1>4

-----------------------------------------------------------------------------
(* A ledger that gets one more event *)

\* d is db with event added, whatever happens to the rows.
Extends(d, db, event) == IsSeq(db.events) /\ d.events = Append(db.events, event)

LEMMA ExtendsFacts ==
    ASSUME NEW d, NEW db, NEW event, Extends(d, db, event)
    PROVE  LET n == Len(db.events) + 1 IN
           /\ IsSeq(db.events) /\ IsSeq(d.events) /\ Len(d.events) = n /\ n \in Nat \ {0}
           /\ DOMAIN db.events = 1 .. n - 1 /\ DOMAIN d.events = 1 .. n
           /\ \A i \in 1 .. n - 1 : d.events[i] = db.events[i]
           /\ d.events[n] = event
           /\ \A types : Places(db, types) \subseteq 1 .. n - 1
           /\ \A types : Places(d, types) = Places(db, types) \cup
                             (IF event.type \in types THEN {n} ELSE {})
  <1> DEFINE n == Len(db.events) + 1
  <1>1. /\ IsSeq(db.events) /\ IsSeq(d.events) /\ Len(d.events) = n /\ n \in Nat \ {0}
        /\ DOMAIN db.events = 1 .. n - 1 /\ DOMAIN d.events = 1 .. n
        /\ \A i \in 1 .. n - 1 : d.events[i] = db.events[i]
        /\ d.events[n] = event
    BY AppendSeq, SeqFacts DEF Extends
  <1> HIDE DEF n
  <1>2. ASSUME NEW types
        PROVE  /\ Places(db, types) \subseteq 1 .. n - 1
               /\ Places(d, types) = Places(db, types) \cup (IF event.type \in types THEN {n} ELSE {})
    <2>1. Places(db, types) = {i \in 1 .. n - 1 : db.events[i].type \in types}
      BY <1>1 DEF Places
    <2>2. Places(d, types) = {i \in 1 .. n : d.events[i].type \in types}
      BY <1>1 DEF Places
    <2>3. 1 .. n = (1 .. n - 1) \cup {n}
      BY <1>1
    <2>4. QED BY <1>1, <2>1, <2>2, <2>3
  <1>3. QED BY <1>1, <1>2 DEF n

LEMMA ExtendsHead ==
    ASSUME NEW d, NEW db, NEW event, Extends(d, db, event)
    PROVE  LET n == Len(db.events) + 1 IN
           /\ \A i \in 1 .. n : HeadBefore(d, i) = HeadBefore(db, i)
           /\ HeadBefore(d, n + 1) = IF event.type = "REVISION_CREATED" THEN event.revision
                                     ELSE HeadBefore(db, n)
  <1> DEFINE n == Len(db.events) + 1
  <1>1. /\ IsSeq(db.events) /\ IsSeq(d.events) /\ n \in Nat \ {0}
        /\ \A i \in 1 .. n - 1 : d.events[i] = db.events[i]
        /\ d.events[n] = event
        /\ RevisionPlaces(db) \subseteq 1 .. n - 1
        /\ RevisionPlaces(d) = RevisionPlaces(db) \cup
                                   (IF event.type = "REVISION_CREATED" THEN {n} ELSE {})
    BY ExtendsFacts DEF RevisionPlaces
  <1> HIDE DEF n
  <1>2. ASSUME NEW i, NEW j, Before(d, j) = Before(db, i)
        PROVE  HeadBefore(d, j) = HeadBefore(db, i)
    <2>1. CASE Before(db, i) = {}
      BY <1>1, <1>2, <2>1, HeadFacts
    <2>2. CASE Before(db, i) # {}
      <3>1. PICK m \in Before(db, i) : \A k \in Before(db, i) : k <= m
        BY <1>1, <2>2, HeadFacts
      <3>2. HeadBefore(db, i) = db.events[m].revision
        BY <1>1, <3>1, HeadFacts
      <3>3. HeadBefore(d, j) = d.events[m].revision
        BY <1>1, <1>2, <3>1, HeadFacts
      <3>4. m \in 1 .. n - 1
        BY <1>1 DEF Before
      <3>5. QED BY <1>1, <3>2, <3>3, <3>4
    <2>3. QED BY <2>1, <2>2
  <1>3. ASSUME NEW i \in 1 .. n PROVE HeadBefore(d, i) = HeadBefore(db, i)
    <2>1. Before(d, i) = Before(db, i)
      BY <1>1 DEF Before
    <2>2. QED BY <1>2, <2>1
  <1>4. CASE event.type = "REVISION_CREATED"
    <2>1. n \in Before(d, n + 1) /\ \A k \in Before(d, n + 1) : k <= n
      BY <1>1, <1>4 DEF Before
    <2>2. HeadBefore(d, n + 1) = event.revision
      BY <1>1, <2>1, HeadFacts
    <2>3. QED BY <1>3, <1>4, <2>2 DEF n
  <1>5. CASE event.type # "REVISION_CREATED"
    <2>1. Before(d, n + 1) = Before(db, n)
      BY <1>1, <1>5 DEF Before
    <2>2. QED BY <1>2, <1>3, <1>5, <2>1 DEF n
  <1>6. QED BY <1>4, <1>5

-----------------------------------------------------------------------------
(* The parts of ValidCase *)

Reservations(db) == Places(db, {"QUALIFICATION_RESERVED"})
Endings(db) == Places(db, {"QUALIFICATION_PASSED", "QUALIFICATION_FAILED"})

LEMMA TerminalTypes ==
    /\ {TerminalType[t] : t \in Terminal} = {"QUALIFICATION_PASSED", "QUALIFICATION_FAILED"}
    /\ \A t \in Terminal : TerminalType[t] \in {"QUALIFICATION_PASSED", "QUALIFICATION_FAILED"}
    /\ None \notin Terminal /\ "RUNNING" \notin Terminal /\ None # "RUNNING"
  BY NoneAssumption DEF TerminalType, Terminal

\* The creation.
CreationOk(db) ==
    \E i \in Places(db, {"CASE_CREATED"}) :
        /\ Places(db, {"CASE_CREATED"}) = {i}
        /\ db.events[i].revision = Root
        /\ Bound(db, i)

\* The reservation of place i: the line is closed, its end is judged.
ReservationOk(db, i) ==
    /\ \A j \in RevisionPlaces(db) : j < i
    /\ Bound(db, i)
    /\ db.events[i].body.result = None
    /\ db.events[i].revision = HeadBefore(db, i)
    /\ db.case.judged = db.events[i].revision
    /\ db.case.attempt = db.events[i].body.attempt

\* The ending of place i, of the reservation before it.
EndingOk(db, i) ==
    /\ Bound(db, i)
    /\ \E j \in Reservations(db) :
          /\ j < i
          /\ db.events[i].revision = db.events[j].revision
          /\ db.events[i].body.attempt = db.events[j].body.attempt
    /\ db.case.result \in Terminal
    /\ db.events[i].type = TerminalType[db.case.result]

QualificationOk(db) ==
    /\ \A i, j \in Reservations(db) : i = j
    /\ \A i, j \in Endings(db) : i = j
    /\ \A i \in Reservations(db) : ReservationOk(db, i)
    /\ \A i \in Endings(db) : EndingOk(db, i)
    /\ Reservations(db) = {} =>
          db.case.judged = None /\ db.case.attempt = None /\ db.case.result = None
    /\ Reservations(db) # {} /\ Endings(db) = {} => db.case.result = "RUNNING"

LEMMA ReplaysParts ==
    ASSUME NEW db
    PROVE  Replays(db) <=> /\ CreationOk(db) /\ QualificationOk(db)
                           /\ db.case.head = HeadBefore(db, Len(db.events) + 1)
  BY TerminalTypes
  DEF Replays, CreationOk, QualificationOk, ReservationOk, EndingOk, Reservations, Endings

\* The row of the revision event at place i.
RevisionOk(db, i) ==
    \E v \in db.revisions :
        /\ v.id = db.events[i].revision
        /\ v.parent = HeadBefore(db, i)
        /\ v.ordinal = Cardinality({j \in RevisionPlaces(db) : j <= i})
        /\ v.hypothesis # None /\ v.probe # None
        /\ Cites(db, v)
        /\ db.events[i].body.row = v
        /\ db.events[i].body.run \in {u \in db.runs : u.id = v.probe}

RowsOk(db) ==
    /\ RootRow(db.case.source) \in db.revisions
    /\ {v.id : v \in db.revisions} =
          {Root} \cup {db.events[i].revision : i \in RevisionPlaces(db)}
    /\ \A i \in RevisionPlaces(db) : RevisionOk(db, i)
    /\ \A u \in db.runs : RevisionIn(db, u.revision)

LEMMA ValidParts ==
    ASSUME NEW db
    PROVE  ValidCase(db) <=>
               /\ db.case # NoCase /\ Referenced(db)
               /\ CreationOk(db) /\ QualificationOk(db) /\ RowsOk(db)
               /\ db.case.head = HeadBefore(db, Len(db.events) + 1)
  BY ReplaysParts DEF ValidCase, RowsOk, RevisionOk

\* What a case row says of the ledger.
LEMMA UndecidedFacts ==
    ASSUME NEW db, QualificationOk(db)
    PROVE  /\ db.case.result = None => Reservations(db) = {} /\ Endings(db) = {}
           /\ db.case.result = "RUNNING" => Reservations(db) # {} /\ Endings(db) = {}
           /\ db.case.result \in Terminal => Reservations(db) # {} /\ Endings(db) # {}
           /\ db.case.result \in Terminal \cup {"RUNNING", None}
  BY TerminalTypes DEF QualificationOk, EndingOk

-----------------------------------------------------------------------------
(* Parts that an event of another type leaves alone *)

LEMMA SamePlaces ==
    ASSUME NEW d, NEW db, NEW event, Extends(d, db, event), NEW types, event.type \notin types
    PROVE  Places(d, types) = Places(db, types)
  <1>1. Places(d, types) = Places(db, types) \cup
            (IF event.type \in types THEN {Len(db.events) + 1} ELSE {})
    BY ExtendsFacts
  <1>2. QED BY <1>1

LEMMA MorePlaces ==
    ASSUME NEW d, NEW db, NEW event, Extends(d, db, event), NEW types, event.type \in types
    PROVE  /\ Places(d, types) = Places(db, types) \cup {Len(db.events) + 1}
           /\ Len(db.events) + 1 \notin Places(db, types)
  <1>1. /\ Places(d, types) = Places(db, types) \cup {Len(db.events) + 1}
        /\ Places(db, types) \subseteq 1 .. (Len(db.events) + 1) - 1
        /\ Len(db.events) + 1 \in Nat
    BY ExtendsFacts
  <1>2. QED BY <1>1

\* What is cited stays cited.
LEMMA CitesStays ==
    ASSUME NEW d, NEW db, NEW event, Extends(d, db, event), db.runs \subseteq d.runs,
           NEW row, Cites(db, row)
    PROVE  Cites(d, row)
  <1>1. PICK i \in DOMAIN db.events :
            /\ db.events[i].id = row.hypothesis
            /\ db.events[i].type = "HYPOTHESIS_RECORDED"
            /\ db.events[i].revision = row.parent
    BY DEF Cites
  <1>2. i \in DOMAIN d.events /\ d.events[i] = db.events[i]
    BY ExtendsFacts
  <1>3. \E u \in d.runs : u.id = row.probe /\ u.revision = row.parent /\ u.kind = "probe"
    BY DEF Cites
  <1>4. QED BY <1>1, <1>2, <1>3 DEF Cites

LEMMA CreationStays ==
    ASSUME NEW d, NEW db, NEW event, Extends(d, db, event), CreationOk(db),
           event.type # "CASE_CREATED",
           d.case.source = db.case.source, d.case.commitments = db.case.commitments
    PROVE  CreationOk(d)
  <1>1. PICK i \in Places(db, {"CASE_CREATED"}) :
            /\ Places(db, {"CASE_CREATED"}) = {i}
            /\ db.events[i].revision = Root
            /\ Bound(db, i)
    BY DEF CreationOk
  <1>2. Places(d, {"CASE_CREATED"}) = {i} /\ d.events[i] = db.events[i]
    BY <1>1, ExtendsFacts
  <1>3. QED BY <1>1, <1>2 DEF CreationOk, Bound

\* But for the head.
SameCase(c, k) ==
    /\ c.source = k.source /\ c.commitments = k.commitments
    /\ c.judged = k.judged /\ c.attempt = k.attempt /\ c.result = k.result

\* What was at a place before.
LEMMA OldPlaces ==
    ASSUME NEW d, NEW db, NEW event, Extends(d, db, event), NEW types, NEW i \in Places(db, types)
    PROVE  /\ i \in 1 .. Len(db.events) /\ i \in 1 .. Len(db.events) + 1
           /\ d.events[i] = db.events[i] /\ HeadBefore(d, i) = HeadBefore(db, i)
  <1>1. i \in 1 .. Len(db.events) /\ Len(db.events) \in Nat /\ d.events[i] = db.events[i]
    <2>1. Len(db.events) \in Nat /\ i \in 1 .. (Len(db.events) + 1) - 1
      BY ExtendsFacts, SeqFacts
    <2>2. QED BY <2>1, ExtendsFacts
  <1>2. QED BY <1>1, ExtendsHead

LEMMA QualificationStays ==
    ASSUME NEW d, NEW db, NEW event, Extends(d, db, event), QualificationOk(db),
           event.type \notin {"QUALIFICATION_RESERVED", "QUALIFICATION_PASSED", "QUALIFICATION_FAILED"},
           event.type = "REVISION_CREATED" => Reservations(db) = {} /\ Endings(db) = {},
           SameCase(d.case, db.case)
    PROVE  QualificationOk(d)
  <1>1. Reservations(d) = Reservations(db) /\ Endings(d) = Endings(db)
    BY SamePlaces DEF Reservations, Endings
  <1>2. /\ d.case.source = db.case.source /\ d.case.commitments = db.case.commitments
        /\ d.case.judged = db.case.judged /\ d.case.attempt = db.case.attempt
        /\ d.case.result = db.case.result
    BY DEF SameCase
  <1>3. CASE Reservations(db) = {} /\ Endings(db) = {}
    BY <1>1, <1>2, <1>3 DEF QualificationOk
  <1>4. CASE event.type # "REVISION_CREATED"
    <2>1. RevisionPlaces(d) = RevisionPlaces(db)
      BY <1>4, SamePlaces DEF RevisionPlaces
    <2>2. \A i \in Reservations(db) \cup Endings(db) :
             /\ i \in 1 .. Len(db.events) + 1
             /\ d.events[i] = db.events[i] /\ HeadBefore(d, i) = HeadBefore(db, i)
      BY OldPlaces DEF Reservations, Endings
    <2>3. ASSUME NEW i \in Reservations(db) PROVE ReservationOk(d, i)
      BY <1>2, <2>1, <2>2 DEF QualificationOk, ReservationOk, Bound
    <2>4. ASSUME NEW i \in Endings(db) PROVE EndingOk(d, i)
      BY <1>1, <1>2, <2>2 DEF QualificationOk, EndingOk, Bound
    <2>5. QED BY <1>1, <1>2, <2>3, <2>4 DEF QualificationOk
  <1>5. QED BY <1>3, <1>4

LEMMA RowsStay ==
    ASSUME NEW d, NEW db, NEW event, Extends(d, db, event), RowsOk(db),
           event.type # "REVISION_CREATED", d.case.source = db.case.source,
           d.revisions = db.revisions, db.runs \subseteq d.runs,
           \A u \in d.runs : RevisionIn(d, u.revision)
    PROVE  RowsOk(d)
  <1>1. RevisionPlaces(d) = RevisionPlaces(db)
    BY SamePlaces DEF RevisionPlaces
  <1>2. \A i \in RevisionPlaces(db) : d.events[i] = db.events[i] /\ HeadBefore(d, i) = HeadBefore(db, i)
    BY OldPlaces DEF RevisionPlaces
  <1>3. ASSUME NEW i \in RevisionPlaces(db) PROVE RevisionOk(d, i)
    BY <1>1, <1>2, CitesStays DEF RowsOk, RevisionOk
  <1>4. {d.events[i].revision : i \in RevisionPlaces(d)} = {db.events[i].revision : i \in RevisionPlaces(db)}
    BY <1>1, <1>2
  <1>5. QED BY <1>1, <1>3, <1>4 DEF RowsOk

LEMMA ReferencesStay ==
    ASSUME NEW d, NEW db, NEW event, Extends(d, db, event), Referenced(db),
           db.revisions \subseteq d.revisions,
           event.revision = None \/ RevisionIn(d, event.revision)
    PROVE  Referenced(d)
  <1>1. ASSUME NEW i \in DOMAIN d.events
        PROVE  d.events[i].revision = None \/ RevisionIn(d, d.events[i].revision)
    <2> DEFINE n == Len(db.events) + 1
    <2>0. /\ n \in Nat \ {0} /\ DOMAIN db.events = 1 .. n - 1 /\ DOMAIN d.events = 1 .. n
          /\ \A j \in 1 .. n - 1 : d.events[j] = db.events[j]
          /\ d.events[n] = event
      BY ExtendsFacts
    <2> HIDE DEF n
    <2>1. CASE i = n
      BY <2>0, <2>1
    <2>2. CASE i \in DOMAIN db.events
      BY <2>0, <2>2 DEF Referenced, RevisionIn
    <2>3. i = n \/ i \in DOMAIN db.events
      BY <2>0
    <2>4. QED BY <2>1, <2>2, <2>3
  <1>2. QED BY <1>1 DEF Referenced

-----------------------------------------------------------------------------
(* The transactions *)

\* Rows of a table with their ids.
Keyed(rows) == \A v, w \in rows : v.id = w.id => v = w

LEMMA KeyedAdds ==
    ASSUME NEW rows, Keyed(rows), NEW row, \A v \in rows : v.id # row.id
    PROVE  Keyed(rows \cup {row})
  BY DEF Keyed

\* A database that a transaction writes out is sound when its rows and its ledger agree.
LEMMA WrittenSound ==
    ASSUME NEW c, NEW revisions, NEW runs, NEW events, c.head # None, IsCase(c),
           IsSeq(events), Keyed(revisions), Keyed(runs),
           ValidCase(Database(c, revisions, runs, events))
    PROVE  Sound(Database(c, revisions, runs, events))
  <1> DEFINE d == Database(c, revisions, runs, events)
  <1>1. d.case = c /\ d.revisions = revisions /\ d.runs = runs /\ d.events = events
    BY DatabaseFields
  <1> HIDE DEF d
  <1>2. d = Database(d.case, d.revisions, d.runs, d.events)
    BY <1>1 DEF d
  <1>3. ValidCase(d)
    BY DEF d
  <1>4. Sound(d)
    BY <1>1, <1>2, <1>3 DEF Sound, Keyed
  <1>5. QED BY <1>4 DEF d

\* What is there of a sound database that has a case.
LEMMA SoundFacts ==
    ASSUME NEW db, Sound(db)
    PROVE  /\ IsSeq(db.events) /\ Keyed(db.revisions) /\ Keyed(db.runs)
           /\ db.case # NoCase => IsCase(db.case) /\ ValidCase(db) /\ db.case.head # None
           /\ db.case = NoCase => db = NoDatabase
           /\ ValidCase(db) => db.case # NoCase
  <1>1. ValidCase(db) => db.case # NoCase
    BY DEF ValidCase
  <1>2. NoDatabase.case = NoCase /\ NoCase.head = None
    BY DEF NoDatabase, Database, NoCase
  <1>3. db # NoDatabase => db.case.head # None /\ IsCase(db.case) /\ ValidCase(db)
    BY DEF Sound
  <1>4. IsSeq(db.events) /\ Keyed(db.revisions) /\ Keyed(db.runs)
    BY DEF Sound, Keyed
  <1>5. QED BY <1>1, <1>2, <1>3, <1>4

LEMMA LogFields ==
    ASSUME NEW db, NEW event
    PROVE  /\ Log(db, event).case = db.case /\ Log(db, event).revisions = db.revisions
           /\ Log(db, event).runs = db.runs /\ Log(db, event).events = Append(db.events, event)
  BY DEF Log, Database

\* An event of the callers, and a run that may come with it.
LEMMA CallersEvent ==
    ASSUME NEW db, Sound(db), ValidCase(db), NEW runs, db.runs \subseteq runs, Keyed(runs),
           \A u \in runs : RevisionIn(db, u.revision),
           NEW event, event.type \notin Owned,
           event.revision = None \/ RevisionIn(db, event.revision)
    PROVE  Sound(Log(Database(db.case, db.revisions, runs, db.events), event))
  <1> DEFINE d == Log(Database(db.case, db.revisions, runs, db.events), event)
  <1>1. /\ d = Database(db.case, db.revisions, runs, Append(db.events, event))
        /\ d.case = db.case /\ d.revisions = db.revisions /\ d.runs = runs
        /\ d.events = Append(db.events, event)
    <2> DEFINE e == Database(db.case, db.revisions, runs, db.events)
    <2>1. e.case = db.case /\ e.revisions = db.revisions /\ e.runs = runs /\ e.events = db.events
      BY DatabaseFields
    <2>2. d = Database(e.case, e.revisions, e.runs, Append(e.events, event))
      BY DEF Log
    <2> HIDE DEF d, e
    <2>3. d = Database(db.case, db.revisions, runs, Append(db.events, event))
      BY <2>1, <2>2
    <2>4. QED BY <2>3 DEF Database
  <1>2. /\ IsSeq(db.events) /\ Keyed(db.revisions) /\ IsCase(db.case)
        /\ db.case # NoCase /\ db.case.head # None
    BY SoundFacts
  <1> HIDE DEF d
  <1>3. Extends(d, db, event) /\ IsSeq(d.events)
    BY <1>1, <1>2, AppendSeq DEF Extends
  <1>4. /\ event.type \notin {"QUALIFICATION_RESERVED", "QUALIFICATION_PASSED", "QUALIFICATION_FAILED"}
        /\ event.type # "CASE_CREATED" /\ event.type # "REVISION_CREATED"
    BY DEF Owned
  <1>5. SameCase(d.case, db.case)
    BY <1>1 DEF SameCase
  <1>6. \A r : RevisionIn(d, r) <=> RevisionIn(db, r)
    BY <1>1 DEF RevisionIn
  <1>7. /\ Referenced(db) /\ CreationOk(db) /\ QualificationOk(db) /\ RowsOk(db)
        /\ db.case.head = HeadBefore(db, Len(db.events) + 1)
    BY ValidParts
  <1>8. Referenced(d)
    BY <1>1, <1>3, <1>6, <1>7, ReferencesStay
  <1>9. CreationOk(d)
    BY <1>1, <1>3, <1>4, <1>7, CreationStays
  <1>10. QualificationOk(d)
    BY <1>3, <1>4, <1>5, <1>7, QualificationStays
  <1>11. RowsOk(d)
    BY <1>1, <1>3, <1>4, <1>6, <1>7, RowsStay
  <1>12. d.case.head = HeadBefore(d, Len(d.events) + 1)
    <2>1. Len(d.events) = Len(db.events) + 1
      BY <1>3, ExtendsFacts
    <2>2. HeadBefore(d, (Len(db.events) + 1) + 1) = HeadBefore(db, Len(db.events) + 1)
      BY <1>3, <1>4, ExtendsHead
    <2>3. QED BY <1>1, <1>7, <2>1, <2>2
  <1>13. ValidCase(d)
    BY <1>1, <1>2, <1>8, <1>9, <1>10, <1>11, <1>12, ValidParts
  <1>14. QED BY <1>1, <1>2, <1>3, <1>13, WrittenSound DEF d

\* A run without an event.
LEMMA OnlyRun ==
    ASSUME NEW db, Sound(db), ValidCase(db), NEW runs, db.runs \subseteq runs, Keyed(runs),
           \A u \in runs : RevisionIn(db, u.revision)
    PROVE  Sound(Database(db.case, db.revisions, runs, db.events))
  <1> DEFINE d == Database(db.case, db.revisions, runs, db.events)
  <1>1. /\ d.case = db.case /\ d.revisions = db.revisions /\ d.runs = runs
        /\ d.events = db.events
    BY DatabaseFields
  <1>2. /\ IsSeq(db.events) /\ Keyed(db.revisions) /\ IsCase(db.case)
        /\ db.case # NoCase /\ db.case.head # None
    BY SoundFacts
  <1> HIDE DEF d
  <1>3. \A types : Places(d, types) = Places(db, types)
    BY <1>1 DEF Places
  <1>4. RevisionPlaces(d) = RevisionPlaces(db) /\ Reservations(d) = Reservations(db)
        /\ Endings(d) = Endings(db)
    BY <1>3 DEF RevisionPlaces, Reservations, Endings
  <1>5. \A i : HeadBefore(d, i) = HeadBefore(db, i)
    BY <1>1, <1>4 DEF HeadBefore
  <1>6. \A i : Bound(d, i) <=> Bound(db, i)
    BY <1>1 DEF Bound
  <1>7. \A r : RevisionIn(d, r) <=> RevisionIn(db, r)
    BY <1>1 DEF RevisionIn
  <1>8. /\ Referenced(db) /\ CreationOk(db) /\ QualificationOk(db) /\ RowsOk(db)
        /\ db.case.head = HeadBefore(db, Len(db.events) + 1)
    BY ValidParts
  <1>9. Referenced(d)
    BY <1>1, <1>7, <1>8 DEF Referenced
  <1>10. CreationOk(d)
    BY <1>1, <1>3, <1>6, <1>8 DEF CreationOk
  <1>11. QualificationOk(d)
    <2>1. \A i \in Reservations(db) : ReservationOk(d, i)
      BY <1>1, <1>4, <1>5, <1>6, <1>8 DEF QualificationOk, ReservationOk
    <2>2. \A i \in Endings(db) : EndingOk(d, i)
      BY <1>1, <1>4, <1>5, <1>6, <1>8 DEF QualificationOk, EndingOk
    <2>3. QED BY <1>1, <1>4, <1>8, <2>1, <2>2 DEF QualificationOk
  <1>12. RowsOk(d)
    <2>1. \A row : Cites(db, row) => Cites(d, row)
      BY <1>1 DEF Cites
    <2>2. ASSUME NEW i \in RevisionPlaces(db) PROVE RevisionOk(d, i)
      BY <1>1, <1>4, <1>5, <1>8, <2>1 DEF RowsOk, RevisionOk
    <2>3. QED BY <1>1, <1>4, <1>7, <1>8, <2>2 DEF RowsOk
  <1>13. ValidCase(d)
    BY <1>1, <1>2, <1>5, <1>8, <1>9, <1>10, <1>11, <1>12, ValidParts
  <1>14. QED BY <1>1, <1>2, <1>13, WrittenSound DEF d

\* What append_event leaves.
LEMMA AppendEventFacts ==
    ASSUME NEW db, Sound(db), NEW event, AppendEvent(db, event).answer = "done"
    PROVE  /\ AppendEvent(db, event).db = Log(db, event) /\ Sound(Log(db, event))
           /\ ValidCase(db) /\ event.type \notin Owned
  <1> DEFINE ok == /\ event.type \notin Owned
                   /\ event.revision # None => RevisionIn(db, event.revision)
                   /\ FreshId(db, event.id)
                   /\ ValidCase(db)
  <1>1. AppendEvent(db, event) = Outcome(ok, db, Log(db, event))
    BY DEF AppendEvent
  <1> HIDE DEF ok
  <1>2. ok /\ AppendEvent(db, event).db = Log(db, event)
    BY <1>1 DEF Outcome
  <1>3. /\ event.type \notin Owned /\ ValidCase(db)
        /\ event.revision = None \/ RevisionIn(db, event.revision)
    BY <1>2 DEF ok
  <1>4. Keyed(db.runs) /\ db = Database(db.case, db.revisions, db.runs, db.events)
    BY DEF Sound, Keyed
  <1>5. \A u \in db.runs : RevisionIn(db, u.revision)
    BY <1>3 DEF ValidCase
  <1>6. Sound(Log(Database(db.case, db.revisions, db.runs, db.events), event))
    BY <1>3, <1>4, <1>5, CallersEvent
  <1>7. QED BY <1>2, <1>3, <1>4, <1>6

\* A database with one more run.
WithRun(db, run) == Database(db.case, db.revisions, db.runs \cup {run}, db.events)

\* What record_run leaves.
LEMMA RecordRunFacts ==
    ASSUME NEW db, Sound(db), NEW run, NEW event, RecordRun(db, run, event).answer = "done"
    PROVE  LET d == IF event = NoEvent THEN WithRun(db, run) ELSE Log(WithRun(db, run), event) IN
           /\ RecordRun(db, run, event).db = d /\ Sound(d)
           /\ ValidCase(db) /\ \A u \in db.runs : u.id # run.id
           /\ RevisionIn(db, run.revision)
           /\ event # NoEvent => event.type \notin Owned
  <1> DEFINE ok == /\ event # NoEvent => /\ event.revision = run.revision
                                      /\ event.type \notin Owned
                                      /\ FreshId(db, event.id)
                   /\ \A u \in db.runs : u.id # run.id
                   /\ RevisionIn(db, run.revision)
                   /\ ValidCase(db)
             d == IF event = NoEvent THEN WithRun(db, run) ELSE Log(WithRun(db, run), event)
  <1>1. RecordRun(db, run, event) = Outcome(ok, db, d)
    BY DEF RecordRun, WithRun
  <1> HIDE DEF ok, d
  <1>2. ok /\ RecordRun(db, run, event).db = d
    BY <1>1 DEF Outcome
  <1>3. /\ event # NoEvent => event.type \notin Owned /\ event.revision = run.revision
        /\ \A u \in db.runs : u.id # run.id
        /\ RevisionIn(db, run.revision) /\ ValidCase(db)
    BY <1>2 DEF ok
  <1>4. Keyed(db.runs \cup {run}) /\ db.runs \subseteq db.runs \cup {run}
    BY <1>3, SoundFacts, KeyedAdds
  <1>5. \A u \in db.runs \cup {run} : RevisionIn(db, u.revision)
    BY <1>3 DEF ValidCase
  <1>6. CASE event = NoEvent
    <2>1. Sound(WithRun(db, run))
      BY <1>3, <1>4, <1>5, OnlyRun DEF WithRun
    <2>2. QED BY <1>2, <1>3, <1>6, <2>1 DEF d
  <1>7. CASE event # NoEvent
    <2>1. Sound(Log(WithRun(db, run), event))
      BY <1>3, <1>4, <1>5, <1>7, CallersEvent DEF WithRun
    <2>2. QED BY <1>2, <1>3, <1>7, <2>1 DEF d
  <1>8. QED BY <1>6, <1>7

\* The event that a case begins with.
CreationEvent(source, commitments) ==
    EventRow(None, Root, "CASE_CREATED",
        [bound |-> [source |-> source, commitments |-> commitments]])

\* A case with its root revision and its first event.
FirstDatabase(source, commitments) ==
    Database(NewCase(source, commitments), {RootRow(source)}, {},
             Append(<<>>, CreationEvent(source, commitments)))

\* create_preprovisioned_case leaves a valid case.
LEMMA FirstSound ==
    ASSUME NEW source, NEW commitments
    PROVE  Sound(FirstDatabase(source, commitments)) /\ ValidCase(FirstDatabase(source, commitments))
  <1> DEFINE d == FirstDatabase(source, commitments)
             c == NewCase(source, commitments)
             row == RootRow(source)
             event == CreationEvent(source, commitments)
  <1>a. c.head = Root /\ c.source = source /\ c.commitments = commitments
        /\ c.judged = None /\ c.attempt = None /\ c.result = None /\ IsCase(c)
    BY DEF NewCase, IsCase
  <1>b. row.id = Root /\ row.parent = None
    BY DEF RootRow
  <1>c. event.type = "CASE_CREATED" /\ event.revision = Root
        /\ event.body.bound = [source |-> source, commitments |-> commitments]
    BY DEF CreationEvent, EventRow
  <1>d. NoCase.head = None
    BY DEF NoCase
  <1>e. c # NoCase
    BY <1>a, <1>d, RootAssumption
  <1>1. /\ c.head = Root /\ c.source = source /\ c.commitments = commitments
        /\ c.judged = None /\ c.attempt = None /\ c.result = None /\ IsCase(c) /\ c # NoCase
        /\ row.id = Root /\ row.parent = None
        /\ event.type = "CASE_CREATED" /\ event.revision = Root
        /\ event.body.bound = [source |-> source, commitments |-> commitments]
    BY <1>a, <1>b, <1>c, <1>e
  <1>2. row = RootRow(source)
    OBVIOUS
  <1>3. /\ d.case = c /\ d.revisions = {row} /\ d.runs = {}
        /\ d.events = Append(<<>>, event)
    BY DEF FirstDatabase, Database
  <1>4. d = Database(c, {row}, {}, Append(<<>>, event))
    BY DEF FirstDatabase
  <1> HIDE DEF d, c, row, event
  <1>5. IsSeq(<<>>)
    BY DEF IsSeq
  <1>6. IsSeq(d.events) /\ Len(d.events) = 1 /\ d.events[1] = event /\ DOMAIN d.events = {1}
    <2>1. IsSeq(d.events) /\ Len(d.events) = 0 + 1 /\ d.events[0 + 1] = event
      <3> DEFINE q == <<>>
      <3>1. Len(q) = 0 /\ IsSeq(q) /\ d.events = Append(q, event)
        BY <1>3, <1>5
      <3> HIDE DEF q
      <3>2. IsSeq(Append(q, event)) /\ Len(Append(q, event)) = Len(q) + 1
            /\ Append(q, event)[Len(q) + 1] = event
        BY <3>1, AppendSeq
      <3>3. QED BY <3>1, <3>2
    <2>2. DOMAIN d.events = 1 .. Len(d.events)
      BY <2>1, SeqFacts
    <2>3. QED BY <2>1, <2>2
  <1>7. \A types : Places(d, types) = IF "CASE_CREATED" \in types THEN {1} ELSE {}
    BY <1>1, <1>6 DEF Places
  <1>8. RevisionPlaces(d) = {} /\ Reservations(d) = {} /\ Endings(d) = {}
        /\ Places(d, {"CASE_CREATED"}) = {1}
    BY <1>7 DEF RevisionPlaces, Reservations, Endings
  <1>9. RevisionIn(d, Root)
    BY <1>1, <1>3 DEF RevisionIn
  <1>10. Referenced(d)
    BY <1>1, <1>6, <1>9 DEF Referenced
  <1>11. CreationOk(d)
    BY <1>1, <1>3, <1>6, <1>8 DEF CreationOk, Bound
  <1>12. QualificationOk(d)
    BY <1>1, <1>3, <1>8 DEF QualificationOk
  <1>13. RowsOk(d)
    BY <1>1, <1>2, <1>3, <1>8 DEF RowsOk
  <1>14. d.case.head = HeadBefore(d, Len(d.events) + 1)
    <2>1. Before(d, Len(d.events) + 1) = {}
      BY <1>8 DEF Before
    <2>2. QED BY <1>1, <1>3, <1>6, <2>1, HeadFacts
  <1>15. ValidCase(d)
    BY <1>1, <1>3, <1>10, <1>11, <1>12, <1>13, <1>14, ValidParts
  <1>16. Keyed({row}) /\ Keyed({})
    BY DEF Keyed
  <1>17. Sound(d)
    <2>1. c.head # None
      BY <1>1, RootAssumption
    <2>2. d = Database(c, {row}, {}, d.events)
      BY <1>3, <1>4
    <2>3. QED BY <1>1, <1>6, <1>15, <1>16, <2>1, <2>2, WrittenSound
  <1>18. QED BY <1>15, <1>17 DEF d

\* What create_preprovisioned_case leaves.
LEMMA CreateCaseFacts ==
    ASSUME NEW db, Sound(db), NEW source, NEW commitments,
           CreateCase(db, source, commitments).answer = "done"
    PROVE  /\ db = NoDatabase
           /\ CreateCase(db, source, commitments).db = FirstDatabase(source, commitments)
           /\ Sound(FirstDatabase(source, commitments)) /\ ValidCase(FirstDatabase(source, commitments))
  <1> DEFINE ok == db.case = NoCase /\ Referenced(db)
             e == Database(NewCase(source, commitments), {RootRow(source)}, db.runs, db.events)
             d == Log(e, CreationEvent(source, commitments))
  <1>1. CreateCase(db, source, commitments) = Outcome(ok, db, d)
    BY DEF CreateCase, CreationEvent
  <1>2. /\ e.case = NewCase(source, commitments) /\ e.revisions = {RootRow(source)}
        /\ e.runs = db.runs /\ e.events = db.events
    BY DEF Database
  <1>3. d = Database(e.case, e.revisions, e.runs, Append(e.events, CreationEvent(source, commitments)))
    BY DEF Log
  <1> HIDE DEF ok, d, e
  <1>4. ok /\ CreateCase(db, source, commitments).db = d
    BY <1>1 DEF Outcome
  <1>5. db = NoDatabase
    BY <1>4, SoundFacts DEF ok
  <1>6. db.runs = {} /\ db.events = <<>>
    BY <1>5 DEF NoDatabase, Database
  <1>7. d = FirstDatabase(source, commitments)
    BY <1>2, <1>3, <1>6 DEF FirstDatabase
  <1>8. QED BY <1>4, <1>5, <1>7, FirstSound

\* The row of the head: the root's, or that of the last revision event.
LEMMA HeadOrdinal ==
    ASSUME NEW db, Sound(db), ValidCase(db), NEW v \in db.revisions, v.id = db.case.head
    PROVE  v.ordinal = Cardinality(RevisionPlaces(db)) /\ IsFiniteSet(RevisionPlaces(db))
  <1> DEFINE n == Len(db.events) + 1
  <1>1. /\ RowsOk(db) /\ db.case.head = HeadBefore(db, n) /\ Keyed(db.revisions) /\ IsSeq(db.events)
    BY ValidParts, SoundFacts
  <1>2. n \in Nat \ {0} /\ RevisionPlaces(db) \subseteq 1 .. n - 1
    BY <1>1, SeqFacts, PlacesFacts DEF RevisionPlaces
  <1>3. IsFiniteSet(RevisionPlaces(db))
    <2>1. n - 1 \in Int /\ 1 \in Int
      BY <1>2
    <2>2. IsFiniteSet(1 .. n - 1)
      BY <2>1, FS_Interval
    <2>3. QED BY <1>2, <2>2, FS_Subset
  <1>4. Before(db, n) = RevisionPlaces(db)
    BY <1>2 DEF Before
  <1> HIDE DEF n
  <1>5. CASE RevisionPlaces(db) = {}
    <2>1. db.case.head = Root
      BY <1>1, <1>4, <1>5, HeadFacts
    <2>2. RootRow(db.case.source) \in db.revisions /\ RootRow(db.case.source).id = Root
          /\ RootRow(db.case.source).ordinal = 0
      BY <1>1 DEF RowsOk, RootRow
    <2>3. v = RootRow(db.case.source)
      BY <1>1, <2>1, <2>2 DEF Keyed
    <2>4. Cardinality(RevisionPlaces(db)) = 0
      BY <1>5, FS_EmptySet
    <2>5. QED BY <1>3, <2>2, <2>3, <2>4
  <1>6. CASE RevisionPlaces(db) # {}
    <2>1. PICK m \in Before(db, n) : \A k \in Before(db, n) : k <= m
      BY <1>1, <1>4, <1>6, HeadFacts
    <2>2. HeadBefore(db, n) = db.events[m].revision
      BY <1>1, <2>1, HeadFacts
    <2>3. PICK w \in db.revisions :
              /\ w.id = db.events[m].revision
              /\ w.ordinal = Cardinality({j \in RevisionPlaces(db) : j <= m})
      BY <1>1, <1>4, <2>1 DEF RowsOk, RevisionOk
    <2>4. {j \in RevisionPlaces(db) : j <= m} = RevisionPlaces(db)
      BY <1>4, <2>1
    <2>5. v = w
      BY <1>1, <2>2, <2>3 DEF Keyed
    <2>6. QED BY <1>3, <2>3, <2>4, <2>5
  <1>7. QED BY <1>5, <1>6

\* The case with its new head.
Headed(db, id) == [db.case EXCEPT !.head = id]

LEMMA HeadedFields ==
    ASSUME NEW db, NEW id, IsCase(db.case)
    PROVE  /\ SameCase(Headed(db, id), db.case) /\ Headed(db, id).head = id
           /\ IsCase(Headed(db, id))
  BY DEF Headed, SameCase, IsCase

\* The database with the revision and its event.
WithRevision(db, row, event) ==
    Log(Database(Headed(db, row.id), db.revisions \cup {row}, db.runs, db.events), event)

\* commit_revision_with_event leaves a valid case.
LEMMA RevisionSound ==
    ASSUME NEW db, Sound(db), ValidCase(db), NEW row, NEW event, NEW expected,
           Shaped(row, event), ~RevisionIn(db, row.id), CanCommit(db, row, event, expected)
    PROVE  Sound(WithRevision(db, row, event))
  <1> DEFINE d == WithRevision(db, row, event)
             c == Headed(db, row.id)
             n == Len(db.events) + 1
  <1>1. /\ d = Database(c, db.revisions \cup {row}, db.runs, Append(db.events, event))
    <2> DEFINE e == Database(c, db.revisions \cup {row}, db.runs, db.events)
    <2>1. e.case = c /\ e.revisions = db.revisions \cup {row} /\ e.runs = db.runs /\ e.events = db.events
      BY DatabaseFields
    <2>2. d = Database(e.case, e.revisions, e.runs, Append(e.events, event))
      BY DEF Log, WithRevision
    <2> HIDE DEF d, e
    <2>3. QED BY <2>1, <2>2
  <1>2. /\ IsSeq(db.events) /\ Keyed(db.revisions) /\ Keyed(db.runs) /\ IsCase(db.case)
        /\ db.case # NoCase /\ db.case.head # None
    BY SoundFacts
  <1>3. /\ SameCase(c, db.case) /\ c.head = row.id /\ IsCase(c)
    BY <1>2, HeadedFields
  <1> HIDE DEF d, c
  <1>4. /\ d.case = c /\ d.revisions = db.revisions \cup {row} /\ d.runs = db.runs
        /\ d.events = Append(db.events, event)
    BY <1>1 DEF Database
  <1>5. Extends(d, db, event) /\ IsSeq(d.events) /\ n \in Nat \ {0}
    BY <1>2, <1>4, AppendSeq, SeqFacts DEF Extends
  <1>6. /\ row.id # None /\ row.hypothesis # None /\ row.probe # None
        /\ event.type = "REVISION_CREATED" /\ event.revision = row.id /\ event.body.row = row
    BY DEF Shaped
  <1>7. /\ db.case.result = None /\ db.case.head = row.parent /\ Cites(db, row)
        /\ \E v \in db.revisions : v.id = row.parent /\ row.ordinal = v.ordinal + 1
        /\ event.body.run \in {u \in db.runs : u.id = row.probe}
    BY DEF CanCommit
  <1>8. /\ Referenced(db) /\ CreationOk(db) /\ QualificationOk(db) /\ RowsOk(db)
        /\ db.case.head = HeadBefore(db, n)
    BY ValidParts
  <1>9. Reservations(db) = {} /\ Endings(db) = {}
    BY <1>7, <1>8, UndecidedFacts
  <1>10. SameCase(d.case, db.case) /\ d.case.source = db.case.source
         /\ d.case.commitments = db.case.commitments
    BY <1>3, <1>4 DEF SameCase
  <1>11. \A r : RevisionIn(db, r) => RevisionIn(d, r)
    BY <1>4 DEF RevisionIn
  <1>12. RevisionIn(d, row.id)
    BY <1>4 DEF RevisionIn
  <1>13. Referenced(d)
    BY <1>4, <1>5, <1>6, <1>8, <1>12, ReferencesStay
  <1>14. CreationOk(d)
    BY <1>5, <1>6, <1>8, <1>10, CreationStays
  <1>15. QualificationOk(d)
    BY <1>5, <1>6, <1>8, <1>9, <1>10, QualificationStays
  <1>16. /\ RevisionPlaces(d) = RevisionPlaces(db) \cup {n} /\ n \notin RevisionPlaces(db)
         /\ RevisionPlaces(db) \subseteq 1 .. n - 1
    <2>1. RevisionPlaces(d) = RevisionPlaces(db) \cup {n} /\ n \notin RevisionPlaces(db)
      BY <1>5, <1>6, MorePlaces DEF RevisionPlaces
    <2>2. RevisionPlaces(db) \subseteq 1 .. n - 1
      BY <1>2, <1>5, PlacesFacts, SeqFacts DEF RevisionPlaces
    <2>3. QED BY <2>1, <2>2
  <1>17. \A i \in RevisionPlaces(db) :
            d.events[i] = db.events[i] /\ HeadBefore(d, i) = HeadBefore(db, i)
    BY <1>5, OldPlaces DEF RevisionPlaces
  <1>18. /\ Len(d.events) = n /\ d.events[n] = event
         /\ HeadBefore(d, n) = HeadBefore(db, n) /\ HeadBefore(d, n + 1) = row.id
    <2>1. Len(d.events) = n /\ d.events[n] = event
      BY <1>5, ExtendsFacts
    <2>2. HeadBefore(d, n + 1) = row.id
      BY <1>5, <1>6, ExtendsHead
    <2>3. HeadBefore(d, n) = HeadBefore(db, n)
      <3>1. n \in 1 .. n
        BY <1>5
      <3>2. QED BY <1>5, <3>1, ExtendsHead
    <2>4. QED BY <2>1, <2>2, <2>3
  <1>19. \A w : Cites(db, w) => Cites(d, w)
    BY <1>4, <1>5, CitesStays
  <1> HIDE DEF n
  <1>20. ASSUME NEW i \in RevisionPlaces(db) PROVE RevisionOk(d, i)
    <2>1. PICK v \in db.revisions :
              /\ v.id = db.events[i].revision
              /\ v.parent = HeadBefore(db, i)
              /\ v.ordinal = Cardinality({j \in RevisionPlaces(db) : j <= i})
              /\ v.hypothesis # None /\ v.probe # None
              /\ Cites(db, v)
              /\ db.events[i].body.row = v
              /\ db.events[i].body.run \in {u \in db.runs : u.id = v.probe}
      BY <1>8 DEF RowsOk, RevisionOk
    <2>2. {j \in RevisionPlaces(d) : j <= i} = {j \in RevisionPlaces(db) : j <= i}
      BY <1>5, <1>16
    <2>3. v \in d.revisions /\ Cites(d, v)
      BY <1>4, <1>19, <2>1
    <2>4. QED BY <1>4, <1>17, <2>1, <2>2, <2>3 DEF RevisionOk
  <1>21. RevisionOk(d, n)
    <2>1. row.ordinal = Cardinality(RevisionPlaces(db)) + 1 /\ IsFiniteSet(RevisionPlaces(db))
      BY <1>7, HeadOrdinal
    <2>2. {j \in RevisionPlaces(d) : j <= n} = RevisionPlaces(db) \cup {n}
      BY <1>5, <1>16
    <2>3. Cardinality({j \in RevisionPlaces(d) : j <= n}) = Cardinality(RevisionPlaces(db)) + 1
      BY <1>16, <2>1, <2>2, FS_AddElement
    <2>4. row \in d.revisions /\ Cites(d, row)
      BY <1>4, <1>7, <1>19
    <2>5. row.id = d.events[n].revision /\ row.parent = HeadBefore(d, n) /\ d.events[n].body.row = row
          /\ d.events[n].body.run \in {u \in d.runs : u.id = row.probe}
      BY <1>4, <1>6, <1>7, <1>8, <1>18
    <2>6. QED BY <1>6, <2>1, <2>3, <2>4, <2>5 DEF RevisionOk
  <1>22. RowsOk(d)
    <2>1. RootRow(d.case.source) \in d.revisions
      BY <1>4, <1>8, <1>10 DEF RowsOk
    <2>2. {v.id : v \in d.revisions} = {v.id : v \in db.revisions} \cup {row.id}
      BY <1>4
    <2>3. {d.events[i].revision : i \in RevisionPlaces(d)} =
              {db.events[i].revision : i \in RevisionPlaces(db)} \cup {row.id}
      BY <1>6, <1>16, <1>17, <1>18
    <2>4. {v.id : v \in d.revisions} = {Root} \cup {d.events[i].revision : i \in RevisionPlaces(d)}
      BY <1>8, <2>2, <2>3 DEF RowsOk
    <2>5. \A u \in d.runs : RevisionIn(d, u.revision)
      BY <1>4, <1>8, <1>11 DEF RowsOk
    <2>6. \A i \in RevisionPlaces(d) : RevisionOk(d, i)
      BY <1>16, <1>20, <1>21
    <2>7. QED BY <2>1, <2>4, <2>5, <2>6 DEF RowsOk
  <1>23. d.case # NoCase
    <2>1. NoCase.head = None
      BY DEF NoCase
    <2>2. QED BY <1>3, <1>4, <1>6, <2>1
  <1>24. ValidCase(d)
    BY <1>3, <1>4, <1>13, <1>14, <1>15, <1>18, <1>22, <1>23, ValidParts
  <1>25. Keyed(db.revisions \cup {row})
    <2>1. \A v \in db.revisions : v.id # row.id
      BY DEF RevisionIn
    <2>2. QED BY <1>2, <2>1, KeyedAdds
  <1>26. Sound(d)
    BY <1>1, <1>2, <1>3, <1>4, <1>5, <1>6, <1>24, <1>25, WrittenSound
  <1>27. QED BY <1>26 DEF d

\* What commit_revision_with_event leaves.
LEMMA CommitRevisionFacts ==
    ASSUME NEW db, Sound(db), NEW row, NEW event, NEW expected,
           CommitRevision(db, row, event, expected).answer = "done"
    PROVE  /\ CommitRevision(db, row, event, expected).db = WithRevision(db, row, event)
           /\ Sound(WithRevision(db, row, event)) /\ ValidCase(db)
           /\ Shaped(row, event) /\ ~RevisionIn(db, row.id)
           /\ CanCommit(db, row, event, expected)
  <1> DEFINE ok == /\ Shaped(row, event)
                   /\ ~RevisionIn(db, row.id)
                   /\ CanCommit(db, row, event, expected)
                   /\ ValidCase(db)
             d == WithRevision(db, row, event)
             again == Stands(db, row, event) /\ Shaped(row, event) /\ ValidCase(db)
  <1>1. CommitRevision(db, row, event, expected) =
            IF again THEN Again(db) ELSE Outcome(ok, db, d)
    BY DEF CommitRevision, WithRevision, Headed
  <1> HIDE DEF ok, d, again
  <1>2. ok /\ CommitRevision(db, row, event, expected).db = d
    BY <1>1 DEF Outcome, Again
  <1>3. ValidCase(db) /\ Shaped(row, event) /\ ~RevisionIn(db, row.id)
        /\ CanCommit(db, row, event, expected)
    BY <1>2 DEF ok
  <1>4. QED BY <1>2, <1>3, RevisionSound DEF d

-----------------------------------------------------------------------------
(* Qualification *)

LEMMA HeadThere ==
    ASSUME NEW db, Sound(db), ValidCase(db)
    PROVE  RevisionIn(db, db.case.head)
  <1> DEFINE n == Len(db.events) + 1
  <1>1. /\ RowsOk(db) /\ db.case.head = HeadBefore(db, n) /\ IsSeq(db.events)
    BY ValidParts, SoundFacts
  <1> HIDE DEF n
  <1>2. \/ db.case.head = Root
        \/ \E m \in RevisionPlaces(db) : db.case.head = db.events[m].revision
    BY <1>1, HeadFacts DEF Before
  <1>3. db.case.head \in {v.id : v \in db.revisions}
    BY <1>1, <1>2 DEF RowsOk
  <1>4. QED BY <1>3 DEF RevisionIn

LEMMA QualifiedFields ==
    ASSUME NEW db, NEW revision, NEW attempt, NEW result
    PROVE  /\ Qualified(db, revision, attempt, result).case.head = db.case.head
           /\ Qualified(db, revision, attempt, result).case.source = db.case.source
           /\ Qualified(db, revision, attempt, result).case.commitments = db.case.commitments
           /\ Qualified(db, revision, attempt, result).case.judged = revision
           /\ Qualified(db, revision, attempt, result).case.attempt = attempt
           /\ Qualified(db, revision, attempt, result).case.result = result
           /\ IsCase(Qualified(db, revision, attempt, result).case)
           /\ Qualified(db, revision, attempt, result).revisions = db.revisions
           /\ Qualified(db, revision, attempt, result).runs = db.runs
           /\ Qualified(db, revision, attempt, result).events = db.events
  BY DEF Qualified, Database, IsCase

LEMMA EventFields ==
    ASSUME NEW db, NEW revision, NEW attempt, NEW type, NEW result
    PROVE  /\ QualificationEvent(db, revision, attempt, type, result).revision = revision
           /\ QualificationEvent(db, revision, attempt, type, result).type = type
           /\ QualificationEvent(db, revision, attempt, type, result).id = None
           /\ QualificationEvent(db, revision, attempt, type, result).body.bound =
                  [source |-> db.case.source, commitments |-> db.case.commitments]
           /\ QualificationEvent(db, revision, attempt, type, result).body.attempt = attempt
           /\ QualificationEvent(db, revision, attempt, type, result).body.result = result
  BY DEF QualificationEvent, EventRow

\* A case with a qualification event more, whose row has judged, attempt and result set.
LEMMA QualifiedSound ==
    ASSUME NEW db, Sound(db), ValidCase(db), NEW q, NEW event,
           IsCase(q.case), q.revisions = db.revisions, q.runs = db.runs, q.events = db.events,
           q.case.head = db.case.head, q.case.source = db.case.source,
           q.case.commitments = db.case.commitments,
           event.type \in {"QUALIFICATION_RESERVED", "QUALIFICATION_PASSED", "QUALIFICATION_FAILED"},
           event.revision = None \/ RevisionIn(db, event.revision),
           QualificationOk(Log(q, event))
    PROVE  Sound(Log(q, event))
  <1> DEFINE d == Log(q, event)
  <1>1. /\ d = Database(d.case, d.revisions, d.runs, d.events)
        /\ d.case = q.case /\ d.revisions = db.revisions /\ d.runs = db.runs
        /\ d.events = Append(db.events, event)
    <2>1. /\ d.case = q.case /\ d.revisions = q.revisions /\ d.runs = q.runs
          /\ d.events = Append(q.events, event)
      BY LogFields
    <2>2. d = Database(q.case, q.revisions, q.runs, Append(q.events, event))
      BY DEF Log
    <2> HIDE DEF d
    <2>3. QED BY <2>1, <2>2
  <1>2. /\ IsSeq(db.events) /\ Keyed(db.revisions) /\ Keyed(db.runs) /\ db.case.head # None
    BY SoundFacts
  <1>3. QualificationOk(d)
    OBVIOUS
  <1> HIDE DEF d
  <1>4. Extends(d, db, event) /\ IsSeq(d.events)
    BY <1>1, <1>2, AppendSeq DEF Extends
  <1>5. event.type # "CASE_CREATED" /\ event.type # "REVISION_CREATED"
    OBVIOUS
  <1>6. \A r : RevisionIn(d, r) <=> RevisionIn(db, r)
    BY <1>1 DEF RevisionIn
  <1>7. /\ Referenced(db) /\ CreationOk(db) /\ RowsOk(db)
        /\ db.case.head = HeadBefore(db, Len(db.events) + 1)
    BY ValidParts
  <1>8. Referenced(d)
    BY <1>1, <1>4, <1>6, <1>7, ReferencesStay
  <1>9. CreationOk(d)
    BY <1>1, <1>4, <1>5, <1>7, CreationStays
  <1>10. \A u \in d.runs : RevisionIn(d, u.revision)
    BY <1>1, <1>6, <1>7 DEF RowsOk
  <1>11. RowsOk(d)
    BY <1>1, <1>4, <1>5, <1>7, <1>10, RowsStay
  <1>12. d.case.head = HeadBefore(d, Len(d.events) + 1)
    <2>1. Len(d.events) = Len(db.events) + 1
      BY <1>4, ExtendsFacts
    <2>2. HeadBefore(d, (Len(db.events) + 1) + 1) = HeadBefore(db, Len(db.events) + 1)
      BY <1>4, <1>5, ExtendsHead
    <2>3. QED BY <1>1, <1>7, <2>1, <2>2
  <1>13. d.case # NoCase
    <2>1. NoCase.head = None
      BY DEF NoCase
    <2>2. QED BY <1>1, <1>2, <2>1
  <1>14. ValidCase(d)
    BY <1>3, <1>8, <1>9, <1>11, <1>12, <1>13, ValidParts
  <1>15. Sound(d)
    BY <1>1, <1>2, <1>4, <1>14, WrittenSound
  <1>16. QED BY <1>15 DEF d

\* A case with its reservation.
Reserved(db, revision, attempt) ==
    Log(Qualified(db, revision, attempt, "RUNNING"),
        QualificationEvent(db, revision, attempt, "QUALIFICATION_RESERVED", None))

LEMMA ReservedSound ==
    ASSUME NEW db, Sound(db), ValidCase(db), NEW revision, NEW attempt,
           db.case.result = None, db.case.head = revision
    PROVE  Sound(Reserved(db, revision, attempt))
  <1> DEFINE q == Qualified(db, revision, attempt, "RUNNING")
             event == QualificationEvent(db, revision, attempt, "QUALIFICATION_RESERVED", None)
             d == Log(q, event)
             n == Len(db.events) + 1
  <1>1. /\ q.case.head = db.case.head /\ q.case.source = db.case.source
        /\ q.case.commitments = db.case.commitments /\ q.case.judged = revision
        /\ q.case.attempt = attempt /\ q.case.result = "RUNNING" /\ IsCase(q.case)
        /\ q.revisions = db.revisions /\ q.runs = db.runs /\ q.events = db.events
    BY QualifiedFields
  <1>2. /\ event.revision = revision /\ event.type = "QUALIFICATION_RESERVED"
        /\ event.body.bound = [source |-> db.case.source, commitments |-> db.case.commitments]
        /\ event.body.attempt = attempt /\ event.body.result = None
    BY EventFields
  <1>3. /\ d.case = q.case /\ d.events = Append(q.events, event)
    BY LogFields
  <1>4. d = Log(q, event) /\ d = Reserved(db, revision, attempt)
    BY DEF Reserved
  <1> HIDE DEF q, event, d
  <1>5. IsSeq(db.events) /\ n \in Nat \ {0}
    BY SoundFacts, SeqFacts
  <1>6. Extends(d, db, event)
    BY <1>1, <1>3, <1>5 DEF Extends
  <1>7. QualificationOk(db) /\ db.case.head = HeadBefore(db, n)
    BY ValidParts
  <1>8. Reservations(db) = {} /\ Endings(db) = {}
    BY <1>7, UndecidedFacts
  <1>9. Reservations(d) = {n} /\ Endings(d) = {} /\ RevisionPlaces(d) = RevisionPlaces(db)
    <2>1. Reservations(d) = Reservations(db) \cup {n}
      BY <1>2, <1>6, MorePlaces DEF Reservations
    <2>2. Endings(d) = Endings(db)
      BY <1>2, <1>6, SamePlaces DEF Endings
    <2>3. RevisionPlaces(d) = RevisionPlaces(db)
      BY <1>2, <1>6, SamePlaces DEF RevisionPlaces
    <2>4. QED BY <1>8, <2>1, <2>2, <2>3
  <1>10. d.events[n] = event /\ HeadBefore(d, n) = HeadBefore(db, n)
    <2>1. d.events[n] = event
      BY <1>6, ExtendsFacts
    <2>2. n \in 1 .. n
      BY <1>5
    <2>3. QED BY <1>6, <2>1, <2>2, ExtendsHead
  <1>11. \A j \in RevisionPlaces(d) : j < n
    BY <1>5, <1>9, PlacesFacts, SeqFacts DEF RevisionPlaces
  <1>12. ReservationOk(d, n)
    <2>1. Bound(d, n)
      BY <1>1, <1>2, <1>3, <1>10 DEF Bound
    <2>2. QED BY <1>1, <1>2, <1>3, <1>7, <1>10, <1>11, <2>1 DEF ReservationOk
  <1>13. QualificationOk(d)
    BY <1>1, <1>3, <1>9, <1>12 DEF QualificationOk
  <1>14. RevisionIn(db, event.revision)
    BY <1>2, HeadThere
  <1>15. Sound(d)
    BY <1>1, <1>2, <1>4, <1>13, <1>14, QualifiedSound
  <1>16. QED BY <1>4, <1>15

\* A case with its verdict.
Concluded(db, revision, attempt, state, result) ==
    Log(Ended(db, state), QualificationEvent(db, revision, attempt, TerminalType[state], result))

LEMMA ConcludedSound ==
    ASSUME NEW db, Sound(db), ValidCase(db), NEW revision, NEW attempt, NEW state \in Terminal,
           NEW result, db.case.result = "RUNNING", SameAttempt(db, revision, attempt)
    PROVE  Sound(Concluded(db, revision, attempt, state, result))
  <1> DEFINE q == Ended(db, state)
             event == QualificationEvent(db, revision, attempt, TerminalType[state], result)
             d == Log(q, event)
             n == Len(db.events) + 1
  <1>1. /\ q.case.head = db.case.head /\ q.case.source = db.case.source
        /\ q.case.commitments = db.case.commitments /\ q.case.judged = db.case.judged
        /\ q.case.attempt = db.case.attempt /\ q.case.result = state /\ IsCase(q.case)
        /\ q.revisions = db.revisions /\ q.runs = db.runs /\ q.events = db.events
    BY QualifiedFields DEF Ended
  <1>2. /\ event.revision = revision /\ event.type = TerminalType[state]
        /\ event.body.bound = [source |-> db.case.source, commitments |-> db.case.commitments]
        /\ event.body.attempt = attempt
    BY EventFields
  <1>3. /\ d.case = q.case /\ d.events = Append(q.events, event)
    BY LogFields
  <1>4. d = Log(q, event) /\ d = Concluded(db, revision, attempt, state, result)
    BY DEF Concluded
  <1> HIDE DEF q, event, d
  <1>5. IsSeq(db.events) /\ n \in Nat \ {0}
    BY SoundFacts, SeqFacts
  <1>6. Extends(d, db, event)
    BY <1>1, <1>3, <1>5 DEF Extends
  <1>7. QualificationOk(db) /\ Referenced(db)
    BY ValidParts
  <1>8. Reservations(db) # {} /\ Endings(db) = {}
    BY <1>7, UndecidedFacts
  <1>9. event.type \in {"QUALIFICATION_PASSED", "QUALIFICATION_FAILED"}
    BY <1>2, TerminalTypes
  <1>10. Reservations(d) = Reservations(db) /\ Endings(d) = {n} /\ RevisionPlaces(d) = RevisionPlaces(db)
    <2>1. Endings(d) = Endings(db) \cup {n}
      BY <1>6, <1>9, MorePlaces DEF Endings
    <2>2. Reservations(d) = Reservations(db)
      BY <1>6, <1>9, SamePlaces DEF Reservations
    <2>3. RevisionPlaces(d) = RevisionPlaces(db)
      BY <1>6, <1>9, SamePlaces DEF RevisionPlaces
    <2>4. QED BY <1>8, <2>1, <2>2, <2>3
  <1>11. d.events[n] = event
    BY <1>6, ExtendsFacts
  <1>12. \A i \in Reservations(db) :
            /\ d.events[i] = db.events[i] /\ HeadBefore(d, i) = HeadBefore(db, i) /\ i < n
    <2>1. \A i \in Reservations(db) : d.events[i] = db.events[i] /\ HeadBefore(d, i) = HeadBefore(db, i)
      BY <1>6, OldPlaces DEF Reservations
    <2>2. \A i \in Reservations(db) : i < n
      BY <1>5, PlacesFacts, SeqFacts DEF Reservations
    <2>3. QED BY <2>1, <2>2
  <1>13. PICK j \in Reservations(db) :
            db.events[j].revision = revision /\ db.events[j].body.attempt = attempt
    BY DEF SameAttempt, Reservations
  <1>14. EndingOk(d, n)
    <2>1. Bound(d, n)
      BY <1>1, <1>2, <1>3, <1>11 DEF Bound
    <2>2. QED BY <1>1, <1>2, <1>3, <1>10, <1>11, <1>12, <1>13, <2>1 DEF EndingOk
  <1>15. ASSUME NEW i \in Reservations(db) PROVE ReservationOk(d, i)
    <2>1. ReservationOk(db, i)
      BY <1>7 DEF QualificationOk
    <2>2. Bound(d, i)
      BY <1>1, <1>3, <1>12, <2>1 DEF Bound, ReservationOk
    <2>3. QED BY <1>1, <1>3, <1>10, <1>12, <2>1, <2>2 DEF ReservationOk
  <1>16. QualificationOk(d)
    <2>1. \A i, k \in Reservations(d) : i = k
      BY <1>7, <1>10 DEF QualificationOk
    <2>2. QED BY <1>8, <1>10, <1>14, <1>15, <2>1 DEF QualificationOk
  <1>17. event.revision = None \/ RevisionIn(db, event.revision)
    <2>1. j \in DOMAIN db.events
      BY <1>13 DEF Reservations, Places
    <2>2. QED BY <1>2, <1>7, <1>13, <2>1 DEF Referenced
  <1>18. Sound(d)
    BY <1>1, <1>4, <1>9, <1>16, <1>17, QualifiedSound
  <1>19. QED BY <1>4, <1>18

\* What reserve_qualification leaves: the reservation, or what a retry finds.
LEMMA ReserveFacts ==
    ASSUME NEW db, Sound(db), NEW revision, NEW attempt, NEW expected, NEW bound,
           ReserveQualification(db, revision, attempt, expected, bound).answer # "refused"
    PROVE  /\ ValidCase(db)
           /\ \/ /\ ReserveQualification(db, revision, attempt, expected, bound).db = db
                 /\ db.case.result = "RUNNING" /\ SameAttempt(db, revision, attempt)
              \/ /\ ReserveQualification(db, revision, attempt, expected, bound).db =
                        Reserved(db, revision, attempt)
                 /\ Sound(Reserved(db, revision, attempt))
                 /\ db.case.result = None /\ db.case.head = revision
  <1> DEFINE valid == /\ bound = [source |-> db.case.source, commitments |-> db.case.commitments]
                      /\ ValidCase(db)
             again == db.case.result = "RUNNING" /\ SameAttempt(db, revision, attempt) /\ valid
             ok == db.case.result = None /\ db.case.head = expected /\ revision = expected /\ valid
             d == Reserved(db, revision, attempt)
             o == ReserveQualification(db, revision, attempt, expected, bound)
  <1>1. o = IF db.case = NoCase THEN Outcome(FALSE, db, db)
            ELSE IF again THEN Again(db)
            ELSE Outcome(ok, db, d)
    BY DEF ReserveQualification, Reserved
  <1>2. o.answer # "refused"
    OBVIOUS
  <1>3. d = Reserved(db, revision, attempt)
    OBVIOUS
  <1> HIDE DEF again, ok, d, o
  <1>4. \/ again /\ o.db = db
        \/ ok /\ o.db = d
    BY <1>1, <1>2 DEF Outcome, Again
  <1>5. CASE again /\ o.db = db
    BY <1>5 DEF again, o
  <1>6. CASE ok /\ o.db = d
    <2>1. ValidCase(db) /\ db.case.result = None /\ db.case.head = revision
      BY <1>6 DEF ok
    <2>2. Sound(Reserved(db, revision, attempt))
      BY <2>1, ReservedSound
    <2>3. QED BY <1>3, <1>6, <2>1, <2>2 DEF o
  <1>7. QED BY <1>4, <1>5, <1>6

\* What record_qualification_terminal leaves.
LEMMA RecordTerminalFacts ==
    ASSUME NEW db, Sound(db), NEW revision, NEW attempt, NEW state \in Terminal, NEW result,
           RecordTerminal(db, revision, attempt, state, result).answer = "done"
    PROVE  /\ RecordTerminal(db, revision, attempt, state, result).db =
                  Concluded(db, revision, attempt, state, result)
           /\ Sound(Concluded(db, revision, attempt, state, result))
           /\ ValidCase(db) /\ db.case.result = "RUNNING" /\ SameAttempt(db, revision, attempt)
  <1> DEFINE bad == ~SameAttempt(db, revision, attempt) \/ ~ValidCase(db)
             again == db.case.result = state /\ result \in {None, StoredResult(db)}
             ok == db.case.result = "RUNNING"
             d == Concluded(db, revision, attempt, state, result)
             o == RecordTerminal(db, revision, attempt, state, result)
  <1>1. o = IF bad THEN Outcome(FALSE, db, db)
            ELSE IF again THEN Again(db)
            ELSE Outcome(ok, db, d)
    BY DEF RecordTerminal, Concluded
  <1>2. o.answer = "done"
    OBVIOUS
  <1> HIDE DEF again, ok, d, o, bad
  <1>3. ~bad /\ ok /\ o.db = d
    BY <1>1, <1>2 DEF Outcome, Again
  <1>4. ValidCase(db) /\ db.case.result = "RUNNING" /\ SameAttempt(db, revision, attempt)
    BY <1>3 DEF bad, ok
  <1>5. Sound(Concluded(db, revision, attempt, state, result))
    BY <1>4, ConcludedSound
  <1>6. QED BY <1>3, <1>4, <1>5 DEF d, o
-----------------------------------------------------------------------------

\* A transaction that does not answer "done" changes nothing.
LEMMA OnlyDoneChanges ==
    ASSUME NEW db
    PROVE  /\ \A source, commitments : CreateCase(db, source, commitments).answer # "done" =>
                  CreateCase(db, source, commitments).db = db
           /\ \A event : AppendEvent(db, event).answer # "done" => AppendEvent(db, event).db = db
           /\ \A run, event : RecordRun(db, run, event).answer # "done" =>
                  RecordRun(db, run, event).db = db
           /\ \A row, event, expected : CommitRevision(db, row, event, expected).answer # "done" =>
                  CommitRevision(db, row, event, expected).db = db
           /\ \A revision, attempt, state, result :
                  RecordTerminal(db, revision, attempt, state, result).answer # "done" =>
                      RecordTerminal(db, revision, attempt, state, result).db = db
  <1>1. \A ok, after : Outcome(ok, db, after).answer # "done" => Outcome(ok, db, after).db = db
    BY DEF Outcome
  <1>2. Again(db).db = db
    BY DEF Again
  <1>3. ASSUME NEW source, NEW commitments, CreateCase(db, source, commitments).answer # "done"
        PROVE  CreateCase(db, source, commitments).db = db
    BY <1>1, <1>3 DEF CreateCase
  <1>4. ASSUME NEW event, AppendEvent(db, event).answer # "done" PROVE AppendEvent(db, event).db = db
    BY <1>1, <1>4 DEF AppendEvent
  <1>5. ASSUME NEW run, NEW event, RecordRun(db, run, event).answer # "done"
        PROVE  RecordRun(db, run, event).db = db
    BY <1>1, <1>5 DEF RecordRun
  <1>6. ASSUME NEW row, NEW event, NEW expected, CommitRevision(db, row, event, expected).answer # "done"
        PROVE  CommitRevision(db, row, event, expected).db = db
    BY <1>1, <1>2, <1>6 DEF CommitRevision
  <1>7. ASSUME NEW revision, NEW attempt, NEW state, NEW result,
               RecordTerminal(db, revision, attempt, state, result).answer # "done"
        PROVE  RecordTerminal(db, revision, attempt, state, result).db = db
    <2> DEFINE o == RecordTerminal(db, revision, attempt, state, result)
    <2>1. o = Again(db) \/ \E ok, after : o = Outcome(ok, db, after)
      BY DEF RecordTerminal
    <2> HIDE DEF o
    <2>2. o.answer # "done"
      BY <1>7 DEF o
    <2>3. o.db = db
      BY <1>1, <1>2, <2>1, <2>2
    <2>4. QED BY <2>3 DEF o
  <1>8. QED BY <1>3, <1>4, <1>5, <1>6, <1>7

\* The store never makes a database it would refuse itself: each of its transactions, with
\* any arguments, leaves a case that the replay of the whole ledger accepts, or nothing where
\* there was nothing (EvidenceStore, storage.py).
THEOREM TransactionsKeepSound ==
    ASSUME NEW db, Sound(db)
    PROVE  /\ \A source, commitments : Sound(CreateCase(db, source, commitments).db)
           /\ \A event : Sound(AppendEvent(db, event).db)
           /\ \A run, event : Sound(RecordRun(db, run, event).db)
           /\ \A row, event, expected : Sound(CommitRevision(db, row, event, expected).db)
           /\ \A revision, attempt, expected, bound :
                  Sound(ReserveQualification(db, revision, attempt, expected, bound).db)
           /\ \A revision, attempt, result : \A state \in Terminal :
                  Sound(RecordTerminal(db, revision, attempt, state, result).db)
  <1>1. ASSUME NEW source, NEW commitments PROVE Sound(CreateCase(db, source, commitments).db)
    <2>1. CASE CreateCase(db, source, commitments).answer = "done"
      BY <2>1, CreateCaseFacts, FirstSound
    <2>2. QED BY <2>1, OnlyDoneChanges
  <1>2. ASSUME NEW event PROVE Sound(AppendEvent(db, event).db)
    <2>1. CASE AppendEvent(db, event).answer = "done"
      BY <2>1, AppendEventFacts
    <2>2. QED BY <2>1, OnlyDoneChanges
  <1>3. ASSUME NEW run, NEW event PROVE Sound(RecordRun(db, run, event).db)
    <2>1. CASE RecordRun(db, run, event).answer = "done"
      <3> DEFINE d == IF event = NoEvent THEN WithRun(db, run) ELSE Log(WithRun(db, run), event)
      <3>1. RecordRun(db, run, event).db = d /\ Sound(d)
        BY <2>1, RecordRunFacts
      <3> HIDE DEF d
      <3>2. QED BY <3>1
    <2>2. QED BY <2>1, OnlyDoneChanges
  <1>4. ASSUME NEW row, NEW event, NEW expected
        PROVE  Sound(CommitRevision(db, row, event, expected).db)
    <2>1. CASE CommitRevision(db, row, event, expected).answer = "done"
      BY <2>1, CommitRevisionFacts
    <2>2. QED BY <2>1, OnlyDoneChanges
  <1>5. ASSUME NEW revision, NEW attempt, NEW expected, NEW bound
        PROVE  Sound(ReserveQualification(db, revision, attempt, expected, bound).db)
    <2> DEFINE o == ReserveQualification(db, revision, attempt, expected, bound)
    <2>1. CASE o.answer # "refused"
      <3>1. \/ o.db = db
            \/ o.db = Reserved(db, revision, attempt) /\ Sound(Reserved(db, revision, attempt))
        BY <2>1, ReserveFacts
      <3> HIDE DEF o
      <3>2. QED BY <3>1 DEF o
    <2>2. CASE o.answer = "refused"
      <3>1. \A ok, after : Outcome(ok, db, after).answer = "refused" => Outcome(ok, db, after).db = db
        BY DEF Outcome
      <3>2. Again(db).answer # "refused"
        BY DEF Again
      <3>3. o = Again(db) \/ \E ok, after : o = Outcome(ok, db, after)
        BY DEF ReserveQualification
      <3>4. o.db = db
        BY <2>2, <3>1, <3>2, <3>3
      <3> HIDE DEF o
      <3>5. QED BY <3>4 DEF o
    <2>3. QED BY <2>1, <2>2
  <1>6. ASSUME NEW revision, NEW attempt, NEW result, NEW state \in Terminal
        PROVE  Sound(RecordTerminal(db, revision, attempt, state, result).db)
    <2>1. CASE RecordTerminal(db, revision, attempt, state, result).answer = "done"
      BY <2>1, RecordTerminalFacts
    <2>2. QED BY <2>1, OnlyDoneChanges
  <1>7. QED BY <1>1, <1>2, <1>3, <1>4, <1>5, <1>6
=============================================================================
