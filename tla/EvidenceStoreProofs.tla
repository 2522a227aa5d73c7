------------------------- MODULE EvidenceStoreProofs -------------------------
(***************************************************************************)
(* Proofs about EvidenceStore, for any identifiers and arguments, and any  *)
(* number of events: its case stays sound, all clients hear of one         *)
(* verdict, one damage to the file is noticed, and the store implements    *)
(* CaseHistory.                                                            *)
(***************************************************************************)
EXTENDS EvidenceStore, EvidenceLedgerProofs

-----------------------------------------------------------------------------
(* What is kept of a database d *)

\* The evidence for the revision of place i.
Backed(d, i) ==
    LET v == d.events[i].body.row IN
    /\ \E h \in 1 .. i - 1 : /\ d.events[h].id = v.hypothesis
                             /\ d.events[h].type = "HYPOTHESIS_RECORDED"
                             /\ d.events[h].revision = v.parent
    /\ \E u \in d.runs : u.id = v.probe /\ u.revision = v.parent /\ u.kind = "probe"

Evidenced(d) == \A i \in RevisionPlaces(d) : Backed(d, i)

\* Ordinals number the revisions; the head has the last.
Lined(d) ==
    LET n == Cardinality(d.revisions) IN
    /\ IsFiniteSet(d.revisions)
    /\ \A v \in d.revisions : v.ordinal \in 0 .. n - 1
    /\ \A k \in 0 .. n - 1 : \E v \in d.revisions : v.ordinal = k
    /\ \A v, w \in d.revisions : v.ordinal = w.ordinal => v = w
    /\ d.case # NoCase => \E v \in d.revisions : v.id = d.case.head /\ v.ordinal = n - 1

\* The answer t is what the ledger says.
Knows(d, t) ==
    /\ d.case # NoCase /\ SameAttempt(d, t.revision, t.attempt)
    /\ t.state \in Terminal => d.case.result = t.state /\ t.result = StoredResult(d)

ResultsOk(d) == \A i \in Endings(d) : d.events[i].body.result \in Results \cup {None}

KeptOf(d, answers) ==
    /\ Sound(d) /\ Evidenced(d) /\ Lined(d) /\ ResultsOk(d)
    /\ \A t \in answers : Knows(d, t)

-----------------------------------------------------------------------------
(* How it is kept *)

LEMMA EvidenceStays ==
    ASSUME NEW d, NEW c, NEW event, Extends(d, c, event), c.runs \subseteq d.runs, Evidenced(c),
           event.type = "REVISION_CREATED" => Backed(d, Len(c.events) + 1)
    PROVE  Evidenced(d)
  <1> DEFINE n == Len(c.events) + 1
  <1>1. /\ n \in Nat \ {0} /\ RevisionPlaces(c) \subseteq 1 .. n - 1
        /\ RevisionPlaces(d) = RevisionPlaces(c) \cup
               (IF event.type \in {"REVISION_CREATED"} THEN {n} ELSE {})
        /\ \A i \in 1 .. n - 1 : d.events[i] = c.events[i]
    BY ExtendsFacts DEF RevisionPlaces
  <1>2. event.type = "REVISION_CREATED" => Backed(d, n)
    OBVIOUS
  <1> HIDE DEF n
  <1>3. ASSUME NEW i \in RevisionPlaces(c) PROVE Backed(d, i)
    <2>1. i \in 1 .. n - 1 /\ d.events[i] = c.events[i] /\ \A h \in 1 .. i - 1 : d.events[h] = c.events[h]
      BY <1>1
    <2>2. Backed(c, i)
      BY DEF Evidenced
    <2>3. QED BY <2>1, <2>2 DEF Backed
  <1>4. ASSUME NEW i \in RevisionPlaces(d) PROVE Backed(d, i)
    BY <1>1, <1>2, <1>3
  <1>5. QED BY <1>4 DEF Evidenced

\* Without an event, with another run.
LEMMA EvidenceSame ==
    ASSUME NEW d, NEW c, d.events = c.events, c.runs \subseteq d.runs, Evidenced(c)
    PROVE  Evidenced(d)
  <1>1. RevisionPlaces(d) = RevisionPlaces(c)
    BY DEF RevisionPlaces, Places
  <1>2. ASSUME NEW i \in RevisionPlaces(c) PROVE Backed(d, i)
    <2>1. Backed(c, i)
      BY DEF Evidenced
    <2>2. QED BY <2>1 DEF Backed
  <1>3. QED BY <1>1, <1>2 DEF Evidenced

LEMMA LineStays ==
    ASSUME NEW d, NEW c, Lined(c), d.revisions = c.revisions, d.case.head = c.case.head,
           c.case # NoCase
    PROVE  Lined(d)
  BY DEF Lined

\* The root alone, and a revision more.
LEMMA LineStarts ==
    ASSUME NEW source, NEW commitments
    PROVE  Lined(FirstDatabase(source, commitments))
  <1> DEFINE d == FirstDatabase(source, commitments)
             row == RootRow(source)
  <1>1. d.revisions = {row} /\ d.case.head = Root /\ row.id = Root /\ row.ordinal = 0
    BY DatabaseFields, LogFields DEF FirstDatabase, NewCase, RootRow
  <1> HIDE DEF d, row
  <1>2. IsFiniteSet({row}) /\ Cardinality({row}) = 1
    BY FS_Singleton
  <1>3. Lined(d)
    BY <1>1, <1>2 DEF Lined
  <1>4. QED BY <1>3 DEF d

LEMMA LineGrows ==
    ASSUME NEW d, NEW c, Sound(c), Lined(c), NEW row, row \notin c.revisions,
           d.revisions = c.revisions \cup {row}, d.case.head = row.id, c.case # NoCase,
           \E v \in c.revisions : v.id = c.case.head /\ row.ordinal = v.ordinal + 1
    PROVE  /\ Lined(d) /\ Cardinality(d.revisions) = Cardinality(c.revisions) + 1
           /\ row.ordinal = Cardinality(c.revisions) /\ Cardinality(c.revisions) \in Nat
  <1> DEFINE n == Cardinality(c.revisions)
  <1>1. /\ IsFiniteSet(c.revisions) /\ n \in Nat
    BY FS_CardinalityType DEF Lined
  <1>2. IsFiniteSet(d.revisions) /\ Cardinality(d.revisions) = n + 1
    BY <1>1, FS_AddElement
  <1>3. /\ \A v \in c.revisions : v.ordinal \in 0 .. n - 1
        /\ \A k \in 0 .. n - 1 : \E v \in c.revisions : v.ordinal = k
        /\ \A v, w \in c.revisions : v.ordinal = w.ordinal => v = w
        /\ \E v \in c.revisions : v.id = c.case.head /\ v.ordinal = n - 1
    BY DEF Lined
  <1> HIDE DEF n
  <1>4. row.ordinal = n
    BY <1>1, <1>3, SoundFacts DEF Keyed
  <1>5. \A v \in d.revisions : v.ordinal \in 0 .. n
    BY <1>1, <1>3, <1>4
  <1>6. ASSUME NEW k \in 0 .. n PROVE \E v \in d.revisions : v.ordinal = k
    <2>1. CASE k = n
      BY <1>4, <2>1
    <2>2. CASE k # n
      <3>1. k \in 0 .. n - 1
        BY <1>1, <2>2
      <3>2. QED BY <1>3, <3>1
    <2>3. QED BY <2>1, <2>2
  <1>7. ASSUME NEW v \in d.revisions, NEW w \in d.revisions, v.ordinal = w.ordinal
        PROVE  v = w
    <2>1. \A x \in c.revisions : x.ordinal # n
      BY <1>1, <1>3
    <2>2. QED BY <1>3, <1>4, <1>7, <2>1
  <1>8. Lined(d)
    <2>1. (n + 1) - 1 = n
      BY <1>1
    <2>2. \E v \in d.revisions : v.id = d.case.head /\ v.ordinal = n
      BY <1>4
    <2>3. QED BY <1>2, <1>5, <1>6, <1>7, <2>1, <2>2 DEF Lined
  <1>9. QED BY <1>1, <1>2, <1>4, <1>8 DEF n

LEMMA StoredIn ==
    ASSUME NEW d
    PROVE  /\ Endings(d) = {} => StoredResult(d) = None
           /\ Endings(d) # {} => /\ (CHOOSE i \in Endings(d) : TRUE) \in Endings(d)
                                 /\ StoredResult(d) =
                                        d.events[CHOOSE i \in Endings(d) : TRUE].body.result
           /\ ResultsOk(d) => StoredResult(d) \in Results \cup {None}
  <1> DEFINE R(ended) == IF ended = {} THEN None ELSE d.events[CHOOSE i \in ended : TRUE].body.result
             ended == Places(d, {TerminalType[t] : t \in Terminal})
  <1>a. StoredResult(d) = R(ended)
    BY DEF StoredResult
  <1>b. ended = Endings(d)
    BY TerminalTypes DEF Endings
  <1>1. StoredResult(d) = R(Endings(d))
    <2> HIDE DEF R, ended
    <2>1. QED BY <1>a, <1>b
  <1>2. Endings(d) # {} => (CHOOSE i \in Endings(d) : TRUE) \in Endings(d)
    OBVIOUS
  <1>3. QED BY <1>1, <1>2 DEF ResultsOk

\* An attempt stays the one that was reserved.
LEMMA AttemptStays ==
    ASSUME NEW d, NEW c, NEW event, Extends(d, c, event), NEW r, NEW q, SameAttempt(c, r, q)
    PROVE  SameAttempt(d, r, q)
  <1>1. PICK i \in Places(c, {"QUALIFICATION_RESERVED"}) :
            c.events[i].revision = r /\ c.events[i].body.attempt = q
    BY DEF SameAttempt
  <1>2. i \in Places(d, {"QUALIFICATION_RESERVED"}) /\ d.events[i] = c.events[i]
    BY ExtendsFacts, OldPlaces
  <1>3. QED BY <1>1, <1>2 DEF SameAttempt

\* What is told stays what the ledger says, until it is more.
LEMMA AnswersStay ==
    ASSUME NEW d, NEW c, NEW event, Extends(d, c, event), d.case # NoCase,
           event.type \notin {"QUALIFICATION_PASSED", "QUALIFICATION_FAILED"}
    PROVE  /\ ResultsOk(c) => ResultsOk(d)
           /\ d.case.result = c.case.result => \A t : Knows(c, t) => Knows(d, t)
  <1>1. Endings(d) = Endings(c)
    BY SamePlaces DEF Endings
  <1>2. \A i \in Endings(c) : d.events[i] = c.events[i]
    BY OldPlaces DEF Endings
  <1>3. StoredResult(d) = StoredResult(c)
    <2>1. CASE Endings(c) = {}
      BY <1>1, <2>1, StoredIn
    <2>2. CASE Endings(c) # {}
      <3> DEFINE i == CHOOSE j \in Endings(c) : TRUE
      <3>1. i \in Endings(c) /\ StoredResult(c) = c.events[i].body.result
        BY <2>2, StoredIn
      <3>2. StoredResult(d) = d.events[i].body.result
        BY <1>1, <2>2, StoredIn
      <3> HIDE DEF i
      <3>3. QED BY <1>2, <3>1, <3>2
    <2>3. QED BY <2>1, <2>2
  <1>4. ResultsOk(c) => ResultsOk(d)
    BY <1>1, <1>2 DEF ResultsOk
  <1>5. ASSUME NEW t, Knows(c, t), d.case.result = c.case.result PROVE Knows(d, t)
    BY <1>3, <1>5, AttemptStays DEF Knows
  <1>6. QED BY <1>4, <1>5

LEMMA AnswersSame ==
    ASSUME NEW d, NEW c, d.events = c.events, d.case = c.case
    PROVE  /\ ResultsOk(c) => ResultsOk(d)
           /\ \A t : Knows(c, t) => Knows(d, t)
  <1>1. \A types : Places(d, types) = Places(c, types)
    BY DEF Places
  <1>2. Endings(d) = Endings(c)
    BY <1>1 DEF Endings
  <1>3. StoredResult(d) = StoredResult(c)
    <2> DEFINE R(ended, events) ==
            IF ended = {} THEN None ELSE events[CHOOSE i \in ended : TRUE].body.result
               types == {TerminalType[t] : t \in Terminal}
    <2>1. /\ StoredResult(d) = R(Places(d, types), d.events)
          /\ StoredResult(c) = R(Places(c, types), c.events)
      BY DEF StoredResult
    <2> HIDE DEF R, types
    <2>2. QED BY <1>1, <2>1
  <1>4. \A r, q : SameAttempt(c, r, q) => SameAttempt(d, r, q)
    BY <1>1 DEF SameAttempt
  <1>5. QED BY <1>2, <1>3, <1>4 DEF ResultsOk, Knows

-----------------------------------------------------------------------------
(* What the transactions leave *)

LEMMA CreatedKept ==
    ASSUME NEW c, NEW answers, KeptOf(c, answers), NEW source, NEW commitments,
           CreateCase(c, source, commitments).answer = "done"
    PROVE  LET d == CreateCase(c, source, commitments).db IN
           /\ KeptOf(d, answers) /\ Extends(d, c, CreationEvent(source, commitments))
           /\ d = FirstDatabase(source, commitments) /\ c = NoDatabase
  <1> DEFINE d == FirstDatabase(source, commitments)
             event == CreationEvent(source, commitments)
  <1>1. /\ c = NoDatabase /\ Sound(d) /\ ValidCase(d)
        /\ CreateCase(c, source, commitments).db = d
    BY CreateCaseFacts DEF KeptOf
  <1>2. d.events = Append(c.events, event) /\ c.events = <<>> /\ c.runs = {} /\ c.case = NoCase
    <2>1. c.events = <<>> /\ c.runs = {} /\ c.case = NoCase
      BY <1>1 DEF NoDatabase, Database
    <2>2. d.events = Append(<<>>, event)
      BY DatabaseFields, LogFields DEF FirstDatabase
    <2>3. QED BY <2>1, <2>2
  <1>3. Extends(d, c, event) /\ event.type = "CASE_CREATED"
    BY <1>2, SoundFacts DEF Extends, KeptOf, CreationEvent, EventRow
  <1>4. Lined(d)
    BY LineStarts
  <1> HIDE DEF d, event
  <1>5. Evidenced(d)
    BY <1>2, <1>3, EvidenceStays DEF KeptOf
  <1>6. answers = {}
    BY <1>2 DEF KeptOf, Knows
  <1>7. ResultsOk(d)
    <2>1. Endings(d) = Endings(c)
      BY <1>3, SamePlaces DEF Endings
    <2>2. \A i \in Endings(c) : d.events[i] = c.events[i]
      BY <1>3, OldPlaces DEF Endings
    <2>3. QED BY <2>1, <2>2 DEF ResultsOk, KeptOf
  <1>8. KeptOf(d, answers)
    BY <1>1, <1>4, <1>5, <1>6, <1>7 DEF KeptOf
  <1>9. QED BY <1>1, <1>3, <1>8 DEF d, event

\* A caller's event; a run of its own or none.
LEMMA CallersKept ==
    ASSUME NEW c, NEW answers, KeptOf(c, answers), ValidCase(c),
           NEW d, Sound(d), d.case = c.case, d.revisions = c.revisions, c.runs \subseteq d.runs,
           \/ d.events = c.events
           \/ \E event : Extends(d, c, event) /\ event.type \notin Owned
    PROVE  KeptOf(d, answers)
  <1>1. c.case # NoCase
    BY DEF ValidCase
  <1>2. Lined(d)
    BY <1>1, LineStays DEF KeptOf
  <1>3. CASE d.events = c.events
    BY <1>2, <1>3, EvidenceSame, AnswersSame DEF KeptOf
  <1>4. ASSUME NEW event, Extends(d, c, event), event.type \notin Owned
        PROVE  KeptOf(d, answers)
    <2>1. /\ event.type # "REVISION_CREATED"
          /\ event.type \notin {"QUALIFICATION_PASSED", "QUALIFICATION_FAILED"}
      BY <1>4 DEF Owned
    <2>2. QED BY <1>1, <1>2, <1>4, <2>1, EvidenceStays, AnswersStay DEF KeptOf
  <1>5. QED BY <1>3, <1>4

LEMMA CommittedKept ==
    ASSUME NEW c, NEW answers, KeptOf(c, answers), NEW row, NEW event, NEW expected,
           CommitRevision(c, row, event, expected).answer = "done"
    PROVE  LET d == CommitRevision(c, row, event, expected).db IN
           /\ KeptOf(d, answers) /\ Extends(d, c, event)
           /\ ValidCase(c) /\ Shaped(row, event) /\ ~RevisionIn(c, row.id)
           /\ c.case.result = None /\ SameCase(d.case, c.case) /\ d.case.head = row.id
           /\ d.revisions = c.revisions \cup {row} /\ d.runs = c.runs
           /\ Cardinality(d.revisions) = Cardinality(c.revisions) + 1
           /\ row.ordinal = Cardinality(c.revisions) /\ Cardinality(c.revisions) \in Nat
  <1> DEFINE d == WithRevision(c, row, event)
             n == Len(c.events) + 1
  <1>1. /\ CommitRevision(c, row, event, expected).db = d /\ Sound(d) /\ ValidCase(c)
        /\ Shaped(row, event) /\ ~RevisionIn(c, row.id) /\ CanCommit(c, row, event, expected)
    BY CommitRevisionFacts DEF KeptOf
  <1>2. /\ d.case = Headed(c, row.id) /\ d.revisions = c.revisions \cup {row} /\ d.runs = c.runs
        /\ d.events = Append(c.events, event)
    <2> DEFINE b == Database(Headed(c, row.id), c.revisions \cup {row}, c.runs, c.events)
    <2>1. b.case = Headed(c, row.id) /\ b.revisions = c.revisions \cup {row} /\ b.runs = c.runs /\ b.events = c.events
      BY DatabaseFields
    <2>2. d = Log(b, event)
      BY DEF WithRevision
    <2> HIDE DEF b, d
    <2>3. QED BY <2>1, <2>2, LogFields
  <1>3. IsCase(c.case) /\ c.case # NoCase /\ IsSeq(c.events)
    <2>1. Sound(c) /\ ValidCase(c)
      BY <1>1 DEF KeptOf
    <2>2. QED BY <2>1, SoundFacts
  <1> HIDE DEF d
  <1>4. SameCase(d.case, c.case) /\ d.case.head = row.id
    BY <1>2, <1>3, HeadedFields
  <1>5. Extends(d, c, event) /\ event.type = "REVISION_CREATED" /\ event.body.row = row
    BY <1>1, <1>2, <1>3 DEF Extends, Shaped
  <1>6. d.case # NoCase /\ d.case.result = c.case.result
    BY <1>1, <1>4 DEF Shaped, NoCase, SameCase
  <1>7. row \notin c.revisions
    BY <1>1 DEF RevisionIn
  <1>8. \E v \in c.revisions : v.id = c.case.head /\ row.ordinal = v.ordinal + 1
    BY <1>1 DEF CanCommit
  <1>9. /\ Lined(d) /\ Cardinality(d.revisions) = Cardinality(c.revisions) + 1
        /\ row.ordinal = Cardinality(c.revisions) /\ Cardinality(c.revisions) \in Nat
    BY <1>2, <1>3, <1>4, <1>7, <1>8, LineGrows DEF KeptOf
  <1>10. Backed(d, n)
    <2>1. Cites(c, row)
      BY <1>1 DEF CanCommit
    <2>2. /\ n \in Nat /\ d.events[n] = event /\ DOMAIN c.events = 1 .. n - 1
          /\ \A i \in 1 .. n - 1 : d.events[i] = c.events[i]
      BY <1>5, ExtendsFacts
    <2> HIDE DEF n
    <2>3. d.runs = c.runs /\ d.events[n].body.row = row
      BY <1>2, <1>5, <2>2
    <2>4. QED BY <2>1, <2>2, <2>3 DEF Backed, Cites
  <1>11. Evidenced(d)
    BY <1>2, <1>5, <1>10, EvidenceStays DEF KeptOf
  <1>12. ResultsOk(d) /\ \A t \in answers : Knows(d, t)
    BY <1>5, <1>6, AnswersStay DEF KeptOf
  <1>13. KeptOf(d, answers)
    BY <1>1, <1>9, <1>11, <1>12 DEF KeptOf
  <1>14. c.case.result = None
    BY <1>1 DEF CanCommit
  <1>15. QED BY <1>1, <1>2, <1>4, <1>5, <1>9, <1>13, <1>14

\* The reservation of an attempt.
LEMMA ReservedKept ==
    ASSUME NEW c, NEW answers, KeptOf(c, answers), ValidCase(c), NEW r, NEW q,
           Sound(Reserved(c, r, q)), c.case.result = None, NEW t, t.state = "RUNNING",
           t.revision = r, t.attempt = q
    PROVE  LET d == Reserved(c, r, q) IN
           /\ KeptOf(d, answers \cup {t})
           /\ Extends(d, c, QualificationEvent(c, r, q, "QUALIFICATION_RESERVED", None))
           /\ d.revisions = c.revisions /\ d.runs = c.runs
           /\ d.case.head = c.case.head /\ d.case.judged = r /\ d.case.attempt = q
           /\ d.case.result = "RUNNING"
  <1> DEFINE d == Reserved(c, r, q)
             event == QualificationEvent(c, r, q, "QUALIFICATION_RESERVED", None)
             n == Len(c.events) + 1
  <1>1. /\ d.events = Append(c.events, event) /\ d.revisions = c.revisions /\ d.runs = c.runs
        /\ d.case.head = c.case.head /\ d.case.judged = r /\ d.case.attempt = q
        /\ d.case.result = "RUNNING"
    BY LogFields, QualifiedFields DEF Reserved
  <1>2. /\ event.revision = r /\ event.type = "QUALIFICATION_RESERVED"
        /\ event.body.attempt = q
    BY DEF QualificationEvent, EventRow
  <1>3. IsSeq(c.events) /\ c.case # NoCase /\ c.case.head # None
    BY SoundFacts DEF KeptOf
  <1> HIDE DEF d, event
  <1>4. Extends(d, c, event) /\ d.case # NoCase
    BY <1>1, <1>3 DEF Extends, NoCase
  <1>5. Lined(d)
    BY <1>1, <1>3, LineStays DEF KeptOf
  <1>6. Evidenced(d)
    BY <1>1, <1>2, <1>4, EvidenceStays DEF KeptOf
  <1>7. answers = {}
    <2>1. Reservations(c) = {}
      BY ValidParts, UndecidedFacts
    <2>2. \A u \in answers : SameAttempt(c, u.revision, u.attempt)
      BY DEF KeptOf, Knows
    <2>3. QED BY <2>1, <2>2 DEF SameAttempt, Reservations
  <1>8. ResultsOk(d)
    BY <1>2, <1>4, AnswersStay DEF KeptOf
  <1>9. Knows(d, t)
    <2>1. n \in Places(d, {"QUALIFICATION_RESERVED"}) /\ d.events[n] = event
      BY <1>2, <1>4, ExtendsFacts, MorePlaces
    <2>2. SameAttempt(d, r, q)
      BY <1>2, <2>1 DEF SameAttempt
    <2>3. t.state \notin Terminal
      BY TerminalTypes
    <2>4. QED BY <1>4, <2>2, <2>3 DEF Knows
  <1>10. Sound(d)
    BY DEF d
  <1>11. KeptOf(d, answers \cup {t})
    BY <1>5, <1>6, <1>7, <1>8, <1>9, <1>10 DEF KeptOf
  <1>12. QED BY <1>1, <1>4, <1>11 DEF d, event

\* The verdict.
LEMMA ConcludedKept ==
    ASSUME NEW c, NEW answers, KeptOf(c, answers), ValidCase(c), NEW r, NEW q,
           NEW s \in Terminal, NEW x \in Results \cup {None}, Sound(Concluded(c, r, q, s, x)),
           c.case.result = "RUNNING", SameAttempt(c, r, q), NEW t, t.state = s,
           t.revision = r, t.attempt = q, t.result = x
    PROVE  LET d == Concluded(c, r, q, s, x) IN
           /\ KeptOf(d, answers \cup {t})
           /\ Extends(d, c, QualificationEvent(c, r, q, TerminalType[s], x))
           /\ d.revisions = c.revisions /\ d.runs = c.runs
           /\ d.case.head = c.case.head /\ d.case.judged = c.case.judged
           /\ d.case.attempt = c.case.attempt /\ d.case.result = s
  <1> DEFINE d == Concluded(c, r, q, s, x)
             event == QualificationEvent(c, r, q, TerminalType[s], x)
             n == Len(c.events) + 1
  <1>1. /\ d.events = Append(c.events, event) /\ d.revisions = c.revisions /\ d.runs = c.runs
        /\ d.case.head = c.case.head /\ d.case.judged = c.case.judged
        /\ d.case.attempt = c.case.attempt /\ d.case.result = s
    BY LogFields, QualifiedFields DEF Concluded, Ended
  <1>2. event.type = TerminalType[s] /\ event.body.result = x
    BY DEF QualificationEvent, EventRow
  <1>3. IsSeq(c.events) /\ c.case # NoCase /\ c.case.head # None
    BY SoundFacts DEF KeptOf
  <1> HIDE DEF d, event
  <1>4. Extends(d, c, event) /\ d.case # NoCase
    BY <1>1, <1>3 DEF Extends, NoCase
  <1>5. Lined(d)
    BY <1>1, <1>3, LineStays DEF KeptOf
  <1>6. event.type \in {"QUALIFICATION_PASSED", "QUALIFICATION_FAILED"}
    BY <1>2, TerminalTypes
  <1>7. Evidenced(d)
    BY <1>1, <1>4, <1>6, EvidenceStays DEF KeptOf
  <1>8. Endings(d) = {n} /\ d.events[n] = event
    <2>1. Endings(c) = {}
      BY ValidParts, UndecidedFacts
    <2>2. QED BY <1>4, <1>6, <2>1, MorePlaces, ExtendsFacts DEF Endings
  <1> HIDE DEF n
  <1>9. ResultsOk(d) /\ StoredResult(d) = x
    <2>1. ResultsOk(d)
      BY <1>2, <1>8 DEF ResultsOk
    <2>2. (CHOOSE i \in Endings(d) : TRUE) = n
      BY <1>8, StoredIn
    <2>3. QED BY <1>2, <1>8, <2>1, <2>2, StoredIn
  <1>10. Knows(d, t)
    <2>1. SameAttempt(d, r, q)
      BY <1>4, AttemptStays
    <2>2. QED BY <1>1, <1>4, <1>9, <2>1 DEF Knows
  <1>11. ASSUME NEW u \in answers PROVE Knows(d, u)
    <2>1. Knows(c, u)
      BY DEF KeptOf
    <2>2. u.state \notin Terminal
      BY <2>1, TerminalTypes DEF Knows
    <2>3. SameAttempt(d, u.revision, u.attempt)
      BY <1>4, <2>1, AttemptStays DEF Knows
    <2>4. QED BY <1>4, <2>2, <2>3 DEF Knows
  <1>12. Sound(d)
    BY DEF d
  <1>13. KeptOf(d, answers \cup {t})
    BY <1>5, <1>7, <1>9, <1>10, <1>11, <1>12 DEF KeptOf
  <1>14. QED BY <1>1, <1>4, <1>13 DEF d, event

\* An answer that the ledger gives.
LEMMA ReadKept ==
    ASSUME NEW c, NEW answers, KeptOf(c, answers), NEW t, Knows(c, t)
    PROVE  KeptOf(c, answers \cup {t})
  BY DEF KeptOf

-----------------------------------------------------------------------------
(* The file: the rows rs of the ledger, n of them *)

PrevIn(rs, i) == IF i = 1 THEN <<>> ELSE rs[i - 1].hash

ChainOf(rs, n) ==
    /\ Len(rs) = n
    /\ \A i \in DOMAIN rs : rs[i].prev = PrevIn(rs, i) /\ rs[i].hash = Append(rs[i].prev, rs[i].event)

IsRow(x) == x = [event |-> x.event, prev |-> x.prev, hash |-> x.hash] /\ IsSeq(x.prev)

\* A ledger as the calls write it.
LedgerFile(rs, n) == IsSeq(rs) /\ ChainOf(rs, n) /\ \A i \in DOMAIN rs : IsRow(rs[i])

EventsOf(rs) == [i \in DOMAIN rs |-> rs[i].event]

RowFor(rs, event) == LET prev == PrevIn(rs, Len(rs) + 1) IN
    [event |-> event, prev |-> prev, hash |-> Append(prev, event)]

LEMMA EmptyFile == LedgerFile(<<>>, 0) /\ EventsOf(<<>>) = <<>>
  BY DEF LedgerFile, ChainOf, IsSeq, EventsOf

LEMMA EventsFacts ==
    ASSUME NEW rs, IsSeq(rs)
    PROVE  /\ IsSeq(EventsOf(rs)) /\ Len(EventsOf(rs)) = Len(rs)
           /\ \A i \in 1 .. Len(rs) : EventsOf(rs)[i] = rs[i].event
  <1> DEFINE q == EventsOf(rs)
             S == {q[i] : i \in DOMAIN q}
  <1>1. Len(rs) \in Nat /\ DOMAIN rs = 1 .. Len(rs)
    BY SeqFacts
  <1>2. /\ q = [i \in 1 .. Len(rs) |-> rs[i].event] /\ DOMAIN q = 1 .. Len(rs)
        /\ \A i \in 1 .. Len(rs) : q[i] = rs[i].event
    BY <1>1 DEF EventsOf
  <1>3. q = [i \in 1 .. Len(rs) |-> q[i]] /\ \A i \in 1 .. Len(rs) : q[i] \in S
    BY <1>2
  <1> HIDE DEF q
  <1>4. q \in Seq(S) /\ Len(q) = Len(rs)
    <2> HIDE DEF S
    <2>1. QED BY <1>1, <1>2, <1>3
  <1>5. QED BY <1>2, <1>4 DEF IsSeq, q

\* Two sequences with the same members.
LEMMA SameSeq ==
    ASSUME NEW p, NEW q, IsSeq(p), IsSeq(q), Len(p) = Len(q),
           \A i \in 1 .. Len(p) : p[i] = q[i]
    PROVE  p = q
  <1> DEFINE S == {p[i] : i \in DOMAIN p} \cup {q[i] : i \in DOMAIN q}
  <1>1. p \in Seq(S) /\ q \in Seq(S)
    BY DEF IsSeq
  <1> HIDE DEF S
  <1>2. QED BY <1>1, SeqEqual

LEMMA FileGrows ==
    ASSUME NEW rs, NEW n, LedgerFile(rs, n), NEW event
    PROVE  LET t == Append(rs, RowFor(rs, event)) IN
           LedgerFile(t, n + 1) /\ EventsOf(t) = Append(EventsOf(rs), event)
  <1> DEFINE x == RowFor(rs, event)
             t == Append(rs, x)
             m == n + 1
             e == Append(EventsOf(rs), event)
  <1>1. /\ IsSeq(rs) /\ Len(rs) = n /\ n \in Nat /\ DOMAIN rs = 1 .. n
        /\ \A i \in 1 .. n : /\ rs[i].prev = PrevIn(rs, i) /\ IsRow(rs[i])
                             /\ rs[i].hash = Append(rs[i].prev, rs[i].event)
    BY SeqFacts DEF LedgerFile, ChainOf
  <1>2. /\ x.event = event /\ x.prev = PrevIn(rs, m) /\ x.hash = Append(x.prev, x.event)
        /\ x = [event |-> x.event, prev |-> x.prev, hash |-> x.hash]
    BY <1>1 DEF RowFor
  <1> HIDE DEF x
  <1>3. /\ IsSeq(t) /\ Len(t) = m /\ DOMAIN t = 1 .. m
        /\ \A i \in 1 .. n : t[i] = rs[i]
        /\ t[m] = x
    <2>1. /\ IsSeq(t) /\ Len(t) = m /\ t[m] = x
          /\ \A i \in 1 .. n : t[i] = rs[i]
      BY <1>1, AppendSeq
    <2>2. DOMAIN t = 1 .. m
      BY <2>1, SeqFacts
    <2>3. QED BY <2>1, <2>2
  <1>4. IsSeq(x.prev)
    <2>1. CASE n = 0
      <3>1. x.prev = <<>>
        BY <1>2, <2>1 DEF PrevIn
      <3>2. QED BY <3>1 DEF IsSeq
    <2>2. CASE n # 0
      <3>1. x.prev = rs[n].hash /\ n \in 1 .. n
        BY <1>1, <1>2, <2>2 DEF PrevIn
      <3>2. x.prev = Append(rs[n].prev, rs[n].event) /\ IsSeq(rs[n].prev)
        BY <1>1, <3>1 DEF IsRow
      <3>3. QED BY <3>2, AppendSeq
    <2>3. QED BY <2>1, <2>2
  <1> HIDE DEF t
  <1>5. \A i \in 1 .. m : PrevIn(t, i) = PrevIn(rs, i)
    BY <1>1, <1>3 DEF PrevIn
  <1>6. ASSUME NEW i \in 1 .. m
        PROVE  /\ t[i].prev = PrevIn(t, i) /\ IsRow(t[i])
               /\ t[i].hash = Append(t[i].prev, t[i].event)
    <2>1. CASE i = m
      BY <1>2, <1>3, <1>4, <1>5, <2>1 DEF IsRow
    <2>2. CASE i \in 1 .. n
      <3>1. t[i] = rs[i] /\ PrevIn(t, i) = PrevIn(rs, i)
        BY <1>3, <1>5, <2>2
      <3>2. QED BY <1>1, <2>2, <3>1
    <2>3. i = m \/ i \in 1 .. n
      BY <1>1
    <2>4. QED BY <2>1, <2>2, <2>3
  <1>7. LedgerFile(t, m)
    BY <1>3, <1>6 DEF LedgerFile, ChainOf
  <1>8. EventsOf(t) = e
    <2>1. /\ IsSeq(EventsOf(t)) /\ Len(EventsOf(t)) = m
          /\ \A i \in 1 .. m : EventsOf(t)[i] = t[i].event
      BY <1>3, EventsFacts
    <2>2. /\ IsSeq(EventsOf(rs)) /\ Len(EventsOf(rs)) = n
          /\ \A i \in 1 .. n : EventsOf(rs)[i] = rs[i].event
      BY <1>1, EventsFacts
    <2>3. /\ IsSeq(e) /\ Len(e) = m /\ e[m] = event
          /\ \A i \in 1 .. n : e[i] = EventsOf(rs)[i]
      BY <2>2, AppendSeq
    <2> HIDE DEF e
    <2>4. ASSUME NEW i \in 1 .. m PROVE EventsOf(t)[i] = e[i]
      <3>1. CASE i = m
        BY <1>2, <1>3, <2>1, <2>3, <3>1
      <3>2. CASE i \in 1 .. n
        BY <1>3, <2>1, <2>2, <2>3, <3>2
      <3>3. i = m \/ i \in 1 .. n
        BY <1>1
      <3>4. QED BY <3>1, <3>2, <3>3
    <2>5. QED BY <2>1, <2>3, <2>4, SameSeq
  <1>9. QED BY <1>7, <1>8 DEF t, x

-----------------------------------------------------------------------------
(* Damage to the ledger *)

\* A row less is missed, as sqlite_sequence does not go back.
LEMMA RowMissed ==
    ASSUME NEW rs, NEW n, LedgerFile(rs, n), NEW i \in DOMAIN rs
    PROVE  LET t == SubSeq(rs, 1, i - 1) \o SubSeq(rs, i + 1, Len(rs)) IN
           ~ChainOf(t, n) /\ Len(t) = n - 1 /\ n \in Nat \ {0}
  <1> DEFINE S == {rs[j] : j \in DOMAIN rs}
             u == SubSeq(rs, 1, i - 1)
             v == SubSeq(rs, i + 1, Len(rs))
  <1>1. rs \in Seq(S) /\ Len(rs) = n /\ n \in Nat /\ i \in 1 .. n
    BY SeqFacts DEF LedgerFile, ChainOf, IsSeq
  <1> HIDE DEF S
  <1>2. u \in Seq(S) /\ Len(u) = i - 1
    BY <1>1, SubSeqProperties
  <1>3. v \in Seq(S) /\ Len(v) = n - i
    BY <1>1, SubSeqProperties
  <1> HIDE DEF u, v
  <1>4. Len(u \o v) = Len(u) + Len(v)
    BY <1>2, <1>3, ConcatProperties
  <1>5. (i - 1) + (n - i) = n - 1 /\ n - 1 # n /\ n \in Nat \ {0}
    BY <1>1
  <1>6. Len(u \o v) = n - 1 /\ ~ChainOf(u \o v, n)
    BY <1>2, <1>3, <1>4, <1>5 DEF ChainOf
  <1>7. QED BY <1>5, <1>6 DEF u, v

\* An event that changes does not fit its hash.
LEMMA EventNoticed ==
    ASSUME NEW rs, NEW n, LedgerFile(rs, n), NEW i \in DOMAIN rs, NEW f, f # rs[i].event
    PROVE  ~ChainOf([rs EXCEPT ![i].event = f], n)
  <1> DEFINE t == [rs EXCEPT ![i].event = f]
             p == rs[i].prev
  <1>1. IsSeq(p) /\ rs[i] = [event |-> rs[i].event, prev |-> p, hash |-> Append(p, rs[i].event)]
    BY DEF LedgerFile, ChainOf, IsRow
  <1>2. i \in DOMAIN t /\ t[i].event = f /\ t[i].prev = p /\ t[i].hash = Append(p, rs[i].event)
    BY <1>1
  <1> HIDE DEF t, p
  <1>3. Append(p, rs[i].event) # Append(p, f)
    BY <1>1, AppendSeq
  <1>4. ~ChainOf(t, n)
    BY <1>2, <1>3 DEF ChainOf
  <1>5. QED BY <1>4 DEF t

\* A hash that changes does not fit the row.
LEMMA HashNoticed ==
    ASSUME NEW rs, NEW n, LedgerFile(rs, n), NEW i \in DOMAIN rs, NEW x
    PROVE  /\ LET t == [rs EXCEPT ![i].prev = x] IN t = rs \/ ~ChainOf(t, n)
           /\ LET t == [rs EXCEPT ![i].hash = x] IN t = rs \/ ~ChainOf(t, n)
  <1>1. /\ rs[i] = [event |-> rs[i].event, prev |-> rs[i].prev, hash |-> rs[i].hash]
        /\ rs[i].prev = PrevIn(rs, i) /\ rs[i].hash = Append(rs[i].prev, rs[i].event)
        /\ i \in Nat /\ DOMAIN rs = 1 .. Len(rs) /\ Len(rs) \in Nat
        /\ rs = [j \in DOMAIN rs |-> rs[j]]
    <2>1. IsSeq(rs)
      BY DEF LedgerFile
    <2>2. rs = [j \in DOMAIN rs |-> rs[j]]
      BY <2>1 DEF IsSeq
    <2>3. i \in Nat /\ DOMAIN rs = 1 .. Len(rs) /\ Len(rs) \in Nat
      BY <2>1, SeqFacts
    <2>4. QED BY <2>2, <2>3 DEF LedgerFile, ChainOf, IsRow
  <1>2. LET t == [rs EXCEPT ![i].prev = x] IN t = rs \/ ~ChainOf(t, n)
    <2> DEFINE t == [rs EXCEPT ![i].prev = x]
    <2> SUFFICES ASSUME ChainOf(t, n) PROVE t = rs
      OBVIOUS
    <2>1. i \in DOMAIN t /\ t[i].prev = x /\ (i # 1 => t[i - 1] = rs[i - 1])
      BY <1>1
    <2> HIDE DEF t
    <2>2. x = PrevIn(rs, i)
      BY <2>1 DEF ChainOf, PrevIn
    <2>3. [rs[i] EXCEPT !.prev = x] = rs[i]
      BY <1>1, <2>2
    <2>4. QED BY <1>1, <2>3 DEF t
  <1>3. LET t == [rs EXCEPT ![i].hash = x] IN t = rs \/ ~ChainOf(t, n)
    <2> DEFINE t == [rs EXCEPT ![i].hash = x]
    <2> SUFFICES ASSUME ChainOf(t, n) PROVE t = rs
      OBVIOUS
    <2>1. i \in DOMAIN t /\ t[i].hash = x /\ t[i].prev = rs[i].prev /\ t[i].event = rs[i].event
      BY <1>1
    <2> HIDE DEF t
    <2>2. x = rs[i].hash
      BY <1>1, <2>1 DEF ChainOf
    <2>3. [rs[i] EXCEPT !.hash = x] = rs[i]
      BY <1>1, <2>2
    <2>4. QED BY <1>1, <2>3 DEF t
  <1>4. QED BY <1>2, <1>3

-----------------------------------------------------------------------------
(* Damage to the tables *)

\* A ledger has one row of "cases" that it fits.
LEMMA CaseDetermined ==
    ASSUME NEW d, NEW e, ValidCase(d), ValidCase(e), IsCase(d.case), IsCase(e.case),
           IsSeq(d.events), e.events = d.events
    PROVE  e.case = d.case
  <1>1. \A types : Places(e, types) = Places(d, types)
    BY DEF Places
  <1>2. /\ Reservations(e) = Reservations(d) /\ Endings(e) = Endings(d)
        /\ RevisionPlaces(e) = RevisionPlaces(d)
    BY <1>1 DEF Reservations, Endings, RevisionPlaces
  <1>3. ASSUME NEW i PROVE HeadBefore(e, i) = HeadBefore(d, i)
    <2>1. Before(e, i) = Before(d, i)
      BY <1>2 DEF Before
    <2>2. CASE Before(d, i) = {}
      BY <2>1, <2>2, HeadFacts
    <2>3. CASE Before(d, i) # {}
      <3>1. PICK m \in Before(d, i) : \A k \in Before(d, i) : k <= m
        BY <2>3, HeadFacts
      <3>2. QED BY <2>1, <3>1, HeadFacts
    <2>4. QED BY <2>2, <2>3
  <1>4. /\ CreationOk(d) /\ CreationOk(e) /\ QualificationOk(d) /\ QualificationOk(e)
        /\ d.case.head = HeadBefore(d, Len(d.events) + 1)
        /\ e.case.head = HeadBefore(e, Len(d.events) + 1)
    BY ValidParts
  <1>5. e.case.head = d.case.head
    BY <1>3, <1>4
  <1>6. e.case.source = d.case.source /\ e.case.commitments = d.case.commitments
    <2>1. PICK i : Places(d, {"CASE_CREATED"}) = {i} /\ Bound(d, i)
      BY <1>4 DEF CreationOk
    <2>2. Bound(e, i)
      BY <1>1, <1>4, <2>1 DEF CreationOk
    <2>3. [source |-> e.case.source, commitments |-> e.case.commitments] =
              [source |-> d.case.source, commitments |-> d.case.commitments]
      BY <2>1, <2>2 DEF Bound
    <2>4. QED BY <2>3
  <1>7. /\ e.case.judged = d.case.judged /\ e.case.attempt = d.case.attempt
        /\ e.case.result = d.case.result
    <2>1. CASE Reservations(d) = {}
      BY <1>2, <1>4, <2>1 DEF QualificationOk
    <2>2. CASE Reservations(d) # {}
      <3>1. PICK i \in Reservations(d) : ReservationOk(d, i) /\ ReservationOk(e, i)
        BY <1>2, <1>4, <2>2 DEF QualificationOk
      <3>2. e.case.judged = d.case.judged /\ e.case.attempt = d.case.attempt
        BY <3>1 DEF ReservationOk
      <3>3. CASE Endings(d) = {}
        BY <1>2, <1>4, <2>2, <3>2, <3>3 DEF QualificationOk
      <3>4. CASE Endings(d) # {}
        <4>1. PICK k \in Endings(d) : EndingOk(d, k) /\ EndingOk(e, k)
          BY <1>2, <1>4, <3>4 DEF QualificationOk
        <4>2. /\ d.case.result \in Terminal /\ e.case.result \in Terminal
              /\ TerminalType[d.case.result] = TerminalType[e.case.result]
          BY <4>1 DEF EndingOk
        <4>3. QED BY <3>2, <4>2 DEF Terminal, TerminalType
      <3>5. QED BY <3>3, <3>4
    <2>3. QED BY <2>1, <2>2
  <1>8. QED BY <1>5, <1>6, <1>7 DEF IsCase

\* It has the rows of "revisions" that it tells of, and the runs they cite.
LEMMA RowsDetermined ==
    ASSUME NEW d, NEW e, Sound(d), ValidCase(d), ValidCase(e), e.events = d.events, e.case = d.case,
           NEW v \in d.revisions
    PROVE  /\ v \in e.revisions
           /\ \A u \in d.runs : u.id = v.probe /\ u.id # None => u \in e.runs
  <1>1. /\ RowsOk(d) /\ RowsOk(e) /\ Keyed(d.revisions) /\ Keyed(d.runs)
        /\ RevisionPlaces(e) = RevisionPlaces(d)
    BY ValidParts, SoundFacts DEF RevisionPlaces, Places
  <1>2. CASE v.id = Root
    <2> DEFINE root == RootRow(d.case.source)
    <2>1. root \in d.revisions /\ root \in e.revisions
      BY <1>1 DEF RowsOk
    <2>2. root.id = Root /\ root.probe = None
      BY DEF RootRow
    <2> HIDE DEF root
    <2>3. v = root
      BY <1>1, <1>2, <2>1, <2>2 DEF Keyed
    <2>4. QED BY <2>1, <2>2, <2>3
  <1>3. CASE v.id # Root
    <2>1. PICK i \in RevisionPlaces(d) : v.id = d.events[i].revision
      BY <1>1, <1>3 DEF RowsOk
    <2>2. RevisionOk(d, i) /\ RevisionOk(e, i)
      BY <1>1 DEF RowsOk
    <2>3. d.events[i].body.row = v /\ d.events[i].body.run \in {u \in d.runs : u.id = v.probe}
      BY <1>1, <2>1, <2>2 DEF RevisionOk, Keyed
    <2>4. v \in e.revisions /\ d.events[i].body.run \in e.runs
      BY <2>2, <2>3 DEF RevisionOk
    <2>5. QED BY <1>1, <2>3, <2>4 DEF Keyed
  <1>4. QED BY <1>2, <1>3

-----------------------------------------------------------------------------
(* What the transactions do to the case that is promised *)

LEMMA LineFacts ==
    ASSUME NEW d, Lined(d)
    PROVE  /\ Cardinality(d.revisions) \in Nat /\ IsSeq(LineOf(d))
           /\ Len(LineOf(d)) = Cardinality(d.revisions)
           /\ \A v \in d.revisions : /\ v.ordinal + 1 \in 1 .. Cardinality(d.revisions)
                                     /\ LineOf(d)[v.ordinal + 1] = v.id
           /\ \A i \in 1 .. Cardinality(d.revisions) : \E v \in d.revisions :
                  LineOf(d)[i] = v.id /\ v.ordinal = i - 1
  <1> DEFINE n == Cardinality(d.revisions)
             row(i) == CHOOSE v \in d.revisions : v.ordinal = i - 1
             q == LineOf(d)
  <1>1. n \in Nat
    BY FS_CardinalityType DEF Lined
  <1>2. /\ \A v \in d.revisions : v.ordinal \in 0 .. n - 1
        /\ \A k \in 0 .. n - 1 : \E v \in d.revisions : v.ordinal = k
        /\ \A v, w \in d.revisions : v.ordinal = w.ordinal => v = w
    BY DEF Lined
  <1>3. q = [i \in 1 .. n |-> row(i).id]
    BY DEF LineOf
  <1> HIDE DEF n, q
  <1>4. ASSUME NEW i \in 1 .. n PROVE row(i) \in d.revisions /\ row(i).ordinal = i - 1
    <2>1. i - 1 \in 0 .. n - 1
      BY <1>1
    <2>2. \E v \in d.revisions : v.ordinal = i - 1
      BY <1>2, <2>1
    <2>3. QED BY <2>2
  <1> HIDE DEF row
  <1>5. \A i \in 1 .. n : \E v \in d.revisions : q[i] = v.id /\ v.ordinal = i - 1
    BY <1>3, <1>4
  <1>6. ASSUME NEW v \in d.revisions
        PROVE  v.ordinal + 1 \in 1 .. n /\ q[v.ordinal + 1] = v.id
    <2>1. v.ordinal + 1 \in 1 .. n /\ (v.ordinal + 1) - 1 = v.ordinal
      BY <1>1, <1>2
    <2>2. row(v.ordinal + 1) = v
      BY <1>2, <1>4, <2>1
    <2>3. QED BY <1>3, <2>1, <2>2
  <1>7. IsSeq(q) /\ Len(q) = n
    <2> DEFINE S == {q[i] : i \in DOMAIN q}
    <2>1. DOMAIN q = 1 .. n /\ q = [i \in 1 .. n |-> q[i]] /\ \A i \in 1 .. n : q[i] \in S
      BY <1>3
    <2> HIDE DEF S
    <2>2. q \in Seq(S) /\ Len(q) = n
      BY <1>1, <2>1
    <2>3. QED BY <2>2 DEF IsSeq, S
  <1>8. QED BY <1>1, <1>5, <1>6, <1>7 DEF n, q

LEMMA LineSame ==
    ASSUME NEW d, NEW c, Lined(d), Lined(c), d.revisions = c.revisions
    PROVE  LineOf(d) = LineOf(c)
  <1>1. ASSUME NEW i \in 1 .. Len(LineOf(d)) PROVE LineOf(d)[i] = LineOf(c)[i]
    <2>1. PICK v \in d.revisions : LineOf(d)[i] = v.id /\ v.ordinal = i - 1
      BY LineFacts
    <2>2. LineOf(c)[v.ordinal + 1] = v.id /\ v.ordinal + 1 = i
      BY <2>1, LineFacts
    <2>3. QED BY <2>1, <2>2
  <1>2. /\ IsSeq(LineOf(d)) /\ IsSeq(LineOf(c)) /\ Len(LineOf(d)) = Len(LineOf(c))
    BY LineFacts
  <1>3. QED BY <1>1, <1>2, SameSeq

\* The row comes after the others.
Follows(d, c, row) ==
    /\ d.revisions = c.revisions \cup {row}
    /\ row.ordinal = Cardinality(c.revisions)
    /\ Cardinality(d.revisions) = Cardinality(c.revisions) + 1

LEMMA LineLonger ==
    ASSUME NEW d, NEW c, Lined(d), Lined(c), NEW row, Follows(d, c, row)
    PROVE  LineOf(d) = Append(LineOf(c), row.id)
  <1> DEFINE n == Cardinality(c.revisions)
             t == Append(LineOf(c), row.id)
  <1>1. /\ n \in Nat /\ IsSeq(LineOf(c)) /\ Len(LineOf(c)) = n
        /\ IsSeq(LineOf(d)) /\ Len(LineOf(d)) = n + 1
    BY LineFacts DEF Follows
  <1>2. /\ IsSeq(t) /\ Len(t) = n + 1 /\ t[n + 1] = row.id
        /\ \A i \in 1 .. n : t[i] = LineOf(c)[i]
    BY <1>1, AppendSeq
  <1> HIDE DEF t
  <1>3. ASSUME NEW i \in 1 .. n + 1 PROVE LineOf(d)[i] = t[i]
    <2>1. CASE i = n + 1
      BY <1>2, <2>1, LineFacts DEF Follows
    <2>2. CASE i \in 1 .. n
      <3>1. PICK v \in c.revisions : LineOf(c)[i] = v.id /\ v.ordinal = i - 1
        BY <2>2, LineFacts
      <3>2. LineOf(d)[v.ordinal + 1] = v.id /\ v.ordinal + 1 = i
        BY <2>2, <3>1, LineFacts DEF Follows
      <3>3. QED BY <1>2, <2>2, <3>1, <3>2
    <2>3. i = n + 1 \/ i \in 1 .. n
      BY <1>1
    <2>4. QED BY <2>1, <2>2, <2>3
  <1>4. LineOf(d) = t
    BY <1>1, <1>2, <1>3, SameSeq
  <1>5. QED BY <1>4 DEF t

VerdictOf(d) == IF d.case.result = None THEN "unused" ELSE d.case.result

\* CaseHistory's steps, from c to d.
Starts(c, d) ==
    /\ LineOf(c) = <<>> /\ LineOf(d) = <<Root>>
    /\ d.case.judged = c.case.judged /\ VerdictOf(d) = VerdictOf(c)

ExtendedBy(c, d, r) ==
    /\ LineOf(c) # <<>> /\ VerdictOf(c) = "unused"
    /\ r \in RevisionIds \ {LineOf(c)[i] : i \in DOMAIN LineOf(c)}
    /\ LineOf(d) = Append(LineOf(c), r)
    /\ d.case.judged = c.case.judged /\ VerdictOf(d) = VerdictOf(c)

SealedAs(c, d) ==
    /\ LineOf(c) # <<>> /\ VerdictOf(c) = "unused"
    /\ d.case.judged = LineOf(c)[Len(LineOf(c))] /\ VerdictOf(d) = "RUNNING"
    /\ LineOf(d) = LineOf(c)

DecidedAs(c, d) ==
    /\ VerdictOf(c) = "RUNNING" /\ VerdictOf(d) \in {"PASSED", "FAILED"}
    /\ LineOf(d) = LineOf(c) /\ d.case.judged = c.case.judged

Rests(c, d) ==
    LineOf(d) = LineOf(c) /\ d.case.judged = c.case.judged /\ VerdictOf(d) = VerdictOf(c)

Moves(c, d) ==
    \/ Starts(c, d) \/ (\E r : ExtendedBy(c, d, r)) \/ SealedAs(c, d) \/ DecidedAs(c, d)
    \/ Rests(c, d)

LEMMA EmptyLine == LineOf(NoDatabase) = <<>> /\ Lined(NoDatabase)
  <1>1. NoDatabase.revisions = {} /\ NoDatabase.case = NoCase
    BY DEF NoDatabase, Database
  <1>2. IsFiniteSet({}) /\ Cardinality({}) = 0
    BY FS_EmptySet
  <1>3. Lined(NoDatabase)
    BY <1>1, <1>2 DEF Lined
  <1>4. IsSeq(LineOf(NoDatabase)) /\ Len(LineOf(NoDatabase)) = 0
    BY <1>1, <1>2, <1>3, LineFacts
  <1>5. LineOf(NoDatabase) = <<>>
    BY <1>4, EmptySeq DEF IsSeq
  <1>6. QED BY <1>3, <1>5

LEMMA CreationMoves ==
    ASSUME NEW source, NEW commitments
    PROVE  Starts(NoDatabase, FirstDatabase(source, commitments))
  <1> DEFINE d == FirstDatabase(source, commitments)
             row == RootRow(source)
  <1>1. /\ d.revisions = {row} /\ d.case.judged = None /\ d.case.result = None
        /\ row.id = Root /\ row.ordinal = 0
    BY DatabaseFields, LogFields DEF FirstDatabase, NewCase, RootRow
  <1>2. Lined(d)
    BY LineStarts
  <1> HIDE DEF d, row
  <1>3. LineOf(d) = <<Root>>
    <2>1. Cardinality({row}) = 1
      BY FS_Singleton
    <2>2. /\ IsSeq(LineOf(d)) /\ Len(LineOf(d)) = Cardinality(d.revisions)
          /\ \A v \in d.revisions : LineOf(d)[v.ordinal + 1] = v.id
      BY <1>2, LineFacts
    <2>3. IsSeq(LineOf(d)) /\ Len(LineOf(d)) = 1 /\ LineOf(d)[0 + 1] = Root
      BY <1>1, <2>1, <2>2
    <2>4. IsSeq(<<Root>>) /\ Len(<<Root>>) = 1 /\ <<Root>>[1] = Root
      BY DEF IsSeq
    <2>5. \A i \in 1 .. 1 : i = 1
      OBVIOUS
    <2>6. QED BY <2>3, <2>4, <2>5, SameSeq
  <1>4. NoDatabase.case.judged = None /\ NoDatabase.case.result = None
    BY DEF NoDatabase, Database, NoCase
  <1>5. Starts(NoDatabase, d)
    BY <1>1, <1>3, <1>4, EmptyLine DEF Starts, VerdictOf
  <1>6. QED BY <1>5 DEF d

\* A case has a line, and its end is the head.
LEMMA LineEnds ==
    ASSUME NEW c, Sound(c), ValidCase(c), Lined(c)
    PROVE  LineOf(c) # <<>> /\ LineOf(c)[Len(LineOf(c))] = c.case.head
  <1>1. c.case # NoCase
    BY DEF ValidCase
  <1>2. PICK v \in c.revisions : v.id = c.case.head /\ v.ordinal = Cardinality(c.revisions) - 1
    BY <1>1 DEF Lined
  <1>3. /\ Len(LineOf(c)) = Cardinality(c.revisions) /\ Len(LineOf(c)) \in Nat
        /\ v.ordinal + 1 \in 1 .. Len(LineOf(c)) /\ LineOf(c)[v.ordinal + 1] = v.id
    BY LineFacts
  <1>4. v.ordinal + 1 = Len(LineOf(c)) /\ Len(LineOf(c)) # 0
    BY <1>2, <1>3
  <1>5. LineOf(c) # <<>>
    BY <1>4
  <1>6. QED BY <1>2, <1>3, <1>4, <1>5

LEMMA CommitMoves ==
    ASSUME NEW c, Sound(c), ValidCase(c), Lined(c), NEW d, Lined(d), NEW row,
           row.id \in RevisionIds, ~RevisionIn(c, row.id), c.case.result = None,
           SameCase(d.case, c.case), Follows(d, c, row)
    PROVE  ExtendedBy(c, d, row.id)
  <1>1. LineOf(d) = Append(LineOf(c), row.id)
    BY LineLonger
  <1>2. row.id \notin {LineOf(c)[i] : i \in DOMAIN LineOf(c)}
    <2>1. DOMAIN LineOf(c) = 1 .. Cardinality(c.revisions)
      BY LineFacts, SeqFacts
    <2>2. QED BY <2>1, LineFacts DEF RevisionIn
  <1>3. d.case.judged = c.case.judged /\ VerdictOf(d) = VerdictOf(c) /\ VerdictOf(c) = "unused"
    BY DEF SameCase, VerdictOf
  <1>4. QED BY <1>1, <1>2, <1>3, LineEnds DEF ExtendedBy

LEMMA QualificationMoves ==
    ASSUME NEW c, Sound(c), ValidCase(c), Lined(c), NEW d, Lined(d), d.revisions = c.revisions
    PROVE  /\ c.case.result = None /\ d.case.judged = c.case.head /\ d.case.result = "RUNNING" =>
                  SealedAs(c, d)
           /\ /\ c.case.result = "RUNNING" /\ d.case.judged = c.case.judged
              /\ d.case.result \in Terminal
              => DecidedAs(c, d)
           /\ d.case = c.case => Rests(c, d)
  <1>1. LineOf(d) = LineOf(c)
    BY LineSame
  <1>2. QED BY <1>1, LineEnds, TerminalTypes DEF SealedAs, DecidedAs, Rests, VerdictOf, Terminal

-----------------------------------------------------------------------------
(* The inductive invariant *)

Answers == [state : Terminal \cup {"RUNNING"}, revision : Ids, attempt : Attempts,
            result : Results \cup {None}]

TablesOk(d) ==
    /\ d.case = NoCase \/
         /\ d.case.head \in Ids
         /\ d.case.judged \in Ids \cup {None}
         /\ d.case.attempt \in Attempts \cup {None}
         /\ d.case.result \in Terminal \cup {"RUNNING", None}
    /\ \A u \in d.runs : u.id \in RunIds /\ u.revision \in Ids

IsRun(u) == u = [id |-> u.id, revision |-> u.revision, kind |-> u.kind, passed |-> u.passed]

\* A qualification has a revision and an attempt; a run has its columns.
FieldsOk(d) ==
    /\ d.case.result # None => d.case.judged \in Ids /\ d.case.attempt \in Attempts
    /\ \A u \in d.runs : IsRun(u)

\* The file is what the calls wrote.
Fits ==
    /\ LedgerFile(rows, last) /\ View = honest
    /\ tables = [case |-> tables.case, revisions |-> tables.revisions, runs |-> tables.runs]

\* The file was damaged, and each call finds that out.
Noticed == damages = 1 /\ ~Restored /\ tables.case # NoCase

IInv ==
    /\ damages \in Nat
    /\ damages = 0 => Fits
    /\ damages <= 1 => TypeOK /\ KeptOf(honest, told) /\ FieldsOk(honest) /\ (Fits \/ Noticed)

LEMMA TypeParts ==
    TypeOK <=> /\ TablesOk(tables) /\ Len(rows) <= MaxEvents /\ last \in 0 .. MaxEvents
               /\ told \subseteq Answers /\ damages \in Nat
  BY DEF TypeOK, TablesOk, Answers

LEMMA ChainedIs == Chained <=> ChainOf(rows, last)
  BY DEF Chained, ChainOf, PrevHash, PrevIn

\* The database is seen as it is.
LEMMA FitsFacts ==
    ASSUME Fits
    PROVE  /\ Chained /\ IsSeq(rows) /\ Len(rows) = last /\ last \in Nat
           /\ honest.case = tables.case /\ honest.revisions = tables.revisions
           /\ honest.runs = tables.runs /\ honest.events = EventsOf(rows)
           /\ Restored <=> ValidCase(honest)
  <1>1. LedgerFile(rows, last) /\ View = honest
    BY DEF Fits
  <1>2. Chained /\ IsSeq(rows) /\ Len(rows) = last
    BY <1>1, ChainedIs DEF LedgerFile, ChainOf
  <1>3. /\ View.case = tables.case /\ View.revisions = tables.revisions
        /\ View.runs = tables.runs /\ View.events = EventsOf(rows)
    BY DEF View, Contents, EventsOf
  <1>4. last \in Nat
    BY <1>2, SeqFacts
  <1>5. Restored <=> ValidCase(honest)
    BY <1>1, <1>2 DEF Restored
  <1>6. QED BY <1>1, <1>2, <1>3, <1>4, <1>5

\* The promise of a step.
Stepped ==
    /\ KeptOf(honest, told)' /\ FieldsOk(honest)' /\ Fits' /\ TypeOK'
    /\ Moves(honest, honest')

\* A transaction writes the rows of the ledger on.
LEMMA Stored ==
    ASSUME Fits, TypeOK, NEW o, Store(o), Sound(o.db), TablesOk(o.db), told' \subseteq Answers,
           \/ o.db.events = honest.events
           \/ \E event : o.db.events = Append(honest.events, event)
    PROVE  Fits' /\ TypeOK' /\ honest' = o.db
  <1> DEFINE more == [i \in 1 .. Len(o.db.events) - Len(rows) |->
                          HashedRow(o.db.events[Len(rows) + i])]
  <1>1. /\ LedgerFile(rows, last) /\ IsSeq(rows) /\ Len(rows) = last /\ last \in Nat
        /\ honest.events = EventsOf(rows)
    BY FitsFacts DEF Fits
  <1>2. IsSeq(EventsOf(rows)) /\ Len(EventsOf(rows)) = Len(rows)
    BY <1>1, EventsFacts
  <1>3. /\ rows' = rows \o more /\ last' = Len(rows') /\ honest' = o.db /\ damages' = damages
        /\ Len(o.db.events) <= MaxEvents
        /\ tables' = [case |-> o.db.case, revisions |-> o.db.revisions, runs |-> o.db.runs]
    BY DEF Store
  <1> DEFINE S == {rows[i] : i \in DOMAIN rows}
  <1>4. rows \in Seq(S)
    BY <1>1 DEF IsSeq
  <1>5. LedgerFile(rows', last') /\ EventsOf(rows') = o.db.events
    <2>1. CASE o.db.events = honest.events
      <3>1. Len(o.db.events) - Len(rows) = 0
        BY <1>1, <1>2, <2>1
      <3>2. more = <<>>
        BY <3>1
      <3>3. rows' = rows
        BY <1>3, <1>4, <3>2, ConcatEmptySeq
      <3>4. QED BY <1>1, <1>3, <2>1, <3>3
    <2>2. ASSUME NEW event, o.db.events = Append(honest.events, event)
          PROVE  LedgerFile(rows', last') /\ EventsOf(rows') = o.db.events
      <3> DEFINE row == RowFor(rows, event)
      <3>1. /\ Len(o.db.events) = Len(rows) + 1 /\ Len(rows) \in Nat
            /\ o.db.events[Len(rows) + 1] = event
        BY <1>1, <1>2, <2>2, AppendSeq
      <3>2. HashedRow(event) = row
        BY DEF HashedRow, RowFor, PrevHash, PrevIn
      <3> HIDE DEF row
      <3>3. more = [i \in 1 .. 1 |-> HashedRow(o.db.events[Len(rows) + i])]
        <4>1. Len(o.db.events) - Len(rows) = 1
          BY <3>1
        <4>2. QED BY <4>1
      <3>4. \A i \in 1 .. 1 : HashedRow(o.db.events[Len(rows) + i]) = row
        <4>1. \A i \in 1 .. 1 : i = 1
          OBVIOUS
        <4>2. QED BY <3>1, <3>2, <4>1
      <3>5. more = <<row>>
        <4>1. more = [i \in 1 .. 1 |-> row]
          BY <3>3, <3>4
        <4>2. [i \in 1 .. 1 |-> row] = <<row>>
          OBVIOUS
        <4> HIDE DEF more
        <4>3. QED BY <4>1, <4>2
      <3>6. Append(rows, row) = rows \o <<row>>
        <4>1. rows \in Seq(S \cup {row}) /\ row \in S \cup {row}
          BY <1>4
        <4> HIDE DEF S
        <4>2. QED BY <4>1, AppendIsConcat
      <3>7. rows' = Append(rows, row)
        BY <1>3, <3>5, <3>6
      <3>8. LedgerFile(rows', last + 1) /\ EventsOf(rows') = Append(EventsOf(rows), event)
        BY <1>1, <3>7, FileGrows DEF row
      <3>9. last' = last + 1
        BY <1>3, <3>8 DEF LedgerFile, ChainOf
      <3>10. QED BY <1>1, <2>2, <3>8, <3>9
    <2>3. QED BY <2>1, <2>2
  <1> HIDE DEF more
  <1>6. View' = honest'
    <2>1. Contents' = o.db.events
      BY <1>5 DEF Contents, EventsOf
    <2>2. o.db = Database(o.db.case, o.db.revisions, o.db.runs, o.db.events)
      BY DEF Sound
    <2>3. View' = Database(o.db.case, o.db.revisions, o.db.runs, o.db.events)
      BY <1>3, <2>1 DEF View, Database
    <2>4. QED BY <1>3, <2>2, <2>3
  <1>7. TypeOK'
    <2>1. IsSeq(rows') /\ Len(rows') = last'
      BY <1>5 DEF LedgerFile, ChainOf
    <2>2. Len(rows') = Len(o.db.events) /\ Len(rows') \in Nat
      BY <1>5, <2>1, EventsFacts, SeqFacts
    <2>3. Len(rows') <= MaxEvents /\ last' \in 0 .. MaxEvents
      BY <1>3, <2>1, <2>2, BoundsAssumption
    <2>4. TablesOk(tables')
      BY <1>3 DEF TablesOk
    <2>5. damages' \in Nat
      BY <1>3 DEF TypeOK
    <2>6. QED BY <2>3, <2>4, <2>5 DEF TypeOK, TablesOk, Answers
  <1>8. QED BY <1>3, <1>5, <1>6, <1>7 DEF Fits

-----------------------------------------------------------------------------
(* The calls *)

\* What a call finds: the file as it was written.
Found == Fits /\ TypeOK /\ KeptOf(honest, told) /\ FieldsOk(honest)

LEMMA FoundFacts ==
    ASSUME Found
    PROVE  /\ View = honest /\ Sound(honest) /\ Lined(honest) /\ TablesOk(honest)
           /\ told \subseteq Answers /\ IsSeq(honest.events) /\ FieldsOk(honest)
  <1>1. /\ View = honest /\ Sound(honest) /\ Lined(honest) /\ told \subseteq Answers
    BY TypeParts DEF Found, Fits, KeptOf
  <1>2. TablesOk(honest)
    BY FitsFacts, TypeParts DEF Found, TablesOk
  <1>3. FieldsOk(honest)
    BY DEF Found
  <1>4. QED BY <1>1, <1>2, <1>3, SoundFacts

LEMMA CreateStep ==
    ASSUME Found, Create PROVE Stepped
  <1>1. PICK b \in Bounds : Store(CreateCase(honest, b.source, b.commitments))
    BY FoundFacts DEF Create
  <1> DEFINE o == CreateCase(honest, b.source, b.commitments)
             d == FirstDatabase(b.source, b.commitments)
  <1>2. o.answer = "done" /\ told' = told
    BY <1>1 DEF Store, Create
  <1>3. /\ KeptOf(o.db, told) /\ Extends(o.db, honest, CreationEvent(b.source, b.commitments))
        /\ o.db = d /\ honest = NoDatabase
    BY <1>2, CreatedKept DEF Found
  <1>4. Starts(honest, o.db)
    BY <1>3, CreationMoves
  <1>5. TablesOk(o.db) /\ FieldsOk(o.db)
    <2>1. d.case = NewCase(b.source, b.commitments) /\ d.runs = {}
      BY DatabaseFields, LogFields DEF FirstDatabase
    <2>2. QED BY <1>3, <2>1 DEF TablesOk, FieldsOk, NewCase, Ids
  <1> HIDE DEF o, d
  <1>6. Fits' /\ TypeOK' /\ honest' = o.db
    BY <1>1, <1>2, <1>3, <1>5, FoundFacts, Stored DEF Found, Extends, KeptOf, o
  <1>7. KeptOf(honest', told') /\ FieldsOk(honest') /\ Moves(honest, honest')
    BY <1>2, <1>3, <1>4, <1>5, <1>6 DEF Moves
  <1>8. QED BY <1>6, <1>7 DEF Stepped

LEMMA CallersStep ==
    ASSUME Found, NEW o, Store(o), ValidCase(honest), Sound(o.db), UNCHANGED told,
           o.db.case = honest.case, o.db.revisions = honest.revisions,
           honest.runs \subseteq o.db.runs,
           \A u \in o.db.runs \ honest.runs : u.id \in RunIds /\ u.revision \in Ids /\ IsRun(u),
           \/ o.db.events = honest.events
           \/ \E event : o.db.events = Append(honest.events, event) /\ event.type \notin Owned
    PROVE  Stepped
  <1>1. KeptOf(o.db, told)
    BY FoundFacts, CallersKept DEF Found, Extends
  <1>2. TablesOk(o.db) /\ FieldsOk(o.db)
    BY FoundFacts DEF Found, TablesOk, FieldsOk
  <1>3. Fits' /\ TypeOK' /\ honest' = o.db
    BY <1>2, FoundFacts, Stored DEF Found
  <1>4. Rests(honest, o.db)
    BY <1>1, FoundFacts, QualificationMoves DEF KeptOf
  <1>5. KeptOf(honest', told') /\ FieldsOk(honest') /\ Moves(honest, honest')
    BY <1>1, <1>2, <1>3, <1>4 DEF Moves
  <1>6. QED BY <1>3, <1>5 DEF Stepped

LEMMA AppendStep ==
    ASSUME Found, AppendFree PROVE Stepped
  <1>1. PICK e : Store(AppendEvent(honest, e))
    BY FoundFacts DEF AppendFree
  <1> DEFINE o == AppendEvent(honest, e)
  <1>2. o.answer = "done" /\ UNCHANGED told
    BY <1>1 DEF Store, AppendFree
  <1>3. o.db = Log(honest, e) /\ Sound(o.db) /\ ValidCase(honest) /\ e.type \notin Owned
    BY <1>2, FoundFacts, AppendEventFacts
  <1>4. Store(o)
    BY <1>1
  <1> HIDE DEF o
  <1>5. QED BY <1>2, <1>3, <1>4, LogFields, CallersStep

LEMMA RecordStep ==
    ASSUME Found, Record PROVE Stepped
  <1>1. PICK u, e : u \in RunRows /\ Store(RecordRun(honest, u, e))
    BY FoundFacts DEF Record
  <1> DEFINE o == RecordRun(honest, u, e)
             d == IF e = NoEvent THEN WithRun(honest, u) ELSE Log(WithRun(honest, u), e)
  <1>2. o.answer = "done" /\ UNCHANGED told
    BY <1>1 DEF Store, Record
  <1>3. o.db = d /\ Sound(d) /\ ValidCase(honest) /\ (e # NoEvent => e.type \notin Owned)
    BY <1>2, FoundFacts, RecordRunFacts
  <1>4. Store(o) /\ u.id \in RunIds /\ u.revision \in Ids /\ IsRun(u)
    BY <1>1 DEF RunRows, IsRun
  <1>5. /\ d.case = honest.case /\ d.revisions = honest.revisions /\ d.runs = honest.runs \cup {u}
        /\ IF e = NoEvent THEN d.events = honest.events ELSE d.events = Append(honest.events, e)
    <2>1. /\ WithRun(honest, u).case = honest.case /\ WithRun(honest, u).revisions = honest.revisions
          /\ WithRun(honest, u).runs = honest.runs \cup {u} /\ WithRun(honest, u).events = honest.events
      BY DatabaseFields DEF WithRun
    <2>2. CASE e = NoEvent
      BY <2>1, <2>2
    <2>3. CASE e # NoEvent
      <3>1. d = Log(WithRun(honest, u), e)
        BY <2>3
      <3> HIDE DEF d
      <3>2. QED BY <2>1, <2>3, <3>1, LogFields
    <2>4. QED BY <2>2, <2>3
  <1> HIDE DEF o, d
  <1>6. QED BY <1>2, <1>3, <1>4, <1>5, CallersStep

LEMMA CommitStep ==
    ASSUME Found, Commit PROVE Stepped
  <1>1. PICK row, id, run, expected : /\ row \in RevisionRows
            /\ Store(CommitRevision(honest, row, RevisionEvent(id, row, run), expected))
    BY FoundFacts DEF Commit
  <1> DEFINE event == RevisionEvent(id, row, run)
             o == CommitRevision(honest, row, event, expected)
             d == o.db
  <1>2. o.answer = "done" /\ UNCHANGED told /\ Store(o)
    <2>1. Store(o)
      BY <1>1
    <2>2. UNCHANGED told
      BY DEF Commit
    <2> HIDE DEF o
    <2>3. QED BY <2>1, <2>2 DEF Store
  <1> HIDE DEF event
  <1>3. /\ KeptOf(d, told) /\ Extends(d, honest, event)
        /\ ValidCase(honest) /\ ~RevisionIn(honest, row.id)
        /\ honest.case.result = None /\ SameCase(d.case, honest.case) /\ d.case.head = row.id
        /\ d.revisions = honest.revisions \cup {row} /\ d.runs = honest.runs
        /\ Cardinality(d.revisions) = Cardinality(honest.revisions) + 1
        /\ row.ordinal = Cardinality(honest.revisions)
    BY <1>2, CommittedKept DEF Found
  <1> HIDE DEF o
  <1>4. row.id \in RevisionIds
    BY <1>1 DEF RevisionRows
  <1>5. TablesOk(d) /\ FieldsOk(d)
    <2>1. honest.case # NoCase
      BY <1>3 DEF ValidCase
    <2>2. QED BY <1>3, <1>4, <2>1, FoundFacts DEF TablesOk, FieldsOk, SameCase, Ids
  <1>6. Fits' /\ TypeOK' /\ honest' = d
    BY <1>2, <1>3, <1>5, FoundFacts, Stored DEF Found, Extends, KeptOf
  <1>7. ExtendedBy(honest, d, row.id)
    <2>1. Follows(d, honest, row)
      BY <1>3 DEF Follows
    <2>2. QED BY <1>3, <1>4, <2>1, FoundFacts, CommitMoves DEF KeptOf
  <1>8. KeptOf(honest', told') /\ FieldsOk(honest') /\ Moves(honest, honest')
    BY <1>2, <1>3, <1>5, <1>6, <1>7 DEF Moves
  <1>9. QED BY <1>6, <1>8 DEF Stepped

LEMMA ReserveStep ==
    ASSUME Found, Reserve PROVE Stepped
  <1>1. PICK r \in Ids, expected \in Ids, q \in Attempts, b \in Bounds :
            /\ Store(ReserveQualification(honest, r, q, expected, b))
            /\ Tell("RUNNING", r, q, None)
    BY FoundFacts DEF Reserve
  <1> DEFINE o == ReserveQualification(honest, r, q, expected, b)
             t == [state |-> "RUNNING", revision |-> r, attempt |-> q, result |-> None]
             d == Reserved(honest, r, q)
  <1>2. o.answer = "done" /\ Store(o) /\ told' = told \cup {t}
    BY <1>1 DEF Store, Tell
  <1>3. ValidCase(honest)
    BY <1>2, FoundFacts, ReserveFacts
  <1>4. o.db = d /\ Sound(d) /\ honest.case.result = None /\ honest.case.head = r
    <2>1. Outcome(FALSE, honest, honest).answer # "done" /\ Again(honest).answer # "done"
      BY DEF Outcome, Again
    <2>2. o = Outcome(/\ honest.case.result = None /\ honest.case.head = expected /\ r = expected
                      /\ b = [source |-> honest.case.source, commitments |-> honest.case.commitments]
                      /\ ValidCase(honest), honest, d)
      BY <1>2, <2>1 DEF ReserveQualification, Reserved
    <2>3. honest.case.result = None /\ honest.case.head = expected /\ r = expected /\ o.db = d
      BY <1>2, <2>2 DEF Outcome
    <2>4. Sound(d)
      BY <1>3, <2>3, FoundFacts, ReservedSound
    <2>5. QED BY <2>3, <2>4
  <1>5. t.state = "RUNNING" /\ t.revision = r /\ t.attempt = q
    OBVIOUS
  <1>6. t \in Answers
    BY DEF Answers
  <1> HIDE DEF t
  <1>7. /\ KeptOf(d, told \cup {t})
        /\ Extends(d, honest, QualificationEvent(honest, r, q, "QUALIFICATION_RESERVED", None))
        /\ d.revisions = honest.revisions /\ d.runs = honest.runs
        /\ d.case.head = honest.case.head /\ d.case.judged = r /\ d.case.attempt = q
        /\ d.case.result = "RUNNING"
    BY <1>3, <1>4, <1>5, ReservedKept DEF Found
  <1> HIDE DEF o, d
  <1>8. TablesOk(o.db) /\ FieldsOk(o.db)
    <2>1. honest.case # NoCase
      BY <1>3 DEF ValidCase
    <2>2. QED BY <1>4, <1>7, <2>1, FoundFacts DEF TablesOk, FieldsOk
  <1>9. told' \subseteq Answers
    BY <1>2, <1>6, FoundFacts
  <1>10. Fits' /\ TypeOK' /\ honest' = o.db
    BY <1>2, <1>4, <1>7, <1>8, <1>9, Stored DEF Found, Extends
  <1>11. SealedAs(honest, d)
    BY <1>3, <1>4, <1>7, FoundFacts, QualificationMoves DEF KeptOf
  <1>12. KeptOf(honest', told') /\ FieldsOk(honest') /\ Moves(honest, honest')
    BY <1>2, <1>4, <1>7, <1>8, <1>10, <1>11 DEF Moves
  <1>13. QED BY <1>10, <1>12 DEF Stepped

LEMMA ConcludeStep ==
    ASSUME Found, Conclude PROVE Stepped
  <1>1. PICK r \in Ids, q \in Attempts, s \in Terminal, x \in Results \cup {None} :
            Store(RecordTerminal(honest, r, q, s, x)) /\ Tell(s, r, q, x)
    BY FoundFacts DEF Conclude
  <1> DEFINE o == RecordTerminal(honest, r, q, s, x)
             t == [state |-> s, revision |-> r, attempt |-> q, result |-> x]
             d == Concluded(honest, r, q, s, x)
  <1>2. o.answer = "done" /\ Store(o) /\ told' = told \cup {t}
    BY <1>1 DEF Store, Tell
  <1>3. /\ o.db = d /\ Sound(d) /\ ValidCase(honest) /\ honest.case.result = "RUNNING"
        /\ SameAttempt(honest, r, q)
    <2>1. Sound(honest) /\ RecordTerminal(honest, r, q, s, x).answer = "done"
      BY <1>2, FoundFacts
    <2>2. QED BY <2>1, RecordTerminalFacts
  <1>4. t.state = s /\ t.revision = r /\ t.attempt = q /\ t.result = x
    OBVIOUS
  <1>5. t \in Answers
    BY DEF Answers
  <1> HIDE DEF t
  <1>6. /\ KeptOf(d, told \cup {t})
        /\ Extends(d, honest, QualificationEvent(honest, r, q, TerminalType[s], x))
        /\ d.revisions = honest.revisions /\ d.runs = honest.runs
        /\ d.case.head = honest.case.head /\ d.case.judged = honest.case.judged
        /\ d.case.attempt = honest.case.attempt /\ d.case.result = s
    BY <1>3, <1>4, ConcludedKept DEF Found
  <1> HIDE DEF o, d
  <1>7. TablesOk(o.db) /\ FieldsOk(o.db)
    <2>1. honest.case # NoCase
      BY <1>3 DEF ValidCase
    <2>2. honest.case.judged \in Ids /\ honest.case.attempt \in Attempts
      BY <1>3, TerminalTypes DEF Found, FieldsOk
    <2>3. QED BY <1>3, <1>6, <2>1, <2>2, FoundFacts DEF TablesOk, FieldsOk
  <1>8. told' \subseteq Answers
    BY <1>2, <1>5, FoundFacts
  <1>9. Fits' /\ TypeOK' /\ honest' = o.db
    BY <1>2, <1>3, <1>6, <1>7, <1>8, Stored DEF Found, Extends
  <1>10. DecidedAs(honest, d)
    BY <1>3, <1>6, FoundFacts, QualificationMoves DEF KeptOf
  <1>11. KeptOf(honest', told') /\ FieldsOk(honest') /\ Moves(honest, honest')
    BY <1>2, <1>3, <1>6, <1>7, <1>9, <1>10 DEF Moves
  <1>12. QED BY <1>9, <1>11 DEF Stepped

\* An answer that changes nothing.
LEMMA AnswerStep ==
    ASSUME Found, UNCHANGED <<tables, rows, last, honest, damages>>, NEW t \in Answers,
           Knows(honest, t), told' = told \cup {t}
    PROVE  Stepped
  <1>1. KeptOf(honest', told') /\ FieldsOk(honest')
    BY ReadKept DEF Found
  <1>2. Fits'
    BY DEF Found, Fits, View, Contents
  <1>3. TypeOK'
    <2>1. told' \subseteq Answers
      BY FoundFacts
    <2>2. TablesOk(tables) /\ Len(rows) <= MaxEvents /\ last \in 0 .. MaxEvents /\ damages \in Nat
      BY TypeParts DEF Found
    <2>3. QED BY <2>1, <2>2 DEF TypeOK, TablesOk, Answers
  <1>4. Moves(honest, honest')
    BY DEF Moves, Rests
  <1>5. QED BY <1>1, <1>2, <1>3, <1>4 DEF Stepped

LEMMA RetryStep ==
    ASSUME Found, Retry PROVE Stepped
  <1>1. UNCHANGED <<tables, rows, last, honest, damages>> /\ View = honest
    BY FoundFacts DEF Retry
  <1>2. ASSUME NEW r \in Ids, NEW q \in Attempts, NEW expected, NEW b,
               ReserveQualification(honest, r, q, expected, b).answer = "again",
               Tell("RUNNING", r, q, None)
        PROVE  Stepped
    <2> DEFINE t == [state |-> "RUNNING", revision |-> r, attempt |-> q, result |-> None]
    <2>1. ValidCase(honest) /\ SameAttempt(honest, r, q)
      <3>1. \A ok, after : Outcome(ok, honest, after).answer # "again"
        BY DEF Outcome
      <3>2. QED BY <1>2, <3>1 DEF ReserveQualification
    <2>2. t \in Answers /\ told' = told \cup {t}
      BY <1>2 DEF Answers, Tell
    <2>3. Knows(honest, t)
      BY <2>1, TerminalTypes DEF Knows, ValidCase
    <2> HIDE DEF t
    <2>4. QED BY <1>1, <2>2, <2>3, AnswerStep
  <1>3. ASSUME NEW r \in Ids, NEW q \in Attempts, NEW s \in Terminal, NEW x,
               RecordTerminal(honest, r, q, s, x).answer = "again",
               Tell(s, r, q, StoredResult(honest))
        PROVE  Stepped
    <2> DEFINE t == [state |-> s, revision |-> r, attempt |-> q, result |-> StoredResult(honest)]
    <2>1. ValidCase(honest) /\ SameAttempt(honest, r, q) /\ honest.case.result = s
      <3>1. \A ok, after : Outcome(ok, honest, after).answer # "again"
        BY DEF Outcome
      <3>2. QED BY <1>3, <3>1 DEF RecordTerminal
    <2>2. StoredResult(honest) \in Results \cup {None}
      BY StoredIn DEF Found, KeptOf
    <2>3. t \in Answers /\ told' = told \cup {t}
      BY <1>3, <2>2 DEF Answers, Tell
    <2>4. Knows(honest, t)
      BY <2>1 DEF Knows, ValidCase
    <2> HIDE DEF t
    <2>5. QED BY <1>1, <2>3, <2>4, AnswerStep
  <1>4. QED BY <1>1, <1>2, <1>3 DEF Retry

LEMMA ReadStep ==
    ASSUME Found, GetQualification PROVE Stepped
  <1> DEFINE c == honest.case
             t == [state |-> c.result, revision |-> c.judged, attempt |-> c.attempt,
                   result |-> StoredResult(honest)]
  <1>1. /\ UNCHANGED <<tables, rows, last, honest, damages>> /\ View = honest
        /\ ValidCase(honest) /\ c.result # None /\ tables.case = c
    BY FoundFacts, FitsFacts DEF GetQualification, Found
  <1>2. told' = told \cup {t}
    BY <1>1 DEF GetQualification, Tell
  <1>3. QualificationOk(honest) /\ c.result \in Terminal \cup {"RUNNING"} /\ c # NoCase
    BY <1>1, ValidParts, UndecidedFacts
  <1>4. SameAttempt(honest, c.judged, c.attempt)
    <2>1. PICK i \in Reservations(honest) : ReservationOk(honest, i)
      BY <1>1, <1>3 DEF QualificationOk
    <2>2. QED BY <2>1 DEF ReservationOk, SameAttempt, Reservations
  <1>5. Knows(honest, t)
    BY <1>3, <1>4 DEF Knows
  <1>6. StoredResult(honest) \in Results \cup {None}
    BY StoredIn DEF Found, KeptOf
  <1>7. t \in Answers
    <2>1. c.judged \in Ids /\ c.attempt \in Attempts
      BY <1>1 DEF Found, FieldsOk
    <2>2. QED BY <1>3, <1>6, <2>1 DEF Answers
  <1> HIDE DEF t
  <1>8. QED BY <1>1, <1>2, <1>5, <1>7, AnswerStep

-----------------------------------------------------------------------------
(* Damage *)

LEMMA RowsMean ==
    ASSUME Found, rows # <<>> \/ tables.revisions # {} \/ tables.runs # {}
    PROVE  tables.case # NoCase
  <1>1. /\ honest.case = tables.case /\ honest.revisions = tables.revisions
        /\ honest.runs = tables.runs /\ honest.events = EventsOf(rows) /\ IsSeq(rows)
    BY FitsFacts DEF Found
  <1>2. honest = NoDatabase => honest.events = <<>> /\ honest.revisions = {} /\ honest.runs = {}
    BY DEF NoDatabase, Database
  <1>3. rows # <<>> => honest.events # <<>>
    <2>1. Len(EventsOf(rows)) = Len(rows)
      BY <1>1, EventsFacts
    <2>2. rows # <<>> => Len(rows) # 0
      BY <1>1, EmptySeq DEF IsSeq
    <2>3. QED BY <1>1, <2>1, <2>2
  <1>4. QED BY <1>1, <1>2, <1>3, FoundFacts, SoundFacts

\* What a first damage may do.
Harmed == TypeOK' /\ (Fits \/ Noticed)' /\ UNCHANGED <<told, honest>> /\ damages' = 1

LEMMA EventsHarmed ==
    ASSUME Found, damages = 0, DamageEvents PROVE Harmed
  <1>1. PICK i \in DOMAIN rows : LET e == rows[i].event IN
            \/ rows' = SubSeq(rows, 1, i - 1) \o SubSeq(rows, i + 1, Len(rows))
            \/ \E f : f # e /\ rows' = [rows EXCEPT ![i].event = f]
            \/ rows' = [rows EXCEPT ![i].prev = <<None>>]
            \/ rows' = [rows EXCEPT ![i].hash = <<None>>]
    BY DEF DamageEvents
  <1>2. UNCHANGED <<tables, last, told, honest>> /\ damages' = 1
    BY DEF DamageEvents, Damaged
  <1>3. LedgerFile(rows, last) /\ IsSeq(rows) /\ Len(rows) = last /\ last \in Nat
    BY FitsFacts DEF Found, Fits
  <1>4. tables.case # NoCase
    <2>1. rows # <<>>
      OBVIOUS
    <2>2. QED BY <2>1, RowsMean
  <1>5. /\ TablesOk(tables) /\ Len(rows) <= MaxEvents /\ last \in 0 .. MaxEvents /\ told \subseteq Answers
    BY TypeParts DEF Found
  <1>6. ASSUME NEW x PROVE Len([rows EXCEPT ![i] = x]) = Len(rows)
    <2> DEFINE S == {rows[j] : j \in DOMAIN rows} \cup {x}
    <2>1. rows \in Seq(S) /\ x \in S /\ i \in 1 .. Len(rows)
      BY <1>3, SeqFacts DEF IsSeq
    <2> HIDE DEF S
    <2>2. QED BY <2>1, ExceptSeq
  <1>7. /\ rows' = rows \/ ~ChainOf(rows', last)
        /\ Len(rows') <= MaxEvents
    <2>1. CASE rows' = SubSeq(rows, 1, i - 1) \o SubSeq(rows, i + 1, Len(rows))
      <3>1. ~ChainOf(rows', last) /\ Len(rows') = last - 1
        BY <1>3, <2>1, RowMissed
      <3>2. QED BY <1>3, <1>5, <3>1, BoundsAssumption
    <2>2. CASE \E f : f # rows[i].event /\ rows' = [rows EXCEPT ![i].event = f]
      <3>1. PICK f : f # rows[i].event /\ rows' = [rows EXCEPT ![i].event = f]
        BY <2>2
      <3>2. ~ChainOf(rows', last)
        BY <1>3, <3>1, EventNoticed
      <3>3. Len(rows') = Len(rows)
        BY <1>6, <3>1
      <3>4. QED BY <1>5, <3>2, <3>3
    <2>3. CASE rows' = [rows EXCEPT ![i].prev = <<None>>]
      <3>1. rows' = rows \/ ~ChainOf(rows', last)
        BY <1>3, <2>3, HashNoticed
      <3>2. Len(rows') = Len(rows)
        BY <1>6, <2>3
      <3>3. QED BY <1>5, <3>1, <3>2
    <2>4. CASE rows' = [rows EXCEPT ![i].hash = <<None>>]
      <3>1. rows' = rows \/ ~ChainOf(rows', last)
        BY <1>3, <2>4, HashNoticed
      <3>2. Len(rows') = Len(rows)
        BY <1>6, <2>4
      <3>3. QED BY <1>5, <3>1, <3>2
    <2>5. QED BY <1>1, <2>1, <2>2, <2>3, <2>4
  <1>8. TypeOK'
    BY <1>2, <1>5, <1>7 DEF TypeOK, TablesOk, Answers
  <1>9. CASE rows' = rows
    <2>1. Fits'
      BY <1>2, <1>9 DEF Found, Fits, View, Contents
    <2>2. QED BY <1>2, <1>8, <2>1 DEF Harmed
  <1>10. CASE ~ChainOf(rows', last)
    <2>1. ~Chained'
      BY <1>2, <1>10 DEF Chained, ChainOf, PrevHash, PrevIn
    <2>2. Noticed'
      BY <1>2, <1>4, <2>1 DEF Noticed, Restored
    <2>3. QED BY <1>2, <1>8, <2>2 DEF Harmed
  <1>11. QED BY <1>7, <1>9, <1>10

\* The tables are damaged, the ledger stands.
LEMMA TablesHarmed ==
    ASSUME Found, damages = 0, Damaged, UNCHANGED <<rows, last>>, TablesOk(tables'),
           tables'.case # NoCase, ~ValidCase(View')
    PROVE  Harmed
  <1>1. UNCHANGED <<told, honest>> /\ damages' = 1
    BY DEF Damaged
  <1>2. Noticed'
    BY <1>1 DEF Noticed, Restored
  <1>3. Len(rows) <= MaxEvents /\ last \in 0 .. MaxEvents /\ told \subseteq Answers
    BY TypeParts DEF Found
  <1>4. TypeOK'
    BY <1>1, <1>3 DEF TypeOK, TablesOk, Answers
  <1>5. QED BY <1>1, <1>2, <1>4 DEF Harmed

LEMMA ViewFields ==
    /\ View.case = tables.case /\ View.revisions = tables.revisions
    /\ View.runs = tables.runs /\ View.events = EventsOf(rows)
  BY DEF View, Contents, EventsOf

LEMMA NextViewFields ==
    /\ View'.case = tables'.case /\ View'.revisions = tables'.revisions
    /\ View'.runs = tables'.runs /\ View'.events = EventsOf(rows')
  BY DEF View, Contents, EventsOf

LEMMA CaseHarmed ==
    ASSUME Found, damages = 0, DamageCase PROVE Harmed
  <1> DEFINE c == tables.case
  <1>1. PICK d : /\ d # c /\ tables' = [tables EXCEPT !.case = d]
                 /\ d \in {[c EXCEPT !.head = r] : r \in Ids}
                       \cup {[c EXCEPT !.judged = r] : r \in Ids \cup {None}}
                       \cup {[c EXCEPT !.attempt = q] : q \in Attempts \cup {None}}
                       \cup {[c EXCEPT !.result = s] : s \in Terminal \cup {"RUNNING", None}}
                       \cup {[c EXCEPT !.source = a] : a \in Assets}
                       \cup {[c EXCEPT !.commitments = x] : x \in Commitments}
    BY DEF DamageCase
  <1>2. c # NoCase /\ Damaged /\ UNCHANGED <<rows, last>>
    BY DEF DamageCase
  <1>3. /\ honest.case = c /\ honest.events = EventsOf(rows) /\ Sound(honest)
        /\ IsCase(c) /\ ValidCase(honest) /\ c.head # None /\ IsSeq(honest.events)
    BY <1>2, FoundFacts, FitsFacts, SoundFacts DEF Found
  <1>4. tables'.case = d /\ tables'.runs = tables.runs /\ tables'.revisions = tables.revisions
    BY <1>1 DEF Found, Fits
  <1>5. None \notin Ids
    BY NoneIsNoId, RootAssumption DEF Ids
  <1>6. /\ IsCase(d) /\ d.head \in Ids \cup {c.head}
        /\ d.judged \in Ids \cup {None, c.judged}
        /\ d.attempt \in Attempts \cup {None, c.attempt}
        /\ d.result \in Terminal \cup {"RUNNING", None, c.result}
    <2>1. c = [head |-> c.head, source |-> c.source, commitments |-> c.commitments,
               judged |-> c.judged, attempt |-> c.attempt, result |-> c.result]
      BY <1>3 DEF IsCase
    <2> HIDE DEF c
    <2>2. ASSUME NEW r \in Ids, d = [c EXCEPT !.head = r]
          PROVE  IsCase(d) /\ d.head = r /\ d.judged = c.judged /\ d.attempt = c.attempt /\ d.result = c.result
      BY <2>1, <2>2 DEF IsCase
    <2>3. ASSUME NEW r, d = [c EXCEPT !.judged = r]
          PROVE  IsCase(d) /\ d.head = c.head /\ d.judged = r /\ d.attempt = c.attempt /\ d.result = c.result
      BY <2>1, <2>3 DEF IsCase
    <2>4. ASSUME NEW r, d = [c EXCEPT !.attempt = r]
          PROVE  IsCase(d) /\ d.head = c.head /\ d.judged = c.judged /\ d.attempt = r /\ d.result = c.result
      BY <2>1, <2>4 DEF IsCase
    <2>5. ASSUME NEW r, d = [c EXCEPT !.result = r]
          PROVE  IsCase(d) /\ d.head = c.head /\ d.judged = c.judged /\ d.attempt = c.attempt /\ d.result = r
      BY <2>1, <2>5 DEF IsCase
    <2>6. ASSUME NEW r, d = [c EXCEPT !.source = r] \/ d = [c EXCEPT !.commitments = r]
          PROVE  /\ IsCase(d) /\ d.head = c.head /\ d.judged = c.judged
                 /\ d.attempt = c.attempt /\ d.result = c.result
      BY <2>1, <2>6 DEF IsCase
    <2>7. \/ \E r \in Ids : d = [c EXCEPT !.head = r]
          \/ \E r \in Ids \cup {None} : d = [c EXCEPT !.judged = r]
          \/ \E r \in Attempts \cup {None} : d = [c EXCEPT !.attempt = r]
          \/ \E r \in Terminal \cup {"RUNNING", None} : d = [c EXCEPT !.result = r]
          \/ \E r : d = [c EXCEPT !.source = r] \/ d = [c EXCEPT !.commitments = r]
      BY <1>1 DEF c
    <2>8. QED BY <2>2, <2>3, <2>4, <2>5, <2>6, <2>7
  <1> HIDE DEF c
  <1>7. d # NoCase
    BY <1>3, <1>5, <1>6 DEF NoCase
  <1>8. TablesOk(tables')
    <2>1. /\ c.head \in Ids /\ c.judged \in Ids \cup {None} /\ c.attempt \in Attempts \cup {None}
          /\ c.result \in Terminal \cup {"RUNNING", None}
          /\ \A u \in tables.runs : u.id \in RunIds /\ u.revision \in Ids
      BY <1>2, TypeParts DEF Found, TablesOk, c
    <2>2. QED BY <1>4, <1>6, <2>1 DEF TablesOk
  <1>9. ~ValidCase(View')
    <2>1. View'.case = d /\ View'.events = honest.events
      BY <1>2, <1>3, <1>4, NextViewFields
    <2>2. CASE ValidCase(View')
      BY <1>1, <1>3, <1>6, <2>1, <2>2, CaseDetermined
    <2>3. QED BY <2>2
  <1>10. QED BY <1>2, <1>4, <1>7, <1>8, <1>9, TablesHarmed

LEMMA RevisionHarmed ==
    ASSUME Found, damages = 0, DamageRevision PROVE Harmed
  <1>1. PICK v \in tables.revisions :
            \/ tables' = [tables EXCEPT !.revisions = tables.revisions \ {v}]
            \/ \E w : w # v /\ tables' = [tables EXCEPT !.revisions = (tables.revisions \ {v}) \cup {w}]
    BY DEF DamageRevision
  <1>2. Damaged /\ UNCHANGED <<rows, last>>
    BY DEF DamageRevision
  <1>3. /\ honest.case = tables.case /\ honest.events = EventsOf(rows) /\ Sound(honest)
        /\ honest.revisions = tables.revisions /\ tables.case # NoCase
    BY <1>1, RowsMean, FoundFacts, FitsFacts DEF Found
  <1>4. ValidCase(honest)
    BY <1>3, SoundFacts
  <1>5. /\ tables'.case = tables.case /\ tables'.runs = tables.runs /\ v \notin tables'.revisions
    BY <1>1 DEF Found, Fits
  <1>6. TablesOk(tables')
    BY <1>5, TypeParts DEF Found, TablesOk
  <1>7. ASSUME ValidCase(View') PROVE FALSE
    <2>1. View'.case = honest.case /\ View'.events = honest.events
      BY <1>2, <1>3, <1>5, NextViewFields
    <2>2. v \in honest.revisions
      BY <1>3
    <2>3. v \in View'.revisions
      BY <1>3, <1>4, <1>7, <2>1, <2>2, RowsDetermined
    <2>4. QED BY <1>5, <2>3, NextViewFields
  <1>8. QED BY <1>2, <1>3, <1>5, <1>6, <1>7, TablesHarmed

LEMMA RunHarmed ==
    ASSUME Found, damages = 0, DamageCitedRun PROVE Harmed
  <1>1. PICK u \in tables.runs :
            /\ \E v \in tables.revisions : v.probe = u.id
            /\ \/ tables' = [tables EXCEPT !.runs = tables.runs \ {u}]
               \/ \E w \in {[u EXCEPT !.revision = r] : r \in Ids}
                        \cup {[u EXCEPT !.kind = k] : k \in {"probe", "task"}}
                        \cup {[u EXCEPT !.passed = p] : p \in BOOLEAN} :
                     w # u /\ tables' = [tables EXCEPT !.runs = (tables.runs \ {u}) \cup {w}]
    BY DEF DamageCitedRun
  <1>2. Damaged /\ UNCHANGED <<rows, last>>
    BY DEF DamageCitedRun
  <1>3. /\ honest.case = tables.case /\ honest.events = EventsOf(rows) /\ Sound(honest)
        /\ honest.revisions = tables.revisions /\ honest.runs = tables.runs /\ tables.case # NoCase
    BY <1>1, RowsMean, FoundFacts, FitsFacts DEF Found
  <1>4. ValidCase(honest)
    BY <1>3, SoundFacts
  <1>5. TablesOk(tables)
    BY TypeParts DEF Found
  <1>6. u.id \in RunIds /\ u.revision \in Ids /\ u.id # None
    BY <1>5, NoneIsNoId DEF TablesOk
  <1>7. IsRun(u)
    BY <1>3 DEF Found, FieldsOk
  <1>8. /\ tables'.case = tables.case /\ u \notin tables'.runs
        /\ \A w \in tables'.runs : w.id \in RunIds /\ w.revision \in Ids
    <2>1. ASSUME NEW w \in {[u EXCEPT !.revision = r] : r \in Ids}
                        \cup {[u EXCEPT !.kind = k] : k \in {"probe", "task"}}
                        \cup {[u EXCEPT !.passed = p] : p \in BOOLEAN}
          PROVE  w.id \in RunIds /\ w.revision \in Ids
      <3>1. u = [id |-> u.id, revision |-> u.revision, kind |-> u.kind, passed |-> u.passed]
        BY <1>7 DEF IsRun
      <3>2. ASSUME NEW r \in Ids, w = [u EXCEPT !.revision = r]
            PROVE  w.id = u.id /\ w.revision = r
        BY <3>1, <3>2
      <3>3. ASSUME NEW k, w = [u EXCEPT !.kind = k] \/ w = [u EXCEPT !.passed = k]
            PROVE  w.id = u.id /\ w.revision = u.revision
        BY <3>1, <3>3
      <3>4. \/ \E r \in Ids : w = [u EXCEPT !.revision = r]
            \/ \E k : w = [u EXCEPT !.kind = k] \/ w = [u EXCEPT !.passed = k]
        OBVIOUS
      <3>5. QED BY <1>6, <3>2, <3>3, <3>4
    <2>2. \A w \in tables.runs : w.id \in RunIds /\ w.revision \in Ids
      BY <1>5 DEF TablesOk
    <2>3. CASE tables' = [tables EXCEPT !.runs = tables.runs \ {u}]
      BY <2>2, <2>3 DEF Found, Fits
    <2>4. CASE tables' # [tables EXCEPT !.runs = tables.runs \ {u}]
      <3>1. PICK w : /\ w.id \in RunIds /\ w.revision \in Ids /\ w # u
                     /\ tables' = [tables EXCEPT !.runs = (tables.runs \ {u}) \cup {w}]
        BY <1>1, <2>1, <2>4
      <3>2. QED BY <2>2, <3>1 DEF Found, Fits
    <2>5. QED BY <2>3, <2>4
  <1>9. TablesOk(tables')
    BY <1>5, <1>8 DEF TablesOk
  <1>10. ASSUME ValidCase(View') PROVE FALSE
    <2>1. View'.case = honest.case /\ View'.events = honest.events
      BY <1>2, <1>3, <1>8, NextViewFields
    <2>2. PICK v \in honest.revisions : v.probe = u.id
      BY <1>1, <1>3
    <2>3. u \in View'.runs
      BY <1>3, <1>4, <1>6, <1>10, <2>1, <2>2, RowsDetermined
    <2>4. QED BY <1>8, <2>3, NextViewFields
  <1>11. QED BY <1>2, <1>3, <1>8, <1>9, <1>10, TablesHarmed

Damage == DamageEvents \/ DamageCase \/ DamageRevision \/ DamageCitedRun

LEMMA DamageStep ==
    ASSUME Found, damages = 0, Damage PROVE Harmed
  BY EventsHarmed, CaseHarmed, RevisionHarmed, RunHarmed DEF Damage

\* A call that the store accepts.
Call ==
    \/ Create \/ AppendFree \/ Record \/ Commit \/ Reserve \/ Conclude
    \/ Retry \/ GetQualification

LEMMA StoreFacts ==
    ASSUME NEW o, Store(o) PROVE o.answer = "done" /\ damages' = damages
  BY DEF Store

LEMMA CallHarmless ==
    ASSUME Call PROVE damages' = damages
  <1>1. Create \/ AppendFree \/ Record => damages' = damages
    BY StoreFacts DEF Create, AppendFree, Record
  <1>2. Commit \/ Reserve \/ Conclude => damages' = damages
    BY StoreFacts DEF Commit, Reserve, Conclude
  <1>3. Retry \/ GetQualification => damages' = damages
    BY DEF Retry, GetQualification
  <1>4. QED BY <1>1, <1>2, <1>3 DEF Call

LEMMA CallStep ==
    ASSUME Found, Call PROVE Stepped
  BY CreateStep, AppendStep, RecordStep, CommitStep, ReserveStep, ConcludeStep,
     RetryStep, ReadStep DEF Call

\* A damage that is noticed stops every call.
LEMMA NoticedStops ==
    ASSUME Noticed, Call PROVE FALSE
  <1>1. ~(Chained /\ ValidCase(View)) /\ View.case # NoCase
    BY ViewFields DEF Noticed, Restored
  <1>2. \A ok, after : /\ Outcome(ok, View, after).answer # "again"
                       /\ Outcome(ok, View, after).answer = "done" => ok
    BY DEF Outcome
  <1>3. Again(View).answer # "done"
    BY DEF Again
  <1>4. ~Create
    <2>1. \A x, y : CreateCase(View, x, y).answer = "done" => View.case = NoCase
      BY <1>2 DEF CreateCase
    <2>2. QED BY <1>1, <2>1, StoreFacts DEF Create
  <1>5. ~AppendFree
    <2>1. \A e : AppendEvent(View, e).answer = "done" => ValidCase(View)
      BY <1>2 DEF AppendEvent
    <2>2. QED BY <1>1, <2>1, StoreFacts DEF AppendFree
  <1>6. ~Record
    <2>1. \A u, e : RecordRun(View, u, e).answer = "done" => ValidCase(View)
      BY <1>2 DEF RecordRun
    <2>2. QED BY <1>1, <2>1, StoreFacts DEF Record
  <1>7. ~Commit
    <2>1. \A row, e, x : CommitRevision(View, row, e, x).answer = "done" => ValidCase(View)
      BY <1>2, <1>3 DEF CommitRevision
    <2>2. QED BY <1>1, <2>1, StoreFacts DEF Commit
  <1>8. ~Reserve
    <2>1. \A r, q, x, b : ReserveQualification(View, r, q, x, b).answer = "done" => ValidCase(View)
      BY <1>2, <1>3 DEF ReserveQualification
    <2>2. QED BY <1>1, <2>1, StoreFacts DEF Reserve
  <1>9. ~Conclude
    <2>1. \A r, q, x, y : RecordTerminal(View, r, q, x, y).answer = "done" => ValidCase(View)
      BY <1>2, <1>3 DEF RecordTerminal
    <2>2. QED BY <1>1, <2>1, StoreFacts DEF Conclude
  <1>10. ~Retry
    <2>1. \A r, q, x, b : ReserveQualification(View, r, q, x, b).answer = "again" => ValidCase(View)
      BY <1>2 DEF ReserveQualification
    <2>2. \A r, q, x, y : RecordTerminal(View, r, q, x, y).answer = "again" => ValidCase(View)
      BY <1>2 DEF RecordTerminal
    <2>3. QED BY <1>1, <2>1, <2>2 DEF Retry
  <1>11. ~GetQualification
    BY DEF Noticed, GetQualification
  <1>12. QED BY <1>4, <1>5, <1>6, <1>7, <1>8, <1>9, <1>10, <1>11 DEF Call

-----------------------------------------------------------------------------
(* The invariant *)

LEMMA InitInv == Init => IInv
  <1> SUFFICES ASSUME Init PROVE IInv
    OBVIOUS
  <1>1. /\ tables = [case |-> NoCase, revisions |-> {}, runs |-> {}] /\ rows = <<>> /\ last = 0
        /\ told = {} /\ honest = NoDatabase /\ damages = 0
    BY DEF Init
  <1>2. /\ NoDatabase.case = NoCase /\ NoDatabase.revisions = {} /\ NoDatabase.runs = {}
        /\ NoDatabase.events = <<>>
    BY DEF NoDatabase, Database
  <1>3. Fits
    <2>1. Contents = <<>>
      BY <1>1, EmptyFile DEF Contents, EventsOf
    <2>2. View = honest
      BY <1>1, <2>1 DEF View, NoDatabase, Database
    <2>3. QED BY <1>1, <2>2, EmptyFile DEF Fits
  <1>4. Evidenced(NoDatabase) /\ ResultsOk(NoDatabase)
    <2>1. \A types : Places(NoDatabase, types) = {}
      BY <1>2 DEF Places
    <2>2. QED BY <2>1 DEF Evidenced, RevisionPlaces, ResultsOk, Endings
  <1>5. KeptOf(honest, told)
    BY <1>1, <1>4, EmptySound, EmptyLine DEF KeptOf
  <1>6. FieldsOk(honest)
    BY <1>1, <1>2 DEF FieldsOk, NoCase
  <1>7. TypeOK
    <2>1. Len(rows) = 0 /\ last = 0 /\ told \subseteq Answers /\ damages = 0
      BY <1>1
    <2>2. TablesOk(tables)
      BY <1>1 DEF TablesOk
    <2>3. QED BY <2>1, <2>2, TypeParts, BoundsAssumption
  <1>8. QED BY <1>1, <1>3, <1>5, <1>6, <1>7 DEF IInv

\* Next, in its parts.
LEMMA NextParts == Next <=> Call \/ Damage
  BY DEF Next, Call, Damage

LEMMA NextInv == IInv /\ [Next]_vars => IInv'
  <1> SUFFICES ASSUME IInv, [Next]_vars PROVE IInv'
    OBVIOUS
  <1>1. damages \in Nat
    BY DEF IInv
  <1>2. CASE UNCHANGED vars
    <2>1. /\ UNCHANGED <<damages, told, honest, tables, rows, last>>
      BY <1>2 DEF vars
    <2>2. (TypeOK <=> TypeOK') /\ (Fits <=> Fits') /\ (Noticed <=> Noticed')
      BY <2>1 DEF TypeOK, Fits, Noticed, Restored, Chained, PrevHash, View, Contents
    <2>3. QED BY <2>1, <2>2 DEF IInv
  <1>3. CASE Damage /\ damages # 0
    <2>1. damages' = damages + 1
      BY <1>3 DEF Damage, DamageEvents, DamageCase, DamageRevision, DamageCitedRun, Damaged
    <2>2. damages' \in Nat /\ damages' # 0 /\ ~(damages' <= 1)
      BY <1>1, <1>3, <2>1
    <2>3. QED BY <2>2 DEF IInv
  <1>4. CASE Damage /\ damages = 0
    <2>1. Found
      BY <1>4 DEF IInv, Found
    <2>2. Harmed
      BY <1>4, <2>1, DamageStep
    <2>3. KeptOf(honest', told') /\ FieldsOk(honest')
      BY <2>1, <2>2 DEF Found, Harmed
    <2>4. QED BY <2>2, <2>3 DEF IInv, Harmed
  <1>5. CASE Call /\ damages <= 1
    <2>1. Fits
      BY <1>5, NoticedStops DEF IInv
    <2>2. Found
      BY <1>5, <2>1 DEF IInv, Found
    <2>3. Stepped /\ damages' = damages
      BY <1>5, <2>2, CallStep, CallHarmless
    <2>4. QED BY <1>1, <2>3 DEF IInv, Stepped
  <1>6. CASE Call /\ ~(damages <= 1)
    <2>1. damages' = damages
      BY <1>6, CallHarmless
    <2>2. QED BY <1>1, <1>6, <2>1 DEF IInv
  <1>7. QED BY <1>2, <1>3, <1>4, <1>5, <1>6, NextParts

\* The inductive invariant holds in every state.
THEOREM Invariant == Spec => []IInv
  BY InitInv, NextInv, PTL DEF Spec

-----------------------------------------------------------------------------
(* Theorems *)

\* However the calls come, from however many clients, the store never bricks a case with what it
\* accepts, and no revision is there before its evidence; one damage of the file changes nothing
\* of that.
THEOREM CaseSoundAlways == Spec => [](damages <= 1 => CaseSound)
  <1>1. ASSUME IInv, damages <= 1 PROVE CaseSound
    <2>1. TypeOK /\ Sound(honest) /\ Evidenced(honest)
      BY <1>1 DEF IInv, KeptOf
    <2>2. NeverBricked
      BY <2>1, SoundFacts DEF NeverBricked
    <2>3. EvidenceFirst
      BY <2>1 DEF EvidenceFirst, Evidenced, Backed
    <2>4. QED BY <2>1, <2>2, <2>3 DEF CaseSound
  <1>2. QED BY <1>1, Invariant, PTL

\* Whoever reserves, concludes, retries or reads, all are told of one attempt on one revision and
\* of one verdict with one result; a damaged file gives no one another answer.
THEOREM OneVerdictAlways == Spec => [](damages <= 1 => OneVerdict)
  <1>1. ASSUME IInv, damages <= 1 PROVE OneVerdict
    <2>1. /\ told \subseteq Answers /\ Sound(honest) /\ \A t \in told : Knows(honest, t)
      BY <1>1, TypeParts DEF IInv, KeptOf
    <2> SUFFICES ASSUME NEW t \in told, NEW u \in told
                 PROVE  /\ t.revision = u.revision /\ t.attempt = u.attempt
                        /\ t.state \in Terminal /\ u.state \in Terminal => t = u
      BY DEF OneVerdict
    <2>2. Knows(honest, t) /\ Knows(honest, u)
      BY <2>1
    <2>3. QualificationOk(honest)
      BY <2>1, <2>2, SoundFacts, ValidParts DEF Knows
    <2>4. t.revision = u.revision /\ t.attempt = u.attempt
      <3>1. \A i, j \in Reservations(honest) : i = j
        BY <2>3 DEF QualificationOk
      <3>2. QED BY <2>2, <3>1 DEF Knows, SameAttempt, Reservations
    <2>5. ASSUME t.state \in Terminal, u.state \in Terminal PROVE t = u
      <3>1. t.state = u.state /\ t.result = u.result
        BY <2>2, <2>5 DEF Knows
      <3>2. t \in Answers /\ u \in Answers
        BY <2>1
      <3>3. QED BY <2>4, <3>1, <3>2 DEF Answers
    <2>6. QED BY <2>4, <2>5
  <1>2. QED BY <1>1, Invariant, PTL

\* The store refuses a case of which any one row of the ledger, the row of the case, a revision or
\* a cited run was lost or altered.
THEOREM DamageNoticedAlways == Spec => [](damages <= 1 => DamageNoticed)
  <1>1. ASSUME IInv, damages <= 1 PROVE DamageNoticed
    BY <1>1 DEF IInv, Fits, Noticed, DamageNoticed
  <1>2. QED BY <1>1, Invariant, PTL

LEMMA HistoryOf ==
    /\ Line = LineOf(honest) /\ Verdict = VerdictOf(honest) /\ Judged = honest.case.judged
    /\ Line' = LineOf(honest') /\ Verdict' = VerdictOf(honest') /\ Judged' = honest'.case.judged
  BY DEF Line, Verdict, Judged, LineOf, VerdictOf

LEMMA HistoryMoves ==
    ASSUME Moves(honest, honest') PROVE [History!Next]_<<Line, Judged, Verdict>>
  <1>1. Starts(honest, honest') => History!Create
    BY HistoryOf DEF Starts, History!Create
  <1>2. (\E r : ExtendedBy(honest, honest', r)) => History!Extend
    BY HistoryOf DEF ExtendedBy, History!Extend
  <1>3. SealedAs(honest, honest') => History!Reserve
    BY HistoryOf DEF SealedAs, History!Reserve
  <1>4. DecidedAs(honest, honest') => History!Decide
    BY HistoryOf DEF DecidedAs, History!Decide
  <1>5. Rests(honest, honest') => UNCHANGED <<Line, Judged, Verdict>>
    BY HistoryOf DEF Rests
  <1>6. QED BY <1>1, <1>2, <1>3, <1>4, <1>5 DEF Moves, History!Next

\* An undamaged store implements the case it promises: the line of revisions grows at its end, the
\* reservation seals it with the revision at its end, and the verdict comes once.
THEOREM ImplementsHistoryAlways == Spec => ImplementsHistory
  <1>1. Init => History!Init
    <2> SUFFICES ASSUME Init PROVE History!Init
      OBVIOUS
    <2>1. honest = NoDatabase /\ NoDatabase.case = NoCase
      BY DEF Init, NoDatabase, Database
    <2>2. Line = <<>> /\ Judged = None /\ Verdict = "unused"
      BY <2>1, EmptyLine, HistoryOf DEF NoCase, VerdictOf
    <2>3. QED BY <2>2 DEF History!Init
  <1>2. ASSUME IInv, [Next]_vars
        PROVE  [damages = 0 => History!Next]_<<Line, Judged, Verdict>>
    <2>1. CASE UNCHANGED honest
      <3>1. UNCHANGED <<Line, Judged, Verdict>>
        BY <2>1, HistoryOf
      <3>2. QED BY <3>1
    <2>2. CASE Call /\ damages = 0
      <3>1. Found
        BY <1>2, <2>2 DEF IInv, Found
      <3>2. Moves(honest, honest')
        BY <2>2, <3>1, CallStep DEF Stepped
      <3>3. QED BY <3>2, HistoryMoves
    <2>3. CASE damages # 0
      BY <2>3
    <2>4. Damage => UNCHANGED honest
      BY DEF Damage, DamageEvents, DamageCase, DamageRevision, DamageCitedRun, Damaged
    <2>5. UNCHANGED vars => UNCHANGED honest
      BY DEF vars
    <2>6. QED BY <1>2, <2>1, <2>2, <2>3, <2>4, <2>5, NextParts
  <1>3. QED BY <1>1, <1>2, Invariant, PTL DEF Spec, ImplementsHistory
=============================================================================
