---------------------------- MODULE EvidenceLedger ----------------------------
(***************************************************************************)
(* The tables of one case in asset_autopsy/storage.py (EvidenceStore) and  *)
(* the transactions on them.  A database is a record                       *)
(*   case       its row of "cases", or NoCase                              *)
(*   revisions  its rows of "revisions";  runs  its rows of "runs"         *)
(*   events     the contents of "ledger_events", in order of seq           *)
(* Each transaction validates the whole case first, answers "done",        *)
(* "again" (what a retry asks for is there already) or "refused", and      *)
(* gives the database it leaves.  EvidenceStore calls them with any        *)
(* arguments, AutopsyCase as the case service does.  An attempt stands for *)
(* its id with its suite and scenario hashes; identifiers that the store   *)
(* draws itself are None, as nobody can name them.                         *)
(***************************************************************************)
EXTENDS Integers, FiniteSets, Sequences

CONSTANTS Root,   \* the root revision
          None

ASSUME RootAssumption == Root # None
ASSUME NoneAssumption == None \notin {"RUNNING", "PASSED", "FAILED"}

Terminal == {"PASSED", "FAILED"}
TerminalType == [PASSED |-> "QUALIFICATION_PASSED", FAILED |-> "QUALIFICATION_FAILED"]

\* TRANSACTIONAL_EVENT_TYPES: append_event and record_run refuse them.
Owned == {"CASE_CREATED", "REVISION_CREATED", "QUALIFICATION_RESERVED",
          "QUALIFICATION_PASSED", "QUALIFICATION_FAILED"}

EventRow(id, revision, type, body) ==
    [id |-> id, revision |-> revision, type |-> type, body |-> body]

RootRow(asset) == [id |-> Root, parent |-> None, ordinal |-> 0, asset |-> asset,
                   hypothesis |-> None, probe |-> None]

\* CaseRecord before any qualification: commitments are the hashes the case is bound to.
NewCase(source, commitments) ==
    [head |-> Root, source |-> source, commitments |-> commitments,
     judged |-> None, attempt |-> None, result |-> None]

\* Where there is no row in "cases", and where record_run is given no event.
NoCase == [head |-> None, source |-> None, commitments |-> None,
           judged |-> None, attempt |-> None, result |-> None]
NoEvent == EventRow(None, None, None, None)

Database(c, revisions, runs, events) ==
    [case |-> c, revisions |-> revisions, runs |-> runs, events |-> events]

NoDatabase == Database(NoCase, {}, {}, <<>>)

-----------------------------------------------------------------------------
(* Reading the ledger *)

Places(db, types) == {i \in DOMAIN db.events : db.events[i].type \in types}
RevisionPlaces(db) == Places(db, {"REVISION_CREATED"})
RevisionIn(db, id) == \E v \in db.revisions : v.id = id

\* The revision at the end of the line before place i.
HeadBefore(db, i) ==
    LET before == {j \in RevisionPlaces(db) : j < i} IN
    IF before = {} THEN Root
    ELSE db.events[CHOOSE j \in before : \A k \in before : k <= j].revision

Bound(db, i) ==
    [source |-> db.case.source, commitments |-> db.case.commitments] = db.events[i].body.bound

\* _replay_case_lifecycle: the ledger of the case is a legal life, and its row is the end of it.
Replays(db) ==
    LET reserved == Places(db, {"QUALIFICATION_RESERVED"})
        ended == Places(db, {TerminalType[t] : t \in Terminal})
        c == db.case
    IN /\ \E i \in Places(db, {"CASE_CREATED"}) :
             /\ Places(db, {"CASE_CREATED"}) = {i}
             /\ db.events[i].revision = Root
             /\ Bound(db, i)
       /\ \A i, j \in reserved : i = j
       /\ \A i, j \in ended : i = j
       /\ \A i \in reserved :
             /\ \A j \in RevisionPlaces(db) : j < i
             /\ Bound(db, i)
             /\ db.events[i].body.result = None
             /\ db.events[i].revision = HeadBefore(db, i)
             /\ c.judged = db.events[i].revision
             /\ c.attempt = db.events[i].body.attempt
       /\ \A i \in ended :
             /\ Bound(db, i)
             /\ \E j \in reserved :
                   /\ j < i
                   /\ db.events[i].revision = db.events[j].revision
                   /\ db.events[i].body.attempt = db.events[j].body.attempt
             /\ c.result \in Terminal
             /\ db.events[i].type = TerminalType[c.result]
       /\ reserved = {} => c.judged = None /\ c.attempt = None /\ c.result = None
       /\ reserved # {} /\ ended = {} => c.result = "RUNNING"
       /\ c.head = HeadBefore(db, Len(db.events) + 1)

\* Mutation of Cites: a hypothesis about any revision will do.
CitesAnyHypothesis(db, row) ==
    /\ \E i \in DOMAIN db.events :
          db.events[i].id = row.hypothesis /\ db.events[i].type = "HYPOTHESIS_RECORDED"
    /\ \E u \in db.runs : u.id = row.probe /\ u.revision = row.parent /\ u.kind = "probe"

\* A revision row cites a hypothesis about its parent and a probe run on it.
Cites(db, row) ==
    /\ \E i \in DOMAIN db.events :
          /\ db.events[i].id = row.hypothesis
          /\ db.events[i].type = "HYPOTHESIS_RECORDED"
          /\ db.events[i].revision = row.parent
    /\ \E u \in db.runs : u.id = row.probe /\ u.revision = row.parent /\ u.kind = "probe"

\* _verified_ledger_from_connection: events name revisions that are there.
Referenced(db) ==
    \A i \in DOMAIN db.events :
        db.events[i].revision = None \/ RevisionIn(db, db.events[i].revision)

\* _validate_case_lifecycle_from_connection: rows and ledger tell the same story.
ValidCase(db) ==
    /\ db.case # NoCase
    /\ Referenced(db)
    /\ Replays(db)
    /\ RootRow(db.case.source) \in db.revisions
    /\ {v.id : v \in db.revisions} =
          {Root} \cup {db.events[i].revision : i \in RevisionPlaces(db)}
    /\ \A i \in RevisionPlaces(db) : \E v \in db.revisions :
          /\ v.id = db.events[i].revision
          /\ v.parent = HeadBefore(db, i)
          /\ v.ordinal = Cardinality({j \in RevisionPlaces(db) : j <= i})
          /\ v.hypothesis # None /\ v.probe # None
          /\ Cites(db, v)
          /\ db.events[i].body.row = v
          /\ db.events[i].body.run \in {u \in db.runs : u.id = v.probe}
    /\ \A u \in db.runs : RevisionIn(db, u.revision)

-----------------------------------------------------------------------------
(* Transactions.  Log appends an event; its id, when a caller chose it, is new. *)

FreshId(db, id) == id = None \/ \A i \in DOMAIN db.events : db.events[i].id # id

Log(db, event) == Database(db.case, db.revisions, db.runs, Append(db.events, event))

\* Refused, or the database the transaction leaves.
Outcome(ok, db, after) == [answer |-> IF ok THEN "done" ELSE "refused",
                           db |-> IF ok THEN after ELSE db]
Again(db) == [answer |-> "again", db |-> db]

CreateCase(db, source, commitments) ==
    LET c == NewCase(source, commitments)
        created == EventRow(None, Root, "CASE_CREATED",
                       [bound |-> [source |-> source, commitments |-> commitments]])
    IN Outcome(db.case = NoCase /\ Referenced(db), db,
           Log(Database(c, {RootRow(source)}, db.runs, db.events), created))

AppendEvent(db, event) ==
    Outcome(/\ event.type \notin Owned
            /\ event.revision # None => RevisionIn(db, event.revision)
            /\ FreshId(db, event.id)
            /\ ValidCase(db),
        db, Log(db, event))

\* The run and, unless it is NoEvent, its event.
RecordRun(db, run, event) ==
    LET ok == /\ event # NoEvent => /\ event.revision = run.revision
                                    /\ event.type \notin Owned
                                    /\ FreshId(db, event.id)
              /\ \A u \in db.runs : u.id # run.id
              /\ RevisionIn(db, run.revision)
              /\ ValidCase(db)
        stored == Database(db.case, db.revisions, db.runs \cup {run}, db.events)
    IN Outcome(ok, db, IF event = NoEvent THEN stored ELSE Log(stored, event))

\* The event a revision row is committed with.
RevisionEvent(id, row, run) == EventRow(id, row.id, "REVISION_CREATED", [row |-> row, run |-> run])

\* Mutation of CanCommit: a sealed case takes a revision.
CanCommitSealed(db, row, event, expected) ==
    /\ db.case.head = expected
    /\ row.parent = expected
    /\ \E v \in db.revisions : v.id = row.parent /\ row.ordinal = v.ordinal + 1
    /\ Cites(db, row)
    /\ event.body.run \in {u \in db.runs : u.id = row.probe}
    /\ FreshId(db, event.id)

\* The row comes next after the expected head, which is the head, and cites its evidence.
CanCommit(db, row, event, expected) ==
    /\ db.case.result = None
    /\ db.case.head = expected
    /\ row.parent = expected
    /\ \E v \in db.revisions : v.id = row.parent /\ row.ordinal = v.ordinal + 1
    /\ Cites(db, row)
    /\ event.body.run \in {u \in db.runs : u.id = row.probe}
    /\ FreshId(db, event.id)

\* The row is a child's, it has its citations, and its event binds it.
Shaped(row, event) ==
    /\ row.id # None /\ row.parent # None /\ row.hypothesis # None /\ row.probe # None
    /\ event.type = "REVISION_CREATED" /\ event.revision = row.id /\ event.body.row = row

\* _revision_matches and _event_matches_record: a retry repeats what is stored.
Stands(db, row, event) ==
    row \in db.revisions /\ \E i \in DOMAIN db.events : db.events[i] = event

\* commit_revision_with_event: "again" for the very row and event that are stored.
CommitRevision(db, row, event, expected) ==
    LET stored == Database([db.case EXCEPT !.head = row.id], db.revisions \cup {row}, db.runs, db.events)
    IN IF Stands(db, row, event) /\ Shaped(row, event) /\ ValidCase(db) THEN Again(db)
       ELSE Outcome(/\ Shaped(row, event)
                    /\ ~RevisionIn(db, row.id)
                    /\ CanCommit(db, row, event, expected)
                    /\ ValidCase(db), db, Log(stored, event))

-----------------------------------------------------------------------------
(* Qualification *)

QualificationEvent(db, revision, attempt, type, result) ==
    EventRow(None, revision, type,
        [bound |-> [source |-> db.case.source, commitments |-> db.case.commitments],
         attempt |-> attempt, result |-> result])

\* The row of the case names what is judged, by which attempt, and how it ended.
Qualified(db, revision, attempt, result) ==
    Database([head |-> db.case.head, source |-> db.case.source, commitments |-> db.case.commitments,
              judged |-> revision, attempt |-> attempt, result |-> result],
             db.revisions, db.runs, db.events)

\* _latest_attempt_from_connection and _identity_matches.
SameAttempt(db, revision, attempt) ==
    \E i \in Places(db, {"QUALIFICATION_RESERVED"}) :
        db.events[i].revision = revision /\ db.events[i].body.attempt = attempt

ReserveQualification(db, revision, attempt, expected, bound) ==
    LET c == db.case
        stored == Qualified(db, revision, attempt, "RUNNING")
        valid == /\ bound = [source |-> c.source, commitments |-> c.commitments]
                 /\ ValidCase(db)
    IN IF c = NoCase THEN Outcome(FALSE, db, db)
       ELSE IF c.result = "RUNNING" /\ SameAttempt(db, revision, attempt) /\ valid THEN Again(db)
       ELSE Outcome(c.result = None /\ c.head = expected /\ revision = expected /\ valid, db,
                Log(stored, QualificationEvent(db, revision, attempt, "QUALIFICATION_RESERVED", None)))

\* Its row says how the qualification ended.
Ended(db, state) == Qualified(db, db.case.judged, db.case.attempt, state)

\* The result in the terminal event, None while there is none.
StoredResult(db) ==
    LET ended == Places(db, {TerminalType[t] : t \in Terminal}) IN
    IF ended = {} THEN None ELSE db.events[CHOOSE i \in ended : TRUE].body.result

\* Mutation of RecordTerminal: a failed attempt may still be recorded as passed.
RecordTerminalOverFailed(db, revision, attempt, state, result) ==
    IF ValidCase(db) /\ db.case.result = "FAILED" /\ SameAttempt(db, revision, attempt)
    THEN Outcome(TRUE, db, Log(Ended(db, state),
                 QualificationEvent(db, revision, attempt, TerminalType[state], result)))
    ELSE Outcome(ValidCase(db) /\ db.case.result = "RUNNING" /\ SameAttempt(db, revision, attempt), db,
             Log(Ended(db, state),
                 QualificationEvent(db, revision, attempt, TerminalType[state], result)))

\* record_qualification_terminal: a retry may leave the result out.
RecordTerminal(db, revision, attempt, state, result) ==
    LET after == Log(Ended(db, state),
                     QualificationEvent(db, revision, attempt, TerminalType[state], result))
    IN IF ~SameAttempt(db, revision, attempt) \/ ~ValidCase(db) THEN Outcome(FALSE, db, db)
       ELSE IF db.case.result = state /\ result \in {None, StoredResult(db)} THEN Again(db)
       ELSE Outcome(db.case.result = "RUNNING", db, after)
=============================================================================
