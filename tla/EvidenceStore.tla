---------------------------- MODULE EvidenceStore ----------------------------
(***************************************************************************)
(* EvidenceStore of asset_autopsy/storage.py: several clients, in one or   *)
(* more processes, call it with any arguments, retry calls whose answer    *)
(* they lost, and read.  A call is one SQLite transaction (BEGIN           *)
(* IMMEDIATE), so a crash within it leaves nothing of it.  Between calls   *)
(* the file may be damaged: a row is lost or a column of it changes.       *)
(*                                                                         *)
(* The hash of an event is the sequence of contents it stands for: no two  *)
(* histories share one.                                                    *)
(***************************************************************************)
EXTENDS EvidenceLedger

CONSTANTS RevisionIds,   \* besides Root
          EventIds, RunIds, Assets, Commitments, Attempts, Results,
          MaxEvents,     \* bound of the ledger's length
          MaxDamages     \* bound on the damages

\* Identifiers are strings, and None is the absence of one.
ASSUME NoneIsNoId == None \notin RevisionIds \cup RunIds
ASSUME BoundsAssumption == MaxEvents \in Nat /\ MaxDamages \in Nat

VARIABLES tables,   \* the rows of cases, revisions and runs
          rows,     \* ledger_events: [event, prev, hash]
          last,     \* its entry in sqlite_sequence
          told,     \* every qualification a client was answered
          honest,   \* the database as the calls left it
          damages

vars == <<tables, rows, last, told, honest, damages>>

Contents == [i \in DOMAIN rows |-> rows[i].event]
View == [case |-> tables.case, revisions |-> tables.revisions, runs |-> tables.runs,
         events |-> Contents]

PrevHash(i) == IF i = 1 THEN <<>> ELSE rows[i - 1].hash

\* Mutation of Chained: the number of rows is not compared with sqlite_sequence.
ChainedButTail ==
    \A i \in DOMAIN rows :
        rows[i].prev = PrevHash(i) /\ rows[i].hash = Append(rows[i].prev, rows[i].event)

\* _verified_ledger_from_connection: no row is missing and each hash follows from the one before.
Chained ==
    /\ Len(rows) = last
    /\ \A i \in DOMAIN rows :
        rows[i].prev = PrevHash(i) /\ rows[i].hash = Append(rows[i].prev, rows[i].event)

\* restore_state accepts the case.
Restored == Chained /\ ValidCase(View)

Ids == RevisionIds \cup {Root}
Bounds == [source : Assets, commitments : Commitments]
RevisionRows == [id : RevisionIds, parent : Ids, ordinal : 1 .. 2, asset : Assets,
                 hypothesis : EventIds, probe : RunIds]
RunRows == [id : RunIds, revision : Ids, kind : {"probe", "task"}, passed : {TRUE}]
FreeEvents == {EventRow(id, r, t, None) : id \in EventIds, r \in Ids,
                                          t \in {"HYPOTHESIS_RECORDED", "EXPERIMENT_COMPLETED"}}

Init ==
    /\ tables = [case |-> NoCase, revisions |-> {}, runs |-> {}]
    /\ rows = <<>> /\ last = 0
    /\ told = {}
    /\ honest = NoDatabase
    /\ damages = 0

\* _append_event: the new row continues the hash of the row before it.
HashedRow(event) == LET prev == PrevHash(Len(rows) + 1) IN
    [event |-> event, prev |-> prev, hash |-> Append(prev, event)]

\* The bound of the model: a call that appends begins below it.
HasRoom == Len(rows) < MaxEvents

\* A transaction that commits o; the actions begin it only on a ledger that is Chained.
Store(o) ==
    /\ o.answer = "done"
    /\ Len(o.db.events) <= MaxEvents
    /\ tables' = [case |-> o.db.case, revisions |-> o.db.revisions, runs |-> o.db.runs]
    /\ rows' = rows \o [i \in 1 .. Len(o.db.events) - Len(rows) |->
                            HashedRow(o.db.events[Len(rows) + i])]
    /\ last' = Len(rows')
    /\ honest' = o.db
    /\ UNCHANGED damages

Tell(state, revision, attempt, result) ==
    told' = told \cup {[state |-> state, revision |-> revision, attempt |-> attempt, result |-> result]}

-----------------------------------------------------------------------------
(* The calls *)

Create ==
    /\ Chained /\ HasRoom
    /\ \E b \in Bounds : Store(CreateCase(View, b.source, b.commitments))
    /\ UNCHANGED told

AppendFree ==
    /\ Chained /\ HasRoom
    /\ \E e \in FreeEvents : Store(AppendEvent(View, e))
    /\ UNCHANGED told

Record ==
    /\ Chained
    /\ \E u \in RunRows : \E e \in FreeEvents \cup {NoEvent} : Store(RecordRun(View, u, e))
    /\ UNCHANGED told

Commit ==
    /\ Chained /\ HasRoom
    /\ \E row \in RevisionRows, id \in EventIds, run \in tables.runs, expected \in Ids :
           Store(CommitRevision(View, row, RevisionEvent(id, row, run), expected))
    /\ UNCHANGED told

Reserve ==
    /\ Chained /\ HasRoom
    /\ \E r, expected \in Ids, q \in Attempts, b \in Bounds :
          /\ Store(ReserveQualification(View, r, q, expected, b))
          /\ Tell("RUNNING", r, q, None)

Conclude ==
    /\ Chained /\ HasRoom
    /\ \E r \in Ids, q \in Attempts, s \in Terminal, x \in Results \cup {None} :
          /\ Store(RecordTerminal(View, r, q, s, x))
          /\ Tell(s, r, q, x)

\* A retry, by the client that sent the call or by another one, is answered from the ledger.
Retry ==
    /\ Chained
    /\ \E r \in Ids, q \in Attempts :
          \/ /\ \E expected \in Ids, b \in Bounds :
                    ReserveQualification(View, r, q, expected, b).answer = "again"
             /\ Tell("RUNNING", r, q, None)
          \/ \E s \in Terminal, x \in Results \cup {None} :
                /\ RecordTerminal(View, r, q, s, x).answer = "again"
                /\ Tell(s, r, q, StoredResult(View))
    /\ UNCHANGED <<tables, rows, last, honest, damages>>

\* get_qualification
GetQualification ==
    /\ Restored
    /\ tables.case.result # None
    /\ Tell(tables.case.result, tables.case.judged, tables.case.attempt, StoredResult(View))
    /\ UNCHANGED <<tables, rows, last, honest, damages>>

-----------------------------------------------------------------------------
(* Damage to the file.  Hashes are not made to fit again, and a run that no revision *)
(* cites is left alone: nothing in the ledger repeats it.                            *)

Damaged == damages < MaxDamages /\ damages' = damages + 1 /\ UNCHANGED <<told, honest>>

DamageEvents ==
    /\ \E i \in DOMAIN rows : LET e == rows[i].event IN
        \/ rows' = SubSeq(rows, 1, i - 1) \o SubSeq(rows, i + 1, Len(rows))
        \/ \E f \in {[e EXCEPT !.revision = r] : r \in Ids}
                 \cup {[e EXCEPT !.type = t] : t \in Owned \cup {"HYPOTHESIS_RECORDED"}}
                 \cup {[e EXCEPT !.id = x] : x \in EventIds}
                 \cup {[e EXCEPT !.body = x] : x \in {None, Root}} :
              f # e /\ rows' = [rows EXCEPT ![i].event = f]
        \/ rows' = [rows EXCEPT ![i].prev = <<None>>]
        \/ rows' = [rows EXCEPT ![i].hash = <<None>>]
    /\ Damaged /\ UNCHANGED <<tables, last>>

DamageCase ==
    /\ tables.case # NoCase
    /\ LET c == tables.case IN
       \E d \in {[c EXCEPT !.head = r] : r \in Ids}
             \cup {[c EXCEPT !.judged = r] : r \in Ids \cup {None}}
             \cup {[c EXCEPT !.attempt = q] : q \in Attempts \cup {None}}
             \cup {[c EXCEPT !.result = s] : s \in Terminal \cup {"RUNNING", None}}
             \cup {[c EXCEPT !.source = a] : a \in Assets}
             \cup {[c EXCEPT !.commitments = x] : x \in Commitments} :
          d # c /\ tables' = [tables EXCEPT !.case = d]
    /\ Damaged /\ UNCHANGED <<rows, last>>

DamageRevision ==
    /\ \E v \in tables.revisions :
          LET others == tables.revisions \ {v} IN
          \/ tables' = [tables EXCEPT !.revisions = others]
          \/ \E w \in {[v EXCEPT !.parent = r] : r \in Ids \cup {None}}
                   \cup {[v EXCEPT !.ordinal = n] : n \in 0 .. 2}
                   \cup {[v EXCEPT !.asset = a] : a \in Assets}
                   \cup {[v EXCEPT !.hypothesis = x] : x \in EventIds \cup {None}}
                   \cup {[v EXCEPT !.probe = x] : x \in RunIds \cup {None}} :
                w # v /\ tables' = [tables EXCEPT !.revisions = others \cup {w}]
    /\ Damaged /\ UNCHANGED <<rows, last>>

DamageCitedRun ==
    /\ \E u \in tables.runs :
          LET others == tables.runs \ {u} IN
          /\ \E v \in tables.revisions : v.probe = u.id
          /\ \/ tables' = [tables EXCEPT !.runs = others]
             \/ \E w \in {[u EXCEPT !.revision = r] : r \in Ids}
                      \cup {[u EXCEPT !.kind = k] : k \in {"probe", "task"}}
                      \cup {[u EXCEPT !.passed = p] : p \in BOOLEAN} :
                   w # u /\ tables' = [tables EXCEPT !.runs = others \cup {w}]
    /\ Damaged /\ UNCHANGED <<rows, last>>

Next == \/ Create \/ AppendFree \/ Record \/ Commit \/ Reserve \/ Conclude
        \/ Retry \/ GetQualification
        \/ DamageEvents \/ DamageCase \/ DamageRevision \/ DamageCitedRun

Spec == Init /\ [][Next]_vars

-----------------------------------------------------------------------------
(* Properties *)

\* The type invariant.
TypeOK ==
    /\ tables.case = NoCase \/
         /\ tables.case.head \in Ids
         /\ tables.case.judged \in Ids \cup {None}
         /\ tables.case.attempt \in Attempts \cup {None}
         /\ tables.case.result \in Terminal \cup {"RUNNING", None}
    /\ \A u \in tables.runs : u.id \in RunIds /\ u.revision \in Ids
    /\ Len(rows) <= MaxEvents /\ last \in 0 .. MaxEvents
    /\ told \subseteq [state : Terminal \cup {"RUNNING"}, revision : Ids, attempt : Attempts,
                       result : Results \cup {None}]
    /\ damages \in Nat

\* Whatever the calls and their order, they never leave a case that the store itself would
\* refuse from then on: what the transactions accept, the replay of restore_state accepts.
NeverBricked == damages = 0 /\ honest.case # NoCase => ValidCase(honest)

\* A damaged database is noticed: while the store accepts the case, its rows and its ledger
\* are the ones the calls wrote (restore_state, and the check each transaction begins with).
DamageNoticed == Restored => View = honest

\* The evidence of a revision was in the ledger before the revision: a hypothesis about its
\* parent, recorded before the revision, and a probe run on that parent.  The replay of
\* _validate_case_lifecycle does not compare these places, only the commit does.
EvidenceFirst ==
    \A i \in RevisionPlaces(honest) :
        LET v == honest.events[i].body.row IN
        /\ \E h \in 1 .. i - 1 : /\ honest.events[h].id = v.hypothesis
                                 /\ honest.events[h].type = "HYPOTHESIS_RECORDED"
                                 /\ honest.events[h].revision = v.parent
        /\ \E u \in honest.runs : u.id = v.probe /\ u.revision = v.parent /\ u.kind = "probe"

\* All clients are told of the same attempt on the same revision, and of one verdict with
\* one result, whoever asks, retries or reads, and in whatever order.
OneVerdict ==
    \A t, u \in told :
        /\ t.revision = u.revision /\ t.attempt = u.attempt
        /\ t.state \in Terminal /\ u.state \in Terminal => t = u

\* An undamaged store implements the case it promises: the line of revisions grows at its
\* end, the reservation seals it, and the verdict is given once (CaseHistory).
LineOf(db) ==
    [n \in 1 .. Cardinality(db.revisions) |->
        (CHOOSE v \in db.revisions : v.ordinal = n - 1).id]

Line == LineOf(honest)
Judged == honest.case.judged
Verdict == IF honest.case.result = None THEN "unused" ELSE honest.case.result

History == INSTANCE CaseHistory WITH line <- Line, judged <- Judged, verdict <- Verdict

ImplementsHistory ==
    History!Init /\ [][damages = 0 => History!Next]_<<Line, Judged, Verdict>>

\* The case is sound after any accepted calls: the store goes on accepting it, and each of its
\* revisions cites evidence that came before.
CaseSound == TypeOK /\ NeverBricked /\ EvidenceFirst
=============================================================================
