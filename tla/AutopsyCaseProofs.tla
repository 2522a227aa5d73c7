-------------------------- MODULE AutopsyCaseProofs --------------------------
(***************************************************************************)
(* The case service keeps the evidence of a case in order, runs the hidden *)
(* suite once and stays within its budgets, for any services, attributes,  *)
(* values and budgets, and whatever faults happen.  That a transaction     *)
(* leaves a case valid is shown in EvidenceLedgerProofs; here it is what   *)
(* the service makes of it.                                                *)
(***************************************************************************)
EXTENDS AutopsyCase, EvidenceLedgerProofs

-----------------------------------------------------------------------------
(* What is read from a ledger d *)

HypothesisPlaces(d) == Places(d, {"HYPOTHESIS_RECORDED"})
ExperimentPlaces(d) == Places(d, {"EXPERIMENT_COMPLETED"})
TasksOf(d, r) == {i \in Places(d, {"TASK_COMPLETED"}) : d.events[i].revision = r}

\* Exactly one attribute, which is suspected, differs.
OneChange(asset, base, suspects) ==
    \E x \in suspects : \A y \in DOMAIN asset : asset[y] # base[y] <=> y = x

\* The evidence for row: a public task on its parent at b, then a hypothesis at h, then an
\* experiment at e.
CausedAt(d, row, b, h, e) ==
    /\ b \in TasksOf(d, row.parent) /\ h \in HypothesisPlaces(d) /\ e \in ExperimentPlaces(d)
    /\ b < h /\ h < e
    /\ d.events[h].revision = row.parent /\ d.events[e].revision = row.parent
    /\ d.events[e].body.run = row.probe /\ d.events[e].body.hypothesis = h
    /\ \E v \in d.revisions :
          v.id = row.parent /\ OneChange(row.asset, v.asset, d.events[h].body.suspects)

Caused(d, row) == \E b, h, e \in DOMAIN d.events : CausedAt(d, row, b, h, e)

\* The last task of row r before place q passed.
PassedBefore(d, r, q) ==
    \E i \in TasksOf(d, r) : /\ i < q
                             /\ \A j \in TasksOf(d, r) : j < q => j <= i
                             /\ d.events[i].body.passed

LatestPassed(d, r) ==
    \E i \in TasksOf(d, r) : (\A j \in TasksOf(d, r) : j <= i) /\ d.events[i].body.passed

-----------------------------------------------------------------------------
(* The inductive invariant *)

\* What the services write at place i.
EventOk(d, i) ==
    LET e == d.events[i] IN
    /\ e.type = "QUALIFICATION_RESERVED" => e.body.attempt = i
    /\ e.type = "HYPOTHESIS_RECORDED" => /\ e.body.suspects \subseteq Attributes
                                         /\ \E b \in TasksOf(d, e.revision) : b < i
    /\ e.type = "EXPERIMENT_COMPLETED" => /\ e.body.run = i
                                          /\ e.body.hypothesis \in HypothesisPlaces(d)
                                          /\ e.body.hypothesis < i
                                          /\ d.events[e.body.hypothesis].revision = e.revision
    /\ e.type = "REVISION_CREATED" =>
          \E b, h, x \in DOMAIN d.events : x < i /\ CausedAt(d, e.body.row, b, h, x)

RowOk(v) == v.id \in Nat /\ v.ordinal \in Nat /\ v.asset \in [Attributes -> Values]

LedgerOk(d) ==
    /\ Sound(d)
    /\ \A v \in d.revisions : RowOk(v)
    /\ \A u \in d.runs : u.id \in DOMAIN d.events /\ u.revision = d.events[u.id].revision
    /\ \A i \in DOMAIN d.events : EventOk(d, i)

Tools == {"down", "idle", "task", "probe", "revise", "recheck", "hidden"}

\* What a service holds across an await still fits the ledger.
DoingOk(d, a) ==
    /\ a.tool \in Tools
    /\ a.tool \in {"task", "probe", "recheck", "hidden"} => a.revision \in Nat
    /\ a.tool = "probe" => /\ a.hypothesis \in HypothesisPlaces(d)
                           /\ d.events[a.hypothesis].revision = a.revision
    /\ a.tool = "revise" => RowOk(a.row) /\ Caused(d, a.row)

Suite == [revision : Nat, passed : BOOLEAN]
HiddenIn(a) == {s \in DOMAIN a : a[s].tool = "hidden"}

\* The hidden suite ran, or runs, once at most, and not before the case is sealed.
SuiteOk(d, a, ran) ==
    \/ ran = <<>> /\ HiddenIn(a) = {}
    \/ d.case.result # None /\ ran = <<>> /\ \E s \in DOMAIN a : HiddenIn(a) = {s}
    \/ d.case.result # None /\ HiddenIn(a) = {} /\ \E i \in DOMAIN ran : ran = <<ran[i]>> /\ ran[i] \in Suite

\* A ticket that the hidden suite earned and that is accepted.
Earned(d, ran, t) ==
    /\ d.case.result = "PASSED" /\ d.case.head = t.revision
    /\ \E v \in d.revisions : v.id = t.revision /\ t = [revision |-> v.id, asset |-> v.asset]
    /\ \E i \in DOMAIN ran : ran[i] = [revision |-> t.revision, passed |-> TRUE]

\* The ticket of the stored verdict is earned.
VerdictOk(d, ran) ==
    \A i \in Endings(d) : d.events[i].body.result # None =>
        LET t == d.events[i].body.result.ticket IN t # None => Earned(d, ran, t)

\* With a service that is alone.
Passes(d) == \A q \in Reservations(d) : PassedBefore(d, d.events[q].revision, q)
AloneOk(d, a) ==
    \A s \in Services : Services = {s} =>
        /\ Passes(d)
        /\ a[s].tool = "recheck" => LatestPassed(d, a[s].revision)

IInv ==
    /\ LedgerOk(db)
    /\ DOMAIN at = Services
    /\ \A s \in Services : DoingOk(db, at[s])
    /\ SuiteOk(db, at, suites)
    /\ VerdictOk(db, suites)
    /\ \A t \in tickets : Earned(db, suites, t)
    /\ AloneOk(db, at)

-----------------------------------------------------------------------------
(* A ledger that grows *)

\* d is c with one more event, maybe more rows, and nothing that c had is lost.
Grows(d, c, event) ==
    /\ Extends(d, c, event)
    /\ c.revisions \subseteq d.revisions /\ c.runs \subseteq d.runs

LEMMA GrowsFacts ==
    ASSUME NEW d, NEW c, NEW event, Grows(d, c, event)
    PROVE  /\ \A types : Places(c, types) \subseteq Places(d, types)
           /\ \A types : Places(c, types) \subseteq DOMAIN c.events
           /\ \A types : Places(d, types) \subseteq Places(c, types) \cup {Len(c.events) + 1}
           /\ \A i \in DOMAIN c.events : i \in DOMAIN d.events /\ d.events[i] = c.events[i]
           /\ \A i \in DOMAIN c.events : i \in Nat /\ i < Len(c.events) + 1
           /\ DOMAIN d.events = DOMAIN c.events \cup {Len(c.events) + 1}
           /\ d.events[Len(c.events) + 1] = event
           /\ Len(c.events) + 1 \in Nat
  <1> DEFINE n == Len(c.events) + 1
  <1>1. /\ n \in Nat \ {0} /\ DOMAIN c.events = 1 .. n - 1 /\ DOMAIN d.events = 1 .. n
        /\ \A i \in 1 .. n - 1 : d.events[i] = c.events[i]
        /\ d.events[n] = event
        /\ \A types : Places(c, types) \subseteq 1 .. n - 1
        /\ \A types : Places(d, types) = Places(c, types) \cup
                          (IF event.type \in types THEN {n} ELSE {})
    BY ExtendsFacts DEF Grows
  <1> HIDE DEF n
  <1>2. 1 .. n = (1 .. n - 1) \cup {n} /\ \A i \in 1 .. n - 1 : i \in Nat /\ i < n
    BY <1>1
  <1>3. QED BY <1>1, <1>2 DEF n

LEMMA TasksGrow ==
    ASSUME NEW d, NEW c, NEW event, Grows(d, c, event), NEW r
    PROVE  /\ TasksOf(c, r) \subseteq TasksOf(d, r)
           /\ TasksOf(d, r) \subseteq TasksOf(c, r) \cup {Len(c.events) + 1}
           /\ event.type # "TASK_COMPLETED" => TasksOf(d, r) = TasksOf(c, r)
           /\ \A i \in TasksOf(c, r) : i \in DOMAIN c.events /\ d.events[i] = c.events[i]
  <1>1. \A types : Places(c, types) \subseteq Places(d, types)
    BY GrowsFacts
  <1>2. \A types : Places(c, types) \subseteq DOMAIN c.events
    BY GrowsFacts
  <1>3. \A types : Places(d, types) \subseteq Places(c, types) \cup {Len(c.events) + 1}
    BY GrowsFacts
  <1>4. \A i \in DOMAIN c.events : i \in DOMAIN d.events /\ d.events[i] = c.events[i]
    BY GrowsFacts
  <1>5. event.type # "TASK_COMPLETED" => Places(d, {"TASK_COMPLETED"}) = Places(c, {"TASK_COMPLETED"})
    <2>1. event.type # "TASK_COMPLETED" => event.type \notin {"TASK_COMPLETED"}
      OBVIOUS
    <2>2. QED BY <2>1, SamePlaces DEF Grows
  <1>6. QED BY <1>1, <1>2, <1>3, <1>4, <1>5 DEF TasksOf

LEMMA CausedStays ==
    ASSUME NEW d, NEW c, NEW event, Grows(d, c, event), NEW row, NEW b, NEW h, NEW e,
           CausedAt(c, row, b, h, e)
    PROVE  /\ CausedAt(d, row, b, h, e)
           /\ b \in DOMAIN d.events /\ h \in DOMAIN d.events /\ e \in DOMAIN d.events
           /\ e \in DOMAIN c.events
  <1>1. \A types : Places(c, types) \subseteq Places(d, types)
    BY GrowsFacts
  <1>2. \A types : Places(c, types) \subseteq DOMAIN c.events
    BY GrowsFacts
  <1>3. \A i \in DOMAIN c.events : i \in DOMAIN d.events /\ d.events[i] = c.events[i]
    BY GrowsFacts
  <1>4. b \in TasksOf(d, row.parent) /\ b \in DOMAIN c.events
    BY TasksGrow DEF CausedAt
  <1>5. h \in DOMAIN c.events /\ e \in DOMAIN c.events
    BY <1>2 DEF CausedAt, HypothesisPlaces, ExperimentPlaces
  <1>6. h \in HypothesisPlaces(d) /\ e \in ExperimentPlaces(d)
    BY <1>1 DEF CausedAt, HypothesisPlaces, ExperimentPlaces
  <1>7. QED BY <1>3, <1>4, <1>5, <1>6 DEF CausedAt, Grows

LEMMA EventStays ==
    ASSUME NEW d, NEW c, NEW event, Grows(d, c, event), NEW i \in DOMAIN c.events, EventOk(c, i)
    PROVE  EventOk(d, i)
  <1>1. d.events[i] = c.events[i] /\ i \in DOMAIN d.events
    BY GrowsFacts
  <1>2. d.events[i].type = "QUALIFICATION_RESERVED" => d.events[i].body.attempt = i
    BY <1>1 DEF EventOk
  <1>3. d.events[i].type = "HYPOTHESIS_RECORDED" =>
            /\ d.events[i].body.suspects \subseteq Attributes
            /\ \E b \in TasksOf(d, d.events[i].revision) : b < i
    BY <1>1, TasksGrow DEF EventOk
  <1>4. d.events[i].type = "EXPERIMENT_COMPLETED" =>
            /\ d.events[i].body.run = i
            /\ d.events[i].body.hypothesis \in HypothesisPlaces(d)
            /\ d.events[i].body.hypothesis < i
            /\ d.events[d.events[i].body.hypothesis].revision = d.events[i].revision
    <2>1. HypothesisPlaces(c) \subseteq HypothesisPlaces(d) /\ HypothesisPlaces(c) \subseteq DOMAIN c.events
      BY GrowsFacts DEF HypothesisPlaces
    <2>2. \A j \in DOMAIN c.events : d.events[j] = c.events[j]
      BY GrowsFacts
    <2>3. QED BY <1>1, <2>1, <2>2 DEF EventOk
  <1>5. d.events[i].type = "REVISION_CREATED" =>
            \E b, h, x \in DOMAIN d.events : x < i /\ CausedAt(d, d.events[i].body.row, b, h, x)
    <2>1. SUFFICES ASSUME c.events[i].type = "REVISION_CREATED"
                   PROVE  \E b, h, x \in DOMAIN d.events : x < i /\ CausedAt(d, c.events[i].body.row, b, h, x)
      BY <1>1
    <2>2. PICK b, h, x \in DOMAIN c.events : x < i /\ CausedAt(c, c.events[i].body.row, b, h, x)
      BY <2>1 DEF EventOk
    <2>3. /\ CausedAt(d, c.events[i].body.row, b, h, x)
          /\ b \in DOMAIN d.events /\ h \in DOMAIN d.events /\ x \in DOMAIN d.events
      BY <2>2, CausedStays
    <2>4. QED BY <2>2, <2>3
  <1>6. QED BY <1>2, <1>3, <1>4, <1>5 DEF EventOk

LEMMA DoingStays ==
    ASSUME NEW d, NEW c, NEW event, Grows(d, c, event), NEW a, DoingOk(c, a)
    PROVE  DoingOk(d, a)
  <1>1. HypothesisPlaces(c) \subseteq HypothesisPlaces(d) /\ HypothesisPlaces(c) \subseteq DOMAIN c.events
    BY GrowsFacts DEF HypothesisPlaces
  <1>2. \A j \in DOMAIN c.events : d.events[j] = c.events[j]
    BY GrowsFacts
  <1>3. \A row : Caused(c, row) => Caused(d, row)
    <2>1. ASSUME NEW row, NEW b, NEW h, NEW e, CausedAt(c, row, b, h, e) PROVE Caused(d, row)
      BY <2>1, CausedStays DEF Caused
    <2>2. QED BY <2>1 DEF Caused
  <1>4. QED BY <1>1, <1>2, <1>3 DEF DoingOk

\* The ledger stays in order when what is added is.
LEMMA LedgerGrows ==
    ASSUME NEW d, NEW c, NEW event, Grows(d, c, event), LedgerOk(c), Sound(d),
           \A v \in d.revisions : v \in c.revisions \/ RowOk(v),
           \A u \in d.runs : u \in c.runs \/ (u.id = Len(c.events) + 1 /\ u.revision = event.revision),
           EventOk(d, Len(c.events) + 1)
    PROVE  LedgerOk(d)
  <1> DEFINE n == Len(c.events) + 1
  <1>1. \A i \in DOMAIN c.events : i \in DOMAIN d.events /\ d.events[i] = c.events[i]
    BY GrowsFacts
  <1>2. DOMAIN d.events = DOMAIN c.events \cup {n} /\ d.events[n] = event
    BY GrowsFacts
  <1> HIDE DEF n
  <1>3. \A v \in d.revisions : RowOk(v)
    BY DEF LedgerOk
  <1>4. \A u \in d.runs : u.id \in DOMAIN d.events /\ u.revision = d.events[u.id].revision
    BY <1>1, <1>2 DEF LedgerOk, n
  <1>5. \A i \in DOMAIN c.events : EventOk(d, i)
    BY EventStays DEF LedgerOk
  <1>6. \A i \in DOMAIN d.events : EventOk(d, i)
    BY <1>2, <1>5 DEF n
  <1>7. QED BY <1>3, <1>4, <1>6 DEF LedgerOk

-----------------------------------------------------------------------------
(* What the services' transactions write *)

LEMMA RowFields ==
    ASSUME NEW id, NEW revision, NEW type, NEW body
    PROVE  /\ EventRow(id, revision, type, body).id = id
           /\ EventRow(id, revision, type, body).revision = revision
           /\ EventRow(id, revision, type, body).type = type
           /\ EventRow(id, revision, type, body).body = body
           /\ type # None => EventRow(id, revision, type, body) # NoEvent
  BY DEF EventRow, NoEvent

\* An event on rows q, which have at least those of c.
LEMMA LogGrows ==
    ASSUME NEW c, Sound(c), NEW q, q.events = c.events, c.revisions \subseteq q.revisions,
           c.runs \subseteq q.runs, NEW event
    PROVE  Grows(Log(q, event), c, event)
  <1>1. IsSeq(c.events)
    BY SoundFacts
  <1>2. /\ Log(q, event).events = Append(c.events, event)
        /\ Log(q, event).revisions = q.revisions /\ Log(q, event).runs = q.runs
    BY LogFields
  <1>3. QED BY <1>1, <1>2 DEF Grows, Extends

\* A step that records something, and is neither a reservation nor a verdict.
Logs(d, c, event) ==
    /\ Grows(d, c, event) /\ LedgerOk(d)
    /\ event.type \notin {"QUALIFICATION_RESERVED", "QUALIFICATION_PASSED", "QUALIFICATION_FAILED"}
    /\ c.case.result # None => d.case = c.case

LEMMA EmptyLedger == LedgerOk(NoDatabase)
  <1>1. /\ NoDatabase.revisions = {} /\ NoDatabase.runs = {} /\ NoDatabase.events = <<>>
    BY DEF NoDatabase, Database
  <1>2. DOMAIN NoDatabase.events = {}
    BY <1>1
  <1>3. QED BY <1>1, <1>2, EmptySound DEF LedgerOk

LEMMA FirstWritten ==
    Logs(FirstDatabase(Source, None), NoDatabase, CreationEvent(Source, None))
  <1> DEFINE d == FirstDatabase(Source, None)
             c == NoDatabase
             event == CreationEvent(Source, None)
  <1>1. c.revisions = {} /\ c.runs = {} /\ c.events = <<>> /\ c.case.result = None
    BY DEF NoDatabase, Database, NoCase
  <1>2. d.revisions = {RootRow(Source)} /\ d.runs = {} /\ d.events = Append(<<>>, event)
    BY DEF FirstDatabase, Database
  <1>3. event.type = "CASE_CREATED"
    BY DEF CreationEvent, EventRow
  <1>4. RowOk(RootRow(Source))
    BY SourceAssumption, OrdinalAssumption DEF RootRow, RowOk
  <1>5. Sound(d) /\ LedgerOk(c) /\ Sound(c)
    BY FirstSound, EmptyLedger, EmptySound
  <1> HIDE DEF d, c, event
  <1>6. Grows(d, c, event)
    BY <1>1, <1>2, <1>5, SoundFacts DEF Grows, Extends
  <1>7. EventOk(d, Len(c.events) + 1)
    <2>1. d.events[Len(c.events) + 1] = event
      BY <1>6, GrowsFacts
    <2>2. QED BY <1>3, <2>1 DEF EventOk
  <1>8. LedgerOk(d)
    BY <1>2, <1>4, <1>5, <1>6, <1>7, LedgerGrows
  <1>9. QED BY <1>1, <1>3, <1>6, <1>8 DEF Logs, d, c, event

\* A run and its event.
LEMMA RunWritten ==
    ASSUME NEW c, LedgerOk(c), NEW run, NEW event,
           run.id = Len(c.events) + 1, run.revision = event.revision, event # NoEvent,
           RecordRun(c, run, event).answer = "done",
           Grows(RecordRun(c, run, event).db, c, event) =>
               EventOk(RecordRun(c, run, event).db, Len(c.events) + 1)
    PROVE  /\ Logs(RecordRun(c, run, event).db, c, event)
           /\ RevisionIn(c, run.revision)
  <1> DEFINE q == WithRun(c, run)
             d == Log(q, event)
  <1>1. Sound(c)
    BY DEF LedgerOk
  <1>2. /\ RecordRun(c, run, event).db = d /\ Sound(d) /\ RevisionIn(c, run.revision)
        /\ event.type \notin Owned
    BY <1>1, RecordRunFacts
  <1>3. q.case = c.case /\ q.revisions = c.revisions /\ q.runs = c.runs \cup {run} /\ q.events = c.events
    BY DEF WithRun, Database
  <1>4. d.case = q.case /\ d.revisions = q.revisions /\ d.runs = q.runs
    BY LogFields
  <1>5. Grows(d, c, event)
    BY <1>1, <1>3, LogGrows
  <1> HIDE DEF d, q
  <1>6. EventOk(d, Len(c.events) + 1)
    BY <1>2, <1>5
  <1>7. \A u \in d.runs : u \in c.runs \/ (u.id = Len(c.events) + 1 /\ u.revision = event.revision)
    BY <1>3, <1>4
  <1>8. LedgerOk(d)
    BY <1>2, <1>3, <1>4, <1>5, <1>6, <1>7, LedgerGrows
  <1>9. QED BY <1>2, <1>3, <1>4, <1>5, <1>8 DEF Logs, Owned

\* run_task
LEMMA TaskWritten ==
    ASSUME NEW c, LedgerOk(c), NEW r, NEW passed, NEW run, NEW event,
           run = [id |-> Len(c.events) + 1, revision |-> r, kind |-> "task", passed |-> passed],
           event = EventRow(Len(c.events) + 1, r, "TASK_COMPLETED",
                            [run |-> Len(c.events) + 1, passed |-> passed]),
           RecordRun(c, run, event).answer = "done"
    PROVE  Logs(RecordRun(c, run, event).db, c, event)
  <1>1. /\ event.revision = r /\ event.type = "TASK_COMPLETED" /\ event # NoEvent
    BY RowFields, TypesAssumption
  <1>2. run.id = Len(c.events) + 1 /\ run.revision = r
    OBVIOUS
  <1> DEFINE d == RecordRun(c, run, event).db
  <1>3. ASSUME Grows(d, c, event) PROVE EventOk(d, Len(c.events) + 1)
    <2> HIDE DEF d
    <2>1. d.events[Len(c.events) + 1] = event
      BY <1>3, GrowsFacts
    <2>2. QED BY <1>1, <2>1 DEF EventOk
  <1>4. QED BY <1>1, <1>2, <1>3, RunWritten

\* run_experiment, its end
LEMMA ExperimentWritten ==
    ASSUME NEW c, LedgerOk(c), NEW r, NEW h \in HypothesisPlaces(c), c.events[h].revision = r,
           NEW passed, NEW type \in {"EXPERIMENT_COMPLETED", "EXPERIMENT_FAILED"},
           NEW run, NEW event,
           run = [id |-> Len(c.events) + 1, revision |-> r, kind |-> "probe", passed |-> passed],
           event = EventRow(Len(c.events) + 1, r, type, [run |-> Len(c.events) + 1, hypothesis |-> h]),
           RecordRun(c, run, event).answer = "done"
    PROVE  Logs(RecordRun(c, run, event).db, c, event)
  <1> DEFINE n == Len(c.events) + 1
  <1>1. /\ event.revision = r /\ event.type = type /\ event # NoEvent
        /\ event.body = [run |-> n, hypothesis |-> h]
    BY RowFields, TypesAssumption
  <1>2. run.id = n /\ run.revision = r
    OBVIOUS
  <1>3. event.body.run = n /\ event.body.hypothesis = h
    BY <1>1
  <1> DEFINE d == RecordRun(c, run, event).db
  <1>4. ASSUME Grows(d, c, event) PROVE EventOk(d, n)
    <2> HIDE DEF d
    <2>1. d.events[n] = event
      BY <1>4, GrowsFacts
    <2>2. h \in DOMAIN c.events /\ h \in HypothesisPlaces(d)
      BY <1>4, GrowsFacts DEF HypothesisPlaces
    <2>3. h < n /\ d.events[h] = c.events[h]
      BY <1>4, <2>2, GrowsFacts
    <2>4. QED BY <1>1, <1>3, <2>1, <2>2, <2>3 DEF EventOk
  <1>5. QED BY <1>1, <1>2, <1>4, RunWritten

\* run_experiment, its hypothesis
LEMMA HypothesisWritten ==
    ASSUME NEW c, LedgerOk(c), NEW r, TasksOf(c, r) # {}, NEW suspects \in SUBSET Attributes, NEW event,
           event = EventRow(Len(c.events) + 1, r, "HYPOTHESIS_RECORDED", [suspects |-> suspects]),
           AppendEvent(c, event).answer = "done"
    PROVE  /\ Logs(AppendEvent(c, event).db, c, event)
           /\ Len(c.events) + 1 \in HypothesisPlaces(AppendEvent(c, event).db)
           /\ AppendEvent(c, event).db.events[Len(c.events) + 1].revision = r
  <1> DEFINE n == Len(c.events) + 1
             d == Log(c, event)
  <1>1. /\ event.revision = r /\ event.type = "HYPOTHESIS_RECORDED"
        /\ event.body = [suspects |-> suspects]
    BY RowFields
  <1>2. Sound(c)
    BY DEF LedgerOk
  <1>3. AppendEvent(c, event).db = d /\ Sound(d)
    BY <1>2, AppendEventFacts
  <1>4. d.case = c.case /\ d.revisions = c.revisions /\ d.runs = c.runs
    BY LogFields
  <1>5. Grows(d, c, event)
    BY <1>2, LogGrows
  <1> HIDE DEF d
  <1>6. d.events[n] = event /\ n \in DOMAIN d.events
    BY <1>5, GrowsFacts
  <1>7. EventOk(d, n)
    <2>1. PICK b \in TasksOf(c, r) : TRUE
      OBVIOUS
    <2>2. b \in TasksOf(d, r) /\ b \in DOMAIN c.events
      BY <1>5, TasksGrow
    <2>3. b < n
      BY <1>5, <2>2, GrowsFacts
    <2>4. QED BY <1>1, <1>6, <2>2, <2>3 DEF EventOk
  <1>8. LedgerOk(d)
    BY <1>3, <1>4, <1>5, <1>7, LedgerGrows
  <1>9. n \in HypothesisPlaces(d) /\ d.events[n].revision = r
    BY <1>1, <1>6 DEF HypothesisPlaces, Places
  <1>10. QED BY <1>1, <1>3, <1>4, <1>5, <1>8, <1>9 DEF Logs

\* create_revision
LEMMA RevisionWritten ==
    ASSUME NEW c, LedgerOk(c), NEW row, RowOk(row), Caused(c, row), NEW run, NEW id, NEW expected,
           NEW event, event = RevisionEvent(id, row, run),
           CommitRevision(c, row, event, expected).answer = "done"
    PROVE  Logs(CommitRevision(c, row, event, expected).db, c, event)
  <1> DEFINE n == Len(c.events) + 1
             q == Database(Headed(c, row.id), c.revisions \cup {row}, c.runs, c.events)
             d == Log(q, event)
  <1>1. event.type = "REVISION_CREATED" /\ event.body = [row |-> row, run |-> run]
    BY RowFields DEF RevisionEvent
  <1>2. event.body.row = row
    BY <1>1
  <1>3. Sound(c)
    BY DEF LedgerOk
  <1>4. /\ CommitRevision(c, row, event, expected).db = d /\ Sound(d)
        /\ CanCommit(c, row, event, expected)
    BY <1>3, CommitRevisionFacts DEF WithRevision
  <1>5. q.revisions = c.revisions \cup {row} /\ q.runs = c.runs /\ q.events = c.events
    BY DEF Database
  <1>6. d.revisions = q.revisions /\ d.runs = q.runs
    BY LogFields
  <1>7. Grows(d, c, event)
    BY <1>3, <1>5, LogGrows
  <1> HIDE DEF d, q
  <1>8. d.events[n] = event
    BY <1>7, GrowsFacts
  <1>9. EventOk(d, n)
    <2>1. PICK b, h, x \in DOMAIN c.events : CausedAt(c, row, b, h, x)
      BY DEF Caused
    <2>2. /\ CausedAt(d, row, b, h, x)
          /\ b \in DOMAIN d.events /\ h \in DOMAIN d.events /\ x \in DOMAIN d.events
      BY <1>7, <2>1, CausedStays
    <2>3. x < n
      BY <1>7, GrowsFacts
    <2>4. QED BY <1>1, <1>2, <1>8, <2>2, <2>3 DEF EventOk
  <1>10. LedgerOk(d)
    BY <1>4, <1>5, <1>6, <1>7, <1>9, LedgerGrows
  <1>11. c.case.result = None
    BY <1>4 DEF CanCommit
  <1>12. QED BY <1>1, <1>4, <1>7, <1>10, <1>11 DEF Logs

-----------------------------------------------------------------------------
(* Qualification *)

\* What is reserved is the head.
LEMMA SealedHead ==
    ASSUME NEW c, Sound(c), ValidCase(c), NEW r, NEW a, SameAttempt(c, r, a)
    PROVE  c.case.head = r
  <1> DEFINE n == Len(c.events) + 1
  <1>1. /\ QualificationOk(c) /\ c.case.head = HeadBefore(c, n) /\ IsSeq(c.events)
    BY ValidParts, SoundFacts
  <1>2. PICK i \in Reservations(c) : c.events[i].revision = r
    BY DEF SameAttempt, Reservations
  <1>3. /\ \A j \in RevisionPlaces(c) : j < i
        /\ c.events[i].revision = HeadBefore(c, i)
    BY <1>1 DEF QualificationOk, ReservationOk
  <1>4. \A j \in RevisionPlaces(c) : j < n
    BY <1>1, PlacesFacts, SeqFacts DEF RevisionPlaces
  <1>5. Before(c, i) = Before(c, n)
    BY <1>3, <1>4 DEF Before
  <1>6. HeadBefore(c, i) = HeadBefore(c, n)
    <2>1. CASE Before(c, n) = {}
      BY <1>1, <1>5, <2>1, HeadFacts
    <2>2. CASE Before(c, n) # {}
      <3>1. PICK m \in Before(c, n) : \A k \in Before(c, n) : k <= m
        BY <1>1, <2>2, HeadFacts
      <3>2. HeadBefore(c, n) = c.events[m].revision
        BY <1>1, <3>1, HeadFacts
      <3>3. HeadBefore(c, i) = c.events[m].revision
        BY <1>1, <1>5, <3>1, HeadFacts
      <3>4. QED BY <3>2, <3>3
    <2>3. QED BY <2>1, <2>2
  <1>7. QED BY <1>1, <1>2, <1>3, <1>6

\* An attempt that takes the next place is a new one.
LEMMA NewAttempt ==
    ASSUME NEW c, LedgerOk(c), NEW r
    PROVE  ~SameAttempt(c, r, Len(c.events) + 1)
  <1>1. IsSeq(c.events)
    BY SoundFacts DEF LedgerOk
  <1>2. ASSUME NEW i \in Places(c, {"QUALIFICATION_RESERVED"}),
               c.events[i].body.attempt = Len(c.events) + 1
        PROVE  FALSE
    <2>1. i \in DOMAIN c.events /\ c.events[i].type = "QUALIFICATION_RESERVED"
      BY DEF Places
    <2>2. c.events[i].body.attempt = i
      BY <2>1 DEF LedgerOk, EventOk
    <2>3. i < Len(c.events) + 1 /\ i \in Nat
      BY <1>1, <2>1, SeqFacts
    <2>4. QED BY <1>2, <2>2, <2>3
  <1>3. QED BY <1>2 DEF SameAttempt

\* d is c with the reservation of revision r.
Sealed(d, c, r) ==
    /\ LedgerOk(d)
    /\ \E event : Grows(d, c, event) /\ event.type = "QUALIFICATION_RESERVED"
    /\ Reservations(d) = {Len(c.events) + 1} /\ Endings(d) = {}
    /\ d.events[Len(c.events) + 1].revision = r
    /\ d.case.result = "RUNNING"

LEMMA ReservedWritten ==
    ASSUME NEW c, LedgerOk(c), ValidCase(c), NEW r, Sound(Reserved(c, r, Len(c.events) + 1)),
           c.case.result = None
    PROVE  Sealed(Reserved(c, r, Len(c.events) + 1), c, r)
  <1> DEFINE n == Len(c.events) + 1
             d == Reserved(c, r, n)
             q == Qualified(c, r, n, "RUNNING")
             event == QualificationEvent(c, r, n, "QUALIFICATION_RESERVED", None)
  <1>1. q.revisions = c.revisions /\ q.runs = c.runs /\ q.events = c.events /\ q.case.result = "RUNNING"
    BY QualifiedFields
  <1>2. event.type = "QUALIFICATION_RESERVED" /\ event.revision = r /\ event.body.attempt = n
    BY DEF QualificationEvent, EventRow
  <1>3. d = Log(q, event) /\ Sound(d)
    BY DEF Reserved
  <1> HIDE DEF q, event, d
  <1>4. d.case = q.case /\ d.revisions = q.revisions /\ d.runs = q.runs
    BY <1>3, LogFields
  <1>5. Grows(d, c, event)
    BY <1>1, <1>3, LogGrows DEF LedgerOk
  <1>6. d.events[n] = event
    BY <1>5, GrowsFacts
  <1>7. EventOk(d, n)
    BY <1>2, <1>6 DEF EventOk
  <1>8. LedgerOk(d)
    BY <1>1, <1>3, <1>4, <1>5, <1>7, LedgerGrows
  <1>9. Reservations(c) = {} /\ Endings(c) = {}
    BY ValidParts, UndecidedFacts
  <1>10. Reservations(d) = Reservations(c) \cup {n} /\ Endings(d) = Endings(c)
    <2>1. Reservations(d) = Reservations(c) \cup {n}
      BY <1>2, <1>5, MorePlaces DEF Grows, Reservations
    <2>2. Endings(d) = Endings(c)
      BY <1>2, <1>5, SamePlaces DEF Grows, Endings
    <2>3. QED BY <2>1, <2>2
  <1>11. Sealed(d, c, r)
    BY <1>1, <1>2, <1>4, <1>5, <1>6, <1>8, <1>9, <1>10 DEF Sealed
  <1>12. QED BY <1>11 DEF d

\* d is c with the verdict on revision r.
Decided(d, c, r, state, result) ==
    /\ LedgerOk(d)
    /\ \E event : Grows(d, c, event)
    /\ Reservations(d) = Reservations(c) /\ Endings(d) = {Len(c.events) + 1}
    /\ d.events[Len(c.events) + 1].body.result = result
    /\ d.case.result = state /\ d.case.head = r /\ d.revisions = c.revisions
    /\ RevisionIn(c, r)

LEMMA ConcludedWritten ==
    ASSUME NEW c, LedgerOk(c), NEW r, NEW a, NEW state \in Terminal, NEW result,
           RecordTerminal(c, r, a, state, result).answer = "done"
    PROVE  Decided(RecordTerminal(c, r, a, state, result).db, c, r, state, result)
  <1> DEFINE n == Len(c.events) + 1
             d == Concluded(c, r, a, state, result)
             q == Ended(c, state)
             event == QualificationEvent(c, r, a, TerminalType[state], result)
  <1>1. Sound(c)
    BY DEF LedgerOk
  <1>2. /\ RecordTerminal(c, r, a, state, result).db = d /\ Sound(d)
        /\ ValidCase(c) /\ c.case.result = "RUNNING" /\ SameAttempt(c, r, a)
    BY <1>1, RecordTerminalFacts
  <1>3. /\ q.revisions = c.revisions /\ q.runs = c.runs /\ q.events = c.events
        /\ q.case.result = state /\ q.case.head = c.case.head
    BY QualifiedFields DEF Ended
  <1>4. event.type = TerminalType[state] /\ event.body.result = result
    BY DEF QualificationEvent, EventRow
  <1>5. event.type \in {"QUALIFICATION_PASSED", "QUALIFICATION_FAILED"}
    BY <1>4, TerminalTypes
  <1>6. d = Log(q, event)
    BY DEF Concluded
  <1> HIDE DEF d, q, event
  <1>7. d.case = q.case /\ d.revisions = q.revisions /\ d.runs = q.runs
    BY <1>6, LogFields
  <1>8. Grows(d, c, event)
    BY <1>1, <1>3, <1>6, LogGrows
  <1>9. d.events[n] = event
    BY <1>8, GrowsFacts
  <1>10. EventOk(d, n)
    BY <1>5, <1>9 DEF EventOk
  <1>11. LedgerOk(d)
    BY <1>2, <1>3, <1>7, <1>8, <1>10, LedgerGrows
  <1>12. Endings(c) = {}
    BY <1>2, ValidParts, UndecidedFacts
  <1>13. Endings(d) = {n} /\ Reservations(d) = Reservations(c)
    <2>1. Endings(d) = Endings(c) \cup {n}
      BY <1>5, <1>8, MorePlaces DEF Grows, Endings
    <2>2. Reservations(d) = Reservations(c)
      BY <1>5, <1>8, SamePlaces DEF Grows, Reservations
    <2>3. QED BY <1>12, <2>1, <2>2
  <1>14. c.case.head = r /\ RevisionIn(c, c.case.head)
    BY <1>1, <1>2, SealedHead, HeadThere
  <1>15. QED BY <1>2, <1>3, <1>4, <1>7, <1>8, <1>9, <1>11, <1>13, <1>14 DEF Decided

-----------------------------------------------------------------------------
(* The parts of the invariant under a step *)

LEMMA MoveFacts ==
    ASSUME NEW a, DOMAIN a = Services, NEW s \in Services, NEW place, NEW a2,
           a2 = [a EXCEPT ![s] = place]
    PROVE  /\ DOMAIN a2 = Services /\ a2[s] = place
           /\ \A t \in Services : t # s => a2[t] = a[t]
  OBVIOUS

LEMMA EarnedStays ==
    ASSUME NEW c, NEW d, NEW ran, NEW t, Earned(c, ran, t),
           c.revisions \subseteq d.revisions, c.case.result # None => d.case = c.case
    PROVE  Earned(d, ran, t)
  BY NoneAssumption DEF Earned

LEMMA PassesStays ==
    ASSUME NEW c, NEW d, NEW event, Grows(d, c, event), Passes(c), Reservations(d) = Reservations(c)
    PROVE  Passes(d)
  <1>1. ASSUME NEW q \in Reservations(c), NEW r, PassedBefore(c, r, q) PROVE PassedBefore(d, r, q)
    <2>1. q \in DOMAIN c.events /\ q \in Nat /\ q < Len(c.events) + 1 /\ Len(c.events) + 1 \in Nat
      BY GrowsFacts DEF Reservations
    <2>2. TasksOf(d, r) \subseteq TasksOf(c, r) \cup {Len(c.events) + 1}
      BY TasksGrow
    <2>3. \A j \in TasksOf(c, r) : j \in TasksOf(d, r) /\ d.events[j] = c.events[j]
      BY TasksGrow
    <2>4. QED BY <1>1, <2>1, <2>2, <2>3 DEF PassedBefore
  <1>2. \A q \in Reservations(c) : d.events[q] = c.events[q]
    BY GrowsFacts DEF Reservations
  <1>3. QED BY <1>1, <1>2 DEF Passes

\* A step that leaves the ledger alone and is not about the hidden suite.
LEMMA Quiet ==
    ASSUME IInv, NEW s \in Services, NEW place, Goes(s, place), db' = db, suites' = suites,
           at[s].tool # "hidden", place.tool # "hidden", DoingOk(db, place),
           place.tool = "recheck" => LatestPassed(db, place.revision),
           \A t \in tickets' : Earned(db, suites, t)
    PROVE  IInv'
  <1>1. at' = [at EXCEPT ![s] = place] /\ DOMAIN at = Services
    BY DEF Goes, IInv
  <1>m. DOMAIN at' = Services /\ at'[s] = place /\ \A t \in Services : t # s => at'[t] = at[t]
    BY <1>1, MoveFacts
  <1>2. DOMAIN at' = Services /\ \A t \in Services : DoingOk(db', at'[t])
    <2>1. \A t \in Services : DoingOk(db, at[t])
      BY DEF IInv
    <2>2. \A t \in Services : DoingOk(db', at[t])
      BY <2>1
    <2>3. DoingOk(db', at'[s])
      BY <1>m
    <2>4. QED BY <1>m, <2>2, <2>3
  <1>3. HiddenIn(at') = HiddenIn(at)
    <2>1. s \notin HiddenIn(at)
      BY DEF HiddenIn
    <2>2. QED BY <1>1, <1>m, <2>1 DEF HiddenIn
  <1>4. SuiteOk(db', at', suites')
    BY <1>1, <1>2, <1>3 DEF IInv, SuiteOk
  <1>5. AloneOk(db', at')
    BY <1>1, MoveFacts DEF IInv, AloneOk
  <1>6. QED BY <1>2, <1>4, <1>5 DEF IInv

\* A step that records something, and is neither a reservation nor a verdict.
LEMMA Logged ==
    ASSUME IInv, NEW s \in Services, NEW place, NEW event, Goes(s, place), Logs(db', db, event),
           suites' = suites, tickets' = tickets,
           at[s].tool # "hidden", place.tool \notin {"hidden", "recheck"}, DoingOk(db', place)
    PROVE  IInv'
  <1>1. at' = [at EXCEPT ![s] = place] /\ DOMAIN at = Services
    BY DEF Goes, IInv
  <1>m. DOMAIN at' = Services /\ at'[s] = place /\ \A t \in Services : t # s => at'[t] = at[t]
    BY <1>1, MoveFacts
  <1>2. Grows(db', db, event) /\ LedgerOk(db') /\ db.revisions \subseteq db'.revisions
        /\ (db.case.result # None => db'.case = db.case)
    BY DEF Logs, Grows
  <1>3. DOMAIN at' = Services /\ \A t \in Services : DoingOk(db', at'[t])
    <2>1. \A t \in Services : DoingOk(db, at[t])
      BY DEF IInv
    <2>2. \A t \in Services : DoingOk(db', at[t])
      BY <2>1, <1>2, DoingStays
    <2>3. DoingOk(db', at'[s])
      BY <1>m
    <2>4. QED BY <1>m, <2>2, <2>3
  <1>4. HiddenIn(at') = HiddenIn(at)
    <2>1. s \notin HiddenIn(at)
      BY DEF HiddenIn
    <2>2. QED BY <1>1, <1>m, <2>1 DEF HiddenIn
  <1>5. SuiteOk(db', at', suites')
    BY <1>1, <1>2, <1>3, <1>4 DEF IInv, SuiteOk
  <1>6. Reservations(db') = Reservations(db) /\ Endings(db') = Endings(db)
    <2>1. event.type \notin {"QUALIFICATION_RESERVED"}
          /\ event.type \notin {"QUALIFICATION_PASSED", "QUALIFICATION_FAILED"}
      BY DEF Logs
    <2>2. QED BY <1>2, <2>1, SamePlaces DEF Grows, Reservations, Endings
  <1>7. \A t : Earned(db, suites, t) => Earned(db', suites', t)
    BY <1>2, EarnedStays
  <1>8. VerdictOk(db', suites')
    <2>1. \A i \in Endings(db) : db'.events[i] = db.events[i]
      BY <1>2, GrowsFacts DEF Endings
    <2>2. QED BY <1>6, <1>7, <2>1 DEF IInv, VerdictOk
  <1>9. AloneOk(db', at')
    <2>1. Passes(db) => Passes(db')
      BY <1>2, <1>6, PassesStays
    <2>2. QED BY <1>1, <2>1, MoveFacts DEF IInv, AloneOk
  <1>10. QED BY <1>2, <1>3, <1>5, <1>7, <1>8, <1>9 DEF IInv

\* The qualification is reserved; its suite starts, or not.
LEMMA ReserveStep ==
    ASSUME IInv, NEW s \in Services, NEW place, Goes(s, place), at[s].tool = "recheck",
           db' = Reserved(db, at[s].revision, Len(db.events) + 1),
           Sound(Reserved(db, at[s].revision, Len(db.events) + 1)), ValidCase(db),
           db.case.result = None, suites' = suites, tickets' = tickets,
           place.tool \in {"hidden", "idle"}, place.tool = "hidden" => place.revision = at[s].revision
    PROVE  IInv'
  <1> DEFINE r == at[s].revision
             n == Len(db.events) + 1
  <1>1. at' = [at EXCEPT ![s] = place] /\ DOMAIN at = Services /\ LedgerOk(db)
    BY DEF Goes, IInv
  <1>m. DOMAIN at' = Services /\ at'[s] = place /\ \A t \in Services : t # s => at'[t] = at[t]
    BY <1>1, MoveFacts
  <1>a. Sealed(db', db, r)
    BY <1>1, ReservedWritten
  <1>2. /\ LedgerOk(db') /\ Reservations(db') = {n} /\ Endings(db') = {}
        /\ db'.events[n].revision = r /\ db'.case.result = "RUNNING"
    BY <1>a DEF Sealed
  <1>3. PICK event : Grows(db', db, event) /\ event.type = "QUALIFICATION_RESERVED"
    BY <1>a DEF Sealed
  <1>4. DoingOk(db', place)
    BY DEF IInv, DoingOk, Tools
  <1>5. DOMAIN at' = Services /\ \A t \in Services : DoingOk(db', at'[t])
    <2>1. \A t \in Services : DoingOk(db, at[t])
      BY DEF IInv
    <2>2. \A t \in Services : DoingOk(db', at[t])
      BY <2>1, <1>3, DoingStays
    <2>3. DoingOk(db', at'[s])
      BY <1>m, <1>4
    <2>4. QED BY <1>m, <2>2, <2>3
  <1>6. suites = <<>> /\ HiddenIn(at) = {}
    BY DEF IInv, SuiteOk
  <1>7. db'.case.result # None
    BY <1>2, NoneAssumption
  <1>8. SuiteOk(db', at', suites')
    <2>1. HiddenIn(at') = {s} \/ HiddenIn(at') = {}
      BY <1>1, <1>m, <1>6 DEF HiddenIn
    <2>2. QED BY <1>5, <1>6, <1>7, <2>1 DEF SuiteOk
  <1>9. VerdictOk(db', suites')
    BY <1>2 DEF VerdictOk
  <1>10. tickets = {}
    BY NoneAssumption DEF IInv, Earned
  <1>11. AloneOk(db', at')
    <2>1. SUFFICES ASSUME Services = {s} PROVE Passes(db')
      BY <1>1, MoveFacts DEF AloneOk
    <2>2. PICK i \in TasksOf(db, r) : (\A j \in TasksOf(db, r) : j <= i) /\ db.events[i].body.passed
      BY <2>1 DEF IInv, AloneOk, LatestPassed
    <2>3. TasksOf(db', r) = TasksOf(db, r) /\ i \in DOMAIN db.events /\ db'.events[i] = db.events[i]
      BY <1>3, TasksGrow
    <2>4. i < n
      BY <1>3, <2>3, GrowsFacts
    <2>5. PassedBefore(db', r, n)
      BY <2>2, <2>3, <2>4 DEF PassedBefore
    <2>6. QED BY <1>2, <2>5 DEF Passes
  <1>12. QED BY <1>2, <1>5, <1>8, <1>9, <1>10, <1>11 DEF IInv

\* The hidden suite ends without a verdict in the ledger.
LEMMA SpentStep ==
    ASSUME IInv, NEW s \in Services, NEW place, Goes(s, place), at[s].tool = "hidden",
           NEW passed \in BOOLEAN, suites' = Append(suites, [revision |-> at[s].revision, passed |-> passed]),
           db' = db, tickets' = tickets, place.tool \in {"idle", "down"}
    PROVE  IInv'
  <1> DEFINE x == [revision |-> at[s].revision, passed |-> passed]
  <1>1. at' = [at EXCEPT ![s] = place] /\ DOMAIN at = Services
    BY DEF Goes, IInv
  <1>m. DOMAIN at' = Services /\ at'[s] = place /\ \A t \in Services : t # s => at'[t] = at[t]
    BY <1>1, MoveFacts
  <1>2. DoingOk(db, place)
    BY DEF DoingOk, Tools
  <1>3. DOMAIN at' = Services /\ \A t \in Services : DoingOk(db', at'[t])
    <2>1. \A t \in Services : DoingOk(db, at[t])
      BY DEF IInv
    <2>2. \A t \in Services : DoingOk(db', at[t])
      BY <2>1
    <2>3. DoingOk(db', at'[s])
      BY <1>m, <1>2
    <2>4. QED BY <1>m, <2>2, <2>3
  <1>4. s \in HiddenIn(at)
    BY <1>1 DEF HiddenIn
  <1>5. suites = <<>> /\ HiddenIn(at) = {s} /\ db.case.result # None
    BY <1>4 DEF IInv, SuiteOk
  <1>6. HiddenIn(at') = {}
    BY <1>1, <1>m, <1>5 DEF HiddenIn
  <1>7. suites' = <<x>> /\ x \in Suite
    <2>1. at[s].revision \in Nat
      BY DEF IInv, DoingOk
    <2>2. QED BY <1>5, <2>1 DEF Suite
  <1>8. SuiteOk(db', at', suites')
    BY <1>5, <1>6, <1>7 DEF SuiteOk
  <1>9. \A t : ~Earned(db, suites, t)
    BY <1>5 DEF Earned
  <1>10. VerdictOk(db', suites') /\ tickets' = {}
    BY <1>9 DEF IInv, VerdictOk
  <1>11. AloneOk(db', at')
    BY <1>1, MoveFacts DEF IInv, AloneOk
  <1>12. QED BY <1>3, <1>8, <1>10, <1>11 DEF IInv

\* The hidden suite ends and its verdict is stored, with its ticket if it passed.
LEMMA VerdictStep ==
    ASSUME IInv, NEW s \in Services, Returns(s), at[s].tool = "hidden", NEW state \in Terminal,
           NEW result, Decides(s, state, result), NEW passed \in BOOLEAN,
           suites' = Append(suites, [revision |-> at[s].revision, passed |-> passed]),
           NEW given, tickets' = tickets \cup (given \ {None}),
           passed => state = "PASSED",
           result # None => (passed /\ result.ticket = Ticket(at[s].revision)) \/ result.ticket = None,
           \A t \in given : t # None => passed /\ t = Ticket(at[s].revision)
    PROVE  IInv'
  <1> DEFINE x == [revision |-> at[s].revision, passed |-> passed]
             r == at[s].revision
             n == Len(db.events) + 1
  <1>1. at' = [at EXCEPT ![s] = Idle] /\ DOMAIN at = Services /\ LedgerOk(db)
    BY DEF Goes, Returns, IInv
  <1>m. DOMAIN at' = Services /\ at'[s] = Idle /\ \A t \in Services : t # s => at'[t] = at[t]
    BY <1>1, MoveFacts
  <1>2. /\ RecordTerminal(db, r, at[s].attempt, state, result).answer = "done"
        /\ db' = RecordTerminal(db, r, at[s].attempt, state, result).db
    BY DEF Decides, Commits
  <1>a. Decided(db', db, r, state, result)
    BY <1>1, <1>2, ConcludedWritten
  <1>3. /\ LedgerOk(db')
        /\ Reservations(db') = Reservations(db) /\ Endings(db') = {n}
        /\ db'.events[n].body.result = result
        /\ db'.case.result = state /\ db'.case.head = r /\ db'.revisions = db.revisions
        /\ RevisionIn(db, r)
    BY <1>a DEF Decided
  <1>4. PICK event : Grows(db', db, event)
    BY <1>a DEF Decided
  <1>5. DoingOk(db', Idle)
    BY DEF DoingOk, Tools, Idle
  <1>6. DOMAIN at' = Services /\ \A t \in Services : DoingOk(db', at'[t])
    <2>1. \A t \in Services : DoingOk(db, at[t])
      BY DEF IInv
    <2>2. \A t \in Services : DoingOk(db', at[t])
      BY <2>1, <1>4, DoingStays
    <2>3. DoingOk(db', at'[s])
      BY <1>m, <1>5
    <2>4. QED BY <1>m, <2>2, <2>3
  <1>7. s \in HiddenIn(at)
    BY <1>1 DEF HiddenIn
  <1>8. suites = <<>> /\ HiddenIn(at) = {s}
    BY <1>7 DEF IInv, SuiteOk
  <1>9. HiddenIn(at') = {}
    BY <1>1, <1>m, <1>8 DEF HiddenIn, Idle
  <1>10. suites' = <<x>> /\ x \in Suite
    <2>1. at[s].revision \in Nat
      BY DEF IInv, DoingOk
    <2>2. QED BY <1>8, <2>1 DEF Suite
  <1>11. state # None
    BY TerminalTypes
  <1>12. SuiteOk(db', at', suites')
    <2>1. db'.case.result # None /\ 1 \in DOMAIN suites' /\ suites'[1] = x
      BY <1>3, <1>10, <1>11
    <2>2. QED BY <1>9, <1>10, <2>1 DEF SuiteOk
  <1>13. tickets = {}
    BY <1>8 DEF IInv, Earned
  <1>14. ASSUME passed PROVE Earned(db', suites', Ticket(r))
    <2>1. PICK v \in db.revisions : v.id = r
      BY <1>3 DEF RevisionIn
    <2>2. Revision(r) \in db.revisions /\ Revision(r).id = r
      BY <2>1 DEF Revision
    <2>3. Ticket(r) = [revision |-> r, asset |-> Revision(r).asset]
      BY DEF Ticket
    <2>4. Ticket(r).revision = r
      BY <2>3
    <2>5. \E i \in DOMAIN suites' : suites'[i] = [revision |-> r, passed |-> TRUE]
      BY <1>10, <1>14
    <2>6. QED BY <1>3, <1>14, <2>2, <2>3, <2>4, <2>5 DEF Earned
  <1>15. VerdictOk(db', suites')
    BY <1>3, <1>14 DEF VerdictOk
  <1>16. \A t \in tickets' : Earned(db', suites', t)
    BY <1>13, <1>14
  <1>17. AloneOk(db', at')
    <2>1. Passes(db) => Passes(db')
      BY <1>3, <1>4, PassesStays
    <2>2. QED BY <1>1, <2>1, MoveFacts DEF IInv, AloneOk, Idle
  <1>18. QED BY <1>3, <1>6, <1>12, <1>15, <1>16, <1>17 DEF IInv

-----------------------------------------------------------------------------
(* The steps of a service *)

LEMMA InitInvariant == Init => IInv
  <1> SUFFICES ASSUME Init PROVE IInv
    OBVIOUS
  <1>1. db = NoDatabase /\ suites = <<>> /\ tickets = {} /\ at = [s \in Services |-> Down]
    BY DEF Init
  <1>2. LedgerOk(db)
    BY <1>1, EmptyLedger
  <1>3. DOMAIN at = Services /\ \A s \in Services : at[s].tool = "down"
    BY <1>1 DEF Down
  <1>4. \A s \in Services : DoingOk(db, at[s])
    BY <1>3 DEF DoingOk, Tools
  <1>5. SuiteOk(db, at, suites)
    BY <1>1, <1>3 DEF SuiteOk, HiddenIn
  <1>6. \A types : Places(db, types) = {}
    BY <1>1 DEF NoDatabase, Database, Places
  <1>7. VerdictOk(db, suites) /\ Passes(db)
    BY <1>6 DEF VerdictOk, Endings, Passes, Reservations
  <1>8. AloneOk(db, at)
    BY <1>3, <1>7 DEF AloneOk
  <1>9. QED BY <1>1, <1>2, <1>3, <1>4, <1>5, <1>7, <1>8 DEF IInv

LEMMA IdleFits ==
    ASSUME NEW d
    PROVE  /\ DoingOk(d, Idle) /\ Idle.tool = "idle"
           /\ DoingOk(d, Down) /\ Down.tool = "down"
  BY DEF DoingOk, Tools, Idle, Down

LEMMA StartStep ==
    ASSUME IInv, NEW s \in Services, Start(s)
    PROVE  IInv'
  <1>1. /\ Goes(s, Idle) /\ suites' = suites /\ tickets' = tickets /\ at[s].tool # "hidden"
    BY DEF Start, Returns, Down
  <1>2. CASE db.case = NoCase
    <2>1. Sound(db)
      BY DEF IInv, LedgerOk
    <2>2. /\ CreateCase(db, Source, None).answer = "done"
          /\ db' = CreateCase(db, Source, None).db
      BY <1>2 DEF Start, Commits
    <2>3. db = NoDatabase /\ db' = FirstDatabase(Source, None)
      BY <2>1, <2>2, CreateCaseFacts
    <2>4. Logs(db', db, CreationEvent(Source, None))
      BY <2>3, FirstWritten
    <2>5. QED BY <1>1, <2>4, IdleFits, Logged
  <1>3. CASE db.case # NoCase
    <2>1. db' = db
      BY <1>3 DEF Start
    <2>2. \A t \in tickets' : Earned(db, suites, t)
      BY <1>1 DEF IInv
    <2>3. QED BY <1>1, <2>1, <2>2, IdleFits, Quiet
  <1>4. QED BY <1>2, <1>3

\* A tool that begins, fails or finds nothing to do.
LEMMA QuietStep ==
    ASSUME IInv, NEW s \in Services, NEW place, Goes(s, place), UNCHANGED <<db, suites, tickets>>,
           at[s].tool # "hidden", place.tool # "hidden", DoingOk(db, place),
           place.tool = "recheck" => LatestPassed(db, place.revision)
    PROVE  IInv'
  <1>1. db' = db /\ suites' = suites /\ tickets' = tickets
    OBVIOUS
  <1>2. \A t \in tickets' : Earned(db, suites, t)
    BY <1>1 DEF IInv
  <1>3. QED BY <1>1, <1>2, Quiet

LEMMA BeginTaskStep ==
    ASSUME IInv, NEW s \in Services, BeginTask(s)
    PROVE  IInv'
  <1>1. PICK v \in db.revisions : Goes(s, [tool |-> "task", revision |-> v.id])
    BY DEF BeginTask
  <1>2. at[s].tool # "hidden" /\ UNCHANGED <<db, suites, tickets>>
    BY DEF BeginTask, Idle
  <1>3. v.id \in Nat
    BY DEF IInv, LedgerOk, RowOk
  <1> DEFINE place == [tool |-> "task", revision |-> v.id]
  <1>4. place.tool = "task" /\ place.revision \in Nat
    BY <1>3
  <1>5. Goes(s, place)
    BY <1>1
  <1> HIDE DEF place
  <1>6. DoingOk(db, place)
    BY <1>4 DEF DoingOk, Tools
  <1>7. QED BY <1>2, <1>4, <1>5, <1>6, QuietStep

LEMMA EndTaskStep ==
    ASSUME IInv, NEW s \in Services, EndTask(s)
    PROVE  IInv'
  <1> DEFINE n == Len(db.events) + 1
             r == at[s].revision
  <1>1. PICK passed \in BOOLEAN :
            Commits(RecordRun(db, [id |-> n, revision |-> r, kind |-> "task", passed |-> passed],
                EventRow(n, r, "TASK_COMPLETED", [run |-> n, passed |-> passed])))
    BY DEF EndTask, Here
  <1> DEFINE run == [id |-> n, revision |-> r, kind |-> "task", passed |-> passed]
             event == EventRow(n, r, "TASK_COMPLETED", [run |-> n, passed |-> passed])
  <1>2. RecordRun(db, run, event).answer = "done" /\ db' = RecordRun(db, run, event).db
    BY <1>1 DEF Commits
  <1>3. LedgerOk(db)
    BY DEF IInv
  <1>4. Logs(RecordRun(db, run, event).db, db, event)
    BY <1>2, <1>3, TaskWritten
  <1> HIDE DEF run, event
  <1>5. Logs(db', db, event)
    BY <1>2, <1>4
  <1>6. Goes(s, Idle) /\ suites' = suites /\ tickets' = tickets /\ at[s].tool # "hidden"
    BY DEF EndTask, Returns
  <1>7. QED BY <1>5, <1>6, IdleFits, Logged

LEMMA BeginExperimentStep ==
    ASSUME IInv, NEW s \in Services, BeginExperiment(s)
    PROVE  IInv'
  <1> DEFINE n == Len(db.events) + 1
  <1>1. PICK v \in db.revisions, suspects \in SUBSET Attributes \ {{}} :
            /\ Tasks(v.id) # {}
            /\ Commits(AppendEvent(db, EventRow(n, v.id, "HYPOTHESIS_RECORDED", [suspects |-> suspects])))
            /\ Goes(s, [tool |-> "probe", revision |-> v.id, hypothesis |-> n])
    BY DEF BeginExperiment, Here
  <1> DEFINE event == EventRow(n, v.id, "HYPOTHESIS_RECORDED", [suspects |-> suspects])
             place == [tool |-> "probe", revision |-> v.id, hypothesis |-> n]
  <1>2. AppendEvent(db, event).answer = "done" /\ db' = AppendEvent(db, event).db
    BY <1>1 DEF Commits
  <1>3. LedgerOk(db) /\ v.id \in Nat /\ suspects \in SUBSET Attributes
    BY DEF IInv, LedgerOk, RowOk
  <1>4. TasksOf(db, v.id) # {}
    BY <1>1 DEF Tasks, TasksOf
  <1>5. /\ Logs(AppendEvent(db, event).db, db, event)
        /\ n \in HypothesisPlaces(AppendEvent(db, event).db)
        /\ AppendEvent(db, event).db.events[n].revision = v.id
    BY <1>2, <1>3, <1>4, HypothesisWritten
  <1>6. place.tool = "probe" /\ place.revision = v.id /\ place.hypothesis = n
    OBVIOUS
  <1>7. Goes(s, place) /\ suites' = suites /\ tickets' = tickets /\ at[s].tool # "hidden"
    BY <1>1 DEF BeginExperiment, Idle
  <1> HIDE DEF event, place
  <1>8. Logs(db', db, event) /\ n \in HypothesisPlaces(db') /\ db'.events[n].revision = v.id
    BY <1>2, <1>5
  <1>9. DoingOk(db', place)
    BY <1>3, <1>6, <1>8 DEF DoingOk, Tools
  <1>10. QED BY <1>6, <1>7, <1>8, <1>9, Logged

LEMMA ExperimentStep ==
    ASSUME IInv, NEW s \in Services, at[s].tool = "probe", NEW completed \in BOOLEAN,
           ExperimentRecorded(s, completed), Returns(s), UNCHANGED <<suites, tickets>>
    PROVE  IInv'
  <1> DEFINE n == Len(db.events) + 1
             r == at[s].revision
             h == at[s].hypothesis
             type == IF completed THEN "EXPERIMENT_COMPLETED" ELSE "EXPERIMENT_FAILED"
             run == [id |-> n, revision |-> r, kind |-> "probe", passed |-> completed]
             event == EventRow(n, r, type, [run |-> n, hypothesis |-> h])
  <1>1. RecordRun(db, run, event).answer = "done" /\ db' = RecordRun(db, run, event).db
    BY DEF ExperimentRecorded, Commits, Here
  <1>2. LedgerOk(db) /\ h \in HypothesisPlaces(db) /\ db.events[h].revision = r
    BY DEF IInv, DoingOk
  <1>3. type \in {"EXPERIMENT_COMPLETED", "EXPERIMENT_FAILED"}
    OBVIOUS
  <1> HIDE DEF type
  <1>4. Logs(RecordRun(db, run, event).db, db, event)
    BY <1>1, <1>2, <1>3, ExperimentWritten
  <1> HIDE DEF run, event
  <1>5. Logs(db', db, event)
    BY <1>1, <1>4
  <1>6. Goes(s, Idle) /\ suites' = suites /\ tickets' = tickets /\ at[s].tool # "hidden"
    BY DEF Returns
  <1>7. QED BY <1>5, <1>6, IdleFits, Logged

\* An experiment that suspected attribute x on the base is the evidence for a change of x.
LEMMA CausalRow ==
    ASSUME LedgerOk(db), NEW base \in db.revisions, NEW u, NEW x \in Attributes, NEW y \in Values,
           Causal(base.id, u.id, x), base.asset[x] # y,
           NEW row, row.parent = base.id, row.probe = u.id, row.asset = Patched(base.asset, x, y)
    PROVE  Caused(db, row) /\ row.asset \in [Attributes -> Values]
  <1>1. PICK w \in db.runs, e \in Places(db, {"EXPERIMENT_COMPLETED"}) :
            /\ w.id = u.id /\ w.revision = base.id
            /\ db.events[e].body.run = u.id
            /\ x \in db.events[db.events[e].body.hypothesis].body.suspects
    BY DEF Causal
  <1> DEFINE h == db.events[e].body.hypothesis
  <1>2. e \in DOMAIN db.events /\ db.events[e].type = "EXPERIMENT_COMPLETED"
    BY DEF Places
  <1>3. /\ db.events[e].body.run = e /\ h \in HypothesisPlaces(db) /\ h < e
        /\ db.events[h].revision = db.events[e].revision
    BY <1>2 DEF LedgerOk, EventOk
  <1>4. db.events[e].revision = base.id
    BY <1>1, <1>3 DEF LedgerOk
  <1>5. h \in DOMAIN db.events /\ db.events[h].type = "HYPOTHESIS_RECORDED"
    BY <1>3 DEF HypothesisPlaces, Places
  <1>6. PICK b \in TasksOf(db, db.events[h].revision) : b < h
    BY <1>5 DEF LedgerOk, EventOk
  <1>7. base.asset \in [Attributes -> Values]
    BY DEF LedgerOk, RowOk
  <1>8. row.asset \in [Attributes -> Values]
    BY <1>7 DEF Patched
  <1>9. OneChange(row.asset, base.asset, db.events[h].body.suspects)
    <2>1. \A z \in DOMAIN row.asset : row.asset[z] # base.asset[z] <=> z = x
      BY <1>7, <1>8 DEF Patched
    <2>2. QED BY <1>1, <2>1 DEF OneChange
  <1>10. e \in ExperimentPlaces(db) /\ b \in TasksOf(db, base.id) /\ b \in DOMAIN db.events
    BY <1>3, <1>4, <1>6 DEF ExperimentPlaces, TasksOf, Places
  <1>11. CausedAt(db, row, b, h, e)
    BY <1>1, <1>3, <1>4, <1>6, <1>9, <1>10 DEF CausedAt
  <1>12. QED BY <1>2, <1>5, <1>8, <1>10, <1>11 DEF Caused

LEMMA HeadRow ==
    ASSUME LedgerOk(db), ValidCase(db)
    PROVE  Revision(db.case.head) \in db.revisions /\ Revision(db.case.head).id = db.case.head
  <1>1. PICK v \in db.revisions : v.id = db.case.head
    BY HeadThere DEF LedgerOk, RevisionIn
  <1>2. QED BY <1>1 DEF Revision

LEMMA BeginRevisionStep ==
    ASSUME IInv, NEW s \in Services, BeginRevision(s)
    PROVE  IInv'
  <1> DEFINE base == Revision(db.case.head)
  <1>1. PICK u \in db.runs, x \in Attributes, y \in Values :
            /\ Causal(base.id, u.id, x) /\ base.asset[x] # y
            /\ Goes(s, [tool |-> "revise", run |-> u, row |->
                   [id |-> base.ordinal + 1, parent |-> base.id, ordinal |-> base.ordinal + 1,
                    asset |-> Patched(base.asset, x, y),
                    hypothesis |-> Hypothesis(u.id), probe |-> u.id]])
    BY DEF BeginRevision
  <1> DEFINE row == [id |-> base.ordinal + 1, parent |-> base.id, ordinal |-> base.ordinal + 1,
                     asset |-> Patched(base.asset, x, y),
                     hypothesis |-> Hypothesis(u.id), probe |-> u.id]
             place == [tool |-> "revise", run |-> u, row |-> row]
  <1>2. LedgerOk(db) /\ ValidCase(db) /\ UNCHANGED <<db, suites, tickets>> /\ at[s].tool # "hidden"
    BY DEF IInv, BeginRevision, Idle
  <1>3. Goes(s, place)
    BY <1>1
  <1>4. place.tool = "revise" /\ place.row = row
    OBVIOUS
  <1>5. /\ row.id = base.ordinal + 1 /\ row.parent = base.id /\ row.ordinal = base.ordinal + 1
        /\ row.asset = Patched(base.asset, x, y) /\ row.probe = u.id
    OBVIOUS
  <1>6. base \in db.revisions
    BY <1>2, HeadRow
  <1> HIDE DEF base, row, place
  <1>7. base.ordinal \in Nat
    BY <1>2, <1>6 DEF LedgerOk, RowOk
  <1>8. Caused(db, row) /\ row.asset \in [Attributes -> Values]
    BY <1>1, <1>2, <1>5, <1>6, CausalRow
  <1>9. RowOk(row)
    BY <1>5, <1>7, <1>8 DEF RowOk
  <1>10. DoingOk(db, place)
    BY <1>4, <1>8, <1>9 DEF DoingOk, Tools
  <1>11. QED BY <1>2, <1>3, <1>4, <1>10, QuietStep

LEMMA EndRevisionStep ==
    ASSUME IInv, NEW s \in Services, EndRevision(s)
    PROVE  IInv'
  <1> DEFINE n == Len(db.events) + 1
             row == at[s].row
             event == RevisionEvent(n, row, at[s].run)
             o == CommitRevision(db, row, event, row.parent)
  <1>1. IF o.answer = "done" THEN db' = o.db ELSE UNCHANGED db
    BY DEF EndRevision, Here
  <1>2. /\ Goes(s, Idle) /\ suites' = suites /\ tickets' = tickets
        /\ at[s].tool # "hidden" /\ at[s].tool = "revise"
    BY DEF EndRevision, Returns
  <1>3. LedgerOk(db) /\ RowOk(row) /\ Caused(db, row)
    BY <1>2 DEF IInv, DoingOk
  <1>4. CASE o.answer = "done"
    <2>1. Logs(o.db, db, event)
      BY <1>3, <1>4, RevisionWritten
    <2> HIDE DEF o, event
    <2>2. Logs(db', db, event)
      BY <1>1, <1>4, <2>1
    <2>3. QED BY <1>2, <2>2, IdleFits, Logged
  <1>5. CASE o.answer # "done"
    <2>1. UNCHANGED <<db, suites, tickets>>
      BY <1>1, <1>2, <1>5
    <2>2. QED BY <1>2, <2>1, IdleFits, QuietStep
  <1>6. QED BY <1>4, <1>5

LEMMA BeginVerifyStep ==
    ASSUME IInv, NEW s \in Services, BeginVerify(s)
    PROVE  IInv'
  <1>1. PICK v \in db.revisions :
            LatestTaskPassed(v.id) /\ Goes(s, [tool |-> "recheck", revision |-> v.id])
    BY DEF BeginVerify
  <1> DEFINE place == [tool |-> "recheck", revision |-> v.id]
  <1>2. at[s].tool # "hidden" /\ UNCHANGED <<db, suites, tickets>>
    BY DEF BeginVerify, Idle
  <1>3. v.id \in Nat
    BY DEF IInv, LedgerOk, RowOk
  <1>4. LatestPassed(db, v.id)
    BY <1>1 DEF LatestTaskPassed, LatestPassed, Tasks, TasksOf
  <1>5. place.tool = "recheck" /\ place.revision = v.id /\ Goes(s, place)
    BY <1>1
  <1> HIDE DEF place
  <1>6. DoingOk(db, place)
    BY <1>3, <1>5 DEF DoingOk, Tools
  <1>7. QED BY <1>2, <1>4, <1>5, <1>6, QuietStep

\* A tool that returns without recording anything.
LEMMA ReturnStep ==
    ASSUME IInv, NEW s \in Services, Returns(s), at[s].tool # "hidden",
           UNCHANGED <<db, suites, tickets>>
    PROVE  IInv'
  <1>1. Goes(s, Idle)
    BY DEF Returns
  <1>2. QED BY <1>1, IdleFits, QuietStep

LEMMA ReserveAction ==
    ASSUME IInv, NEW s \in Services, Reserve(s)
    PROVE  IInv'
  <1> DEFINE n == Len(db.events) + 1
             r == at[s].revision
             o == ReserveQualification(db, r, n, r, Pinned)
             place == [tool |-> "hidden", revision |-> r, attempt |-> n]
  <1>1. \/ /\ o.answer # "refused" /\ db' = o.db
           /\ Goes(s, place) \/ Returns(s)
        \/ Returns(s) /\ UNCHANGED db
    BY DEF Reserve, Here
  <1>2. at[s].tool = "recheck" /\ suites' = suites /\ tickets' = tickets
    BY DEF Reserve
  <1>3. LedgerOk(db) /\ Sound(db)
    BY DEF IInv, LedgerOk
  <1>4. CASE /\ o.answer # "refused" /\ db' = o.db
             /\ Goes(s, place) \/ Returns(s)
    <2>1. /\ ValidCase(db)
          /\ \/ SameAttempt(db, r, n)
             \/ /\ o.db = Reserved(db, r, n) /\ Sound(Reserved(db, r, n))
                /\ db.case.result = None
      BY <1>3, <1>4, ReserveFacts
    <2>2. ~SameAttempt(db, r, n)
      BY <1>3, NewAttempt
    <2>3. /\ db' = Reserved(db, r, n) /\ Sound(Reserved(db, r, n)) /\ db.case.result = None
      BY <1>4, <2>1, <2>2
    <2>4. CASE Goes(s, place)
      <3>1. place.tool = "hidden" /\ place.revision = r
        OBVIOUS
      <3> HIDE DEF place
      <3>2. QED BY <1>2, <2>1, <2>3, <2>4, <3>1, ReserveStep
    <2>5. CASE Returns(s)
      <3>1. Goes(s, Idle) /\ Idle.tool = "idle"
        BY <2>5, IdleFits DEF Returns
      <3>2. QED BY <1>2, <2>1, <2>3, <3>1, ReserveStep
    <2>6. QED BY <1>4, <2>4, <2>5
  <1>5. CASE Returns(s) /\ UNCHANGED db
    <2>1. UNCHANGED <<db, suites, tickets>> /\ at[s].tool # "hidden"
      BY <1>2, <1>5
    <2>2. QED BY <1>5, <2>1, ReturnStep
  <1>6. QED BY <1>1, <1>4, <1>5

LEMMA EndHiddenStep ==
    ASSUME IInv, NEW s \in Services, EndHidden(s)
    PROVE  IInv'
  <1>1. PICK passed \in BOOLEAN :
            LET t == IF passed THEN Ticket(at[s].revision) ELSE None IN
            /\ suites' = Append(suites, [revision |-> at[s].revision, passed |-> passed])
            /\ \/ /\ Decides(s, IF passed THEN "PASSED" ELSE "FAILED", [ticket |-> t])
                  /\ tickets' = tickets \cup ({t} \ {None})
               \/ UNCHANGED <<db, tickets>>
    BY DEF EndHidden
  <1> DEFINE t == IF passed THEN Ticket(at[s].revision) ELSE None
             state == IF passed THEN "PASSED" ELSE "FAILED"
             result == [ticket |-> t]
             given == {t}
  <1>2. Returns(s) /\ at[s].tool = "hidden"
    BY DEF EndHidden
  <1>3. CASE UNCHANGED <<db, tickets>>
    <2>1. Goes(s, Idle) /\ Idle.tool = "idle"
      BY <1>2, IdleFits DEF Returns
    <2>2. QED BY <1>1, <1>2, <1>3, <2>1, SpentStep
  <1>4. CASE Decides(s, state, result) /\ tickets' = tickets \cup (given \ {None})
    <2>1. state \in Terminal /\ (passed => state = "PASSED")
      BY DEF Terminal
    <2>2. result.ticket = t /\ given = {t}
      OBVIOUS
    <2>3. (passed /\ t = Ticket(at[s].revision)) \/ t = None
      OBVIOUS
    <2>4. suites' = Append(suites, [revision |-> at[s].revision, passed |-> passed])
      BY <1>1
    <2> HIDE DEF t, state, result, given
    <2>5. /\ result # None => (passed /\ result.ticket = Ticket(at[s].revision)) \/ result.ticket = None
          /\ \A g \in given : g # None => passed /\ g = Ticket(at[s].revision)
      BY <2>2, <2>3
    <2>6. QED BY <1>2, <1>4, <2>1, <2>4, <2>5, VerdictStep
  <1>5. QED BY <1>1, <1>3, <1>4

LEMMA HiddenRaisesStep ==
    ASSUME IInv, NEW s \in Services, HiddenRaises(s)
    PROVE  IInv'
  <1>1. /\ suites' = Append(suites, [revision |-> at[s].revision, passed |-> FALSE])
        /\ Decides(s, "FAILED", None) \/ UNCHANGED db
        /\ Returns(s) /\ tickets' = tickets /\ at[s].tool = "hidden"
    BY DEF HiddenRaises
  <1>2. CASE UNCHANGED db
    <2>1. Goes(s, Idle) /\ Idle.tool = "idle"
      BY <1>1, IdleFits DEF Returns
    <2>2. QED BY <1>1, <1>2, <2>1, SpentStep
  <1>3. CASE Decides(s, "FAILED", None)
    <2>1. "FAILED" \in Terminal
      BY DEF Terminal
    <2> DEFINE given == {}
               result == None
               passed == FALSE
    <2>2. /\ tickets' = tickets \cup (given \ {None}) /\ passed \in BOOLEAN
          /\ suites' = Append(suites, [revision |-> at[s].revision, passed |-> passed])
          /\ Decides(s, "FAILED", result) /\ Returns(s) /\ at[s].tool = "hidden"
      BY <1>1, <1>3
    <2>3. passed => "FAILED" = "PASSED"
      OBVIOUS
    <2>4. result # None => (passed /\ result.ticket = Ticket(at[s].revision)) \/ result.ticket = None
      OBVIOUS
    <2>5. \A t \in given : t # None => passed /\ t = Ticket(at[s].revision)
      OBVIOUS
    <2> HIDE DEF given, result, passed
    <2>6. QED BY <2>1, <2>2, <2>3, <2>4, <2>5, VerdictStep
  <1>4. QED BY <1>1, <1>2, <1>3

LEMMA StoredVerdictStep ==
    ASSUME IInv, NEW s \in Services, StoredVerdict(s)
    PROVE  IInv'
  <1>1. /\ db' = db /\ at' = at /\ suites' = suites
        /\ StoredResult(db) # None
        /\ tickets' = tickets \cup ({StoredResult(db).ticket} \ {None})
    BY DEF StoredVerdict
  <1>2. {TerminalType[t] : t \in Terminal} = {"QUALIFICATION_PASSED", "QUALIFICATION_FAILED"}
    BY TerminalTypes
  <1>3. \E i \in Endings(db) : StoredResult(db) = db.events[i].body.result
    <2> DEFINE ended == Places(db, {TerminalType[t] : t \in Terminal})
    <2>1. StoredResult(db) = IF ended = {} THEN None
                             ELSE db.events[CHOOSE i \in ended : TRUE].body.result
      BY DEF StoredResult
    <2>2. ended = Endings(db)
      BY <1>2 DEF Endings
    <2> HIDE DEF ended
    <2>3. ended # {}
      BY <1>1, <2>1
    <2>4. (CHOOSE i \in ended : TRUE) \in ended
      BY <2>3
    <2>5. QED BY <2>1, <2>2, <2>3, <2>4
  <1>4. StoredResult(db).ticket # None => Earned(db, suites, StoredResult(db).ticket)
    BY <1>1, <1>3 DEF IInv, VerdictOk
  <1>5. \A t \in tickets' : Earned(db, suites, t)
    BY <1>1, <1>4 DEF IInv
  <1>6. QED BY <1>1, <1>5 DEF IInv

LEMMA CrashStep ==
    ASSUME IInv, NEW s \in Services, Crash(s)
    PROVE  IInv'
  <1>1. Goes(s, Down) /\ db' = db /\ tickets' = tickets
    BY DEF Crash
  <1>2. CASE at[s].tool = "hidden"
    <2>1. suites' = Append(suites, [revision |-> at[s].revision, passed |-> FALSE])
      BY <1>2 DEF Crash
    <2>2. QED BY <1>1, <1>2, <2>1, IdleFits, SpentStep
  <1>3. CASE at[s].tool # "hidden"
    <2>1. UNCHANGED <<db, suites, tickets>>
      BY <1>1, <1>3 DEF Crash
    <2>2. QED BY <1>1, <1>3, <2>1, IdleFits, QuietStep
  <1>4. QED BY <1>2, <1>3

LEMMA NextInvariant == IInv /\ [Next]_vars => IInv'
  <1> SUFFICES ASSUME IInv, [Next]_vars PROVE IInv'
    OBVIOUS
  <1>1. ASSUME NEW s \in Services, Step(s) PROVE IInv'
    <2>1. CASE EndTask(s)
      BY <2>1, EndTaskStep
    <2>2. CASE EndExperiment(s)
      BY <2>2, ExperimentStep DEF EndExperiment
    <2>3. CASE PartialExperiment(s)
      BY <2>3, ExperimentStep DEF PartialExperiment
    <2>4. CASE EndRevision(s)
      BY <2>4, EndRevisionStep
    <2>5. CASE FailRecheck(s) \/ FailTool(s)
      BY <2>5, ReturnStep DEF FailRecheck, FailTool
    <2>6. CASE Reserve(s)
      BY <2>6, ReserveAction
    <2>7. CASE EndHidden(s)
      BY <2>7, EndHiddenStep
    <2>8. CASE HiddenRaises(s)
      BY <2>8, HiddenRaisesStep
    <2>9. QED BY <1>1, <2>1, <2>2, <2>3, <2>4, <2>5, <2>6, <2>7, <2>8 DEF Step
  <1>2. CASE UNCHANGED vars
    BY <1>2 DEF IInv, vars
  <1>3. CASE Next
    <2>1. PICK s \in Services :
              \/ Start(s) \/ BeginTask(s) \/ BeginExperiment(s) \/ BeginRevision(s) \/ BeginVerify(s)
              \/ StoredVerdict(s) \/ Step(s) \/ Crash(s)
      BY <1>3 DEF Next
    <2>2. QED BY <1>1, <2>1, StartStep, BeginTaskStep, BeginExperimentStep, BeginRevisionStep,
                 BeginVerifyStep, StoredVerdictStep, CrashStep
  <1>4. QED BY <1>2, <1>3
-----------------------------------------------------------------------------
(* What the invariant gives *)

LEMMA RevisionFound ==
    ASSUME LedgerOk(db), NEW v \in db.revisions
    PROVE  Revision(v.id) = v
  <1>1. \A w \in db.revisions : w.id = v.id => w = v
    BY SoundFacts DEF LedgerOk, Keyed
  <1>2. Revision(v.id) \in db.revisions /\ Revision(v.id).id = v.id
    BY DEF Revision
  <1>3. QED BY <1>1, <1>2

LEMMA TypesHold == IInv => TypeOK
  <1> SUFFICES ASSUME IInv PROVE TypeOK
    OBVIOUS
  <1>1. db.case # NoCase => ValidCase(db)
    BY SoundFacts DEF IInv, LedgerOk
  <1>2. DOMAIN at = At({"down", "idle", "task", "probe", "revise", "recheck", "hidden"})
    BY DEF IInv, DoingOk, Tools, At
  <1>3. \A i \in DOMAIN suites : suites[i] \in [revision : Nat, passed : BOOLEAN]
    BY DEF IInv, SuiteOk, Suite
  <1>4. ASSUME NEW t \in tickets PROVE t \in {Ticket(v.id) : v \in db.revisions}
    <2>1. PICK v \in db.revisions : t = [revision |-> v.id, asset |-> v.asset]
      BY DEF IInv, Earned
    <2>2. Ticket(v.id) = t
      BY <2>1, RevisionFound DEF Ticket, IInv
    <2>3. QED BY <2>2
  <1>5. QED BY <1>1, <1>2, <1>3, <1>4 DEF TypeOK

LEMMA OrderHolds == IInv => CausalOrder
  <1> SUFFICES ASSUME IInv, NEW k \in RevisionPlaces(db)
               PROVE  LET v == db.events[k].body.row
                          parent == Revision(v.parent)
                      IN \E b \in Tasks(parent.id), h \in Places(db, {"HYPOTHESIS_RECORDED"}),
                            e \in Places(db, {"EXPERIMENT_COMPLETED"}) :
                            /\ b < h /\ h < e /\ e < k
                            /\ db.events[h].revision = parent.id /\ db.events[e].revision = parent.id
                            /\ db.events[e].body.run = v.probe /\ db.events[e].body.hypothesis = h
                            /\ \E x \in db.events[h].body.suspects :
                                  \A y \in DOMAIN v.asset : v.asset[y] # parent.asset[y] <=> y = x
    BY DEF CausalOrder
  <1> DEFINE v == db.events[k].body.row
             parent == Revision(v.parent)
  <1>1. k \in DOMAIN db.events /\ db.events[k].type = "REVISION_CREATED"
    BY DEF RevisionPlaces, Places
  <1>2. PICK b, h, e \in DOMAIN db.events : e < k /\ CausedAt(db, v, b, h, e)
    BY <1>1 DEF IInv, LedgerOk, EventOk
  <1>3. PICK w \in db.revisions :
            w.id = v.parent /\ OneChange(v.asset, w.asset, db.events[h].body.suspects)
    BY <1>2 DEF CausedAt
  <1>4. parent = w /\ parent.id = v.parent
    BY <1>3, RevisionFound DEF IInv
  <1> HIDE DEF v, parent
  <1>5. b \in Tasks(parent.id)
    BY <1>2, <1>4 DEF CausedAt, TasksOf, Tasks
  <1>6. h \in Places(db, {"HYPOTHESIS_RECORDED"}) /\ e \in Places(db, {"EXPERIMENT_COMPLETED"})
    BY <1>2 DEF CausedAt, HypothesisPlaces, ExperimentPlaces
  <1>7. /\ b < h /\ h < e /\ e < k
        /\ db.events[h].revision = parent.id /\ db.events[e].revision = parent.id
        /\ db.events[e].body.run = v.probe /\ db.events[e].body.hypothesis = h
    BY <1>2, <1>4 DEF CausedAt
  <1>8. \E x \in db.events[h].body.suspects :
            \A y \in DOMAIN v.asset : v.asset[y] # parent.asset[y] <=> y = x
    BY <1>3, <1>4 DEF OneChange
  <1>9. QED BY <1>5, <1>6, <1>7, <1>8 DEF v, parent

LEMMA PassHolds == IInv => ReservedOnPass
  <1> SUFFICES ASSUME IInv, Cardinality(DOMAIN at) = 1,
                      NEW q \in Places(db, {"QUALIFICATION_RESERVED"})
               PROVE  LET before == {i \in Tasks(db.events[q].revision) : i < q} IN
                      \E i \in before : (\A j \in before : j <= i) /\ db.events[i].body.passed
    BY DEF ReservedOnPass
  <1>1. PICK s : Services = {s}
    BY ServicesAssumption, FS_Singleton DEF IInv
  <1>2. Passes(db)
    BY <1>1 DEF IInv, AloneOk
  <1>3. PassedBefore(db, db.events[q].revision, q)
    BY <1>2 DEF Passes, Reservations
  <1>4. Tasks(db.events[q].revision) = TasksOf(db, db.events[q].revision)
    BY DEF Tasks, TasksOf
  <1>5. QED BY <1>3, <1>4 DEF PassedBefore

LEMMA OnceHolds == IInv => HiddenOnce
  <1> SUFFICES ASSUME IInv PROVE HiddenOnce
    OBVIOUS
  <1>1. At({"hidden"}) = HiddenIn(at)
    BY DEF At, HiddenIn
  <1>2. CASE suites = <<>> /\ HiddenIn(at) = {}
    <2>1. Len(suites) = 0 /\ Cardinality(At({"hidden"})) = 0
      BY <1>1, <1>2, FS_EmptySet
    <2>2. QED BY <2>1 DEF HiddenOnce
  <1>3. CASE suites = <<>> /\ \E s \in DOMAIN at : HiddenIn(at) = {s}
    <2>1. PICK s : At({"hidden"}) = {s}
      BY <1>1, <1>3
    <2>2. Cardinality(At({"hidden"})) = 1
      BY <2>1, FS_Singleton
    <2>3. Len(suites) = 0
      BY <1>3
    <2>4. QED BY <2>2, <2>3 DEF HiddenOnce
  <1>4. CASE HiddenIn(at) = {} /\ \E i \in DOMAIN suites : suites = <<suites[i]>>
    <2>1. Len(suites) = 1
      BY <1>4
    <2>2. Cardinality(At({"hidden"})) = 0
      BY <1>1, <1>4, FS_EmptySet
    <2>3. QED BY <2>1, <2>2 DEF HiddenOnce
  <1>5. QED BY <1>2, <1>3, <1>4 DEF IInv, SuiteOk

LEMMA StandHolds == IInv => TicketsStand
  <1> SUFFICES ASSUME IInv, NEW t \in tickets
               PROVE  /\ Accepts(t)
                      /\ \E i \in DOMAIN suites : suites[i] = [revision |-> t.revision, passed |-> TRUE]
    BY DEF TicketsStand
  <1>1. Earned(db, suites, t) /\ LedgerOk(db)
    BY DEF IInv
  <1>2. PICK v \in db.revisions : v.id = t.revision /\ t = [revision |-> v.id, asset |-> v.asset]
    BY <1>1 DEF Earned
  <1>3. Revision(t.revision).asset = t.asset
    BY <1>1, <1>2, RevisionFound
  <1>4. QED BY <1>1, <1>3 DEF Earned, Accepts

-----------------------------------------------------------------------------
(* The theorems *)

\* The inductive invariant: what the ledger and its rows say, what each service holds across an
\* await, the runs of the hidden suite and the tickets fit together.
THEOREM Invariant == Spec => []IInv
  <1>1. QED BY InitInvariant, NextInvariant, PTL DEF Spec

\* Every revision has its causal order in the ledger, a measured parent, a hypothesis, an
\* experiment for it and one changed attribute, and a service that is alone only qualifies what
\* passed the last public task (run_experiment, create_revision and verify_revision).
THEOREM EvidenceInOrderAlways == Spec => []EvidenceInOrder
  <1>1. IInv => EvidenceInOrder
    BY TypesHold, OrderHolds, PassHolds DEF EvidenceInOrder
  <1>2. QED BY <1>1, Invariant, PTL

\* The hidden suite runs once at most, whatever is retried, cancelled or restarted and by any
\* number of services, and a ticket that was given stays accepted (verify_revision,
\* validate_promotion_acceptance).
THEOREM OneSuiteAlways == Spec => []OneSuite
  <1>1. IInv => OneSuite
    BY OnceHolds, StandHolds DEF OneSuite
  <1>2. QED BY <1>1, Invariant, PTL

-----------------------------------------------------------------------------
(* Budgets *)

Runs == {"TASK_COMPLETED", "EXPERIMENT_COMPLETED", "EXPERIMENT_FAILED"}
Experiments == {"EXPERIMENT_COMPLETED", "EXPERIMENT_FAILED"}

\* How many events of these types a ledger has, and how many services are at these tools.
Count(d, types) == Cardinality(Places(d, types))
Busy(a, tools) == {s \in DOMAIN a : a[s].tool \in tools}
One(x, set) == IF x \in set THEN 1 ELSE 0

\* What is used, with what was begun, overdraws a budget by one run of each further service.
Within(used, begun, budget) ==
    used + Cardinality(begun) <= budget + Cardinality(Services) - 1

BudgetInv ==
    /\ Within(Count(db, Runs), Busy(at, {"task", "probe"}), RunBudget)
    /\ Within(Count(db, Experiments), Busy(at, {"probe"}), ExperimentBudget)
    /\ Count(db, {"REVISION_CREATED"}) <= RevisionBudget
    /\ \A s \in Services : at[s].tool = "revise" => at[s].row.ordinal <= RevisionBudget

\* a2 is a with service s moved on.
Moved(a2, a, s, place) == DOMAIN a = Services /\ a2 = [a EXCEPT ![s] = place]

LEMMA CountType ==
    ASSUME NEW d, Sound(d), NEW types
    PROVE  IsFiniteSet(Places(d, types)) /\ Count(d, types) \in Nat
  <1>1. /\ Len(d.events) \in Int /\ 1 \in Int /\ Places(d, types) \subseteq 1 .. Len(d.events)
    BY SoundFacts, SeqFacts, PlacesFacts
  <1>2. IsFiniteSet(1 .. Len(d.events))
    BY <1>1, FS_Interval
  <1>3. IsFiniteSet(Places(d, types))
    BY <1>1, <1>2, FS_Subset
  <1>4. QED BY <1>3, FS_CardinalityType DEF Count

LEMMA CountGrows ==
    ASSUME NEW d, NEW c, Sound(c), NEW event, Grows(d, c, event), NEW types
    PROVE  Count(d, types) = Count(c, types) + One(event.type, types)
  <1> DEFINE n == Len(c.events) + 1
  <1>1. /\ n \in Nat /\ Places(c, types) \subseteq 1 .. n - 1
        /\ Places(d, types) = Places(c, types) \cup (IF event.type \in types THEN {n} ELSE {})
    BY ExtendsFacts DEF Grows
  <1> HIDE DEF n
  <1>2. IsFiniteSet(Places(c, types)) /\ Count(c, types) \in Nat /\ n \notin Places(c, types)
    BY <1>1, CountType
  <1>3. CASE event.type \in types
    <2>1. Cardinality(Places(c, types) \cup {n}) = Cardinality(Places(c, types)) + 1
      BY <1>2, FS_AddElement
    <2>2. QED BY <1>1, <1>3, <2>1 DEF Count, One
  <1>4. CASE event.type \notin types
    <2>1. Places(d, types) = Places(c, types)
      BY <1>1, <1>4
    <2>2. QED BY <1>2, <1>4, <2>1 DEF Count, One
  <1>5. QED BY <1>3, <1>4

\* The services at some tools, when one of them moves.
LEMMA BusyMoves ==
    ASSUME NEW a, NEW a2, NEW s \in Services, NEW place, Moved(a2, a, s, place), NEW tools
    PROVE  /\ Cardinality(Busy(a, tools)) \in Nat /\ Cardinality(Busy(a2, tools)) \in Nat
           /\ Cardinality(Services) \in Nat
           /\ Cardinality(Busy(a2, tools)) <= Cardinality(Services)
           /\ Cardinality(Busy(a2, tools)) + One(a[s].tool, tools)
                  = Cardinality(Busy(a, tools)) + One(place.tool, tools)
  <1> DEFINE rest == Busy(a, tools) \ {s}
  <1>1. /\ DOMAIN a = Services /\ DOMAIN a2 = Services /\ a2[s] = place
        /\ \A t \in Services : t # s => a2[t] = a[t]
    BY MoveFacts DEF Moved
  <1>2. Busy(a, tools) \subseteq Services /\ Busy(a2, tools) \subseteq Services
    BY <1>1 DEF Busy
  <1>3. IsFiniteSet(Busy(a, tools)) /\ IsFiniteSet(Busy(a2, tools))
    BY <1>2, ServicesAssumption, FS_Subset
  <1>4. /\ Cardinality(Busy(a, tools)) \in Nat /\ Cardinality(Busy(a2, tools)) \in Nat
        /\ Cardinality(Services) \in Nat
    BY <1>3, ServicesAssumption, FS_CardinalityType
  <1>5. Cardinality(Busy(a2, tools)) <= Cardinality(Services)
    BY <1>2, ServicesAssumption, FS_Subset
  <1>6. Busy(a, tools) = IF a[s].tool \in tools THEN rest \cup {s} ELSE rest
    BY <1>1 DEF Busy
  <1>7. Busy(a2, tools) = IF place.tool \in tools THEN rest \cup {s} ELSE rest
    BY <1>1 DEF Busy
  <1>8. s \notin rest /\ IsFiniteSet(rest)
    BY <1>3, FS_RemoveElement
  <1> HIDE DEF rest
  <1>9. Cardinality(rest \cup {s}) = Cardinality(rest) + 1 /\ Cardinality(rest) \in Nat
    BY <1>8, FS_AddElement, FS_CardinalityType
  <1>10. Cardinality(Busy(a, tools)) = Cardinality(rest) + One(a[s].tool, tools)
    BY <1>6, <1>9 DEF One
  <1>11. Cardinality(Busy(a2, tools)) = Cardinality(rest) + One(place.tool, tools)
    BY <1>7, <1>9 DEF One
  <1>12. One(a[s].tool, tools) \in Nat /\ One(place.tool, tools) \in Nat
    BY DEF One
  <1>13. QED BY <1>4, <1>5, <1>9, <1>10, <1>11, <1>12

\* A service that takes a run from a budget saw it not used up; one that uses it had taken it.
LEMMA WithinMoves ==
    ASSUME NEW a, NEW a2, NEW s \in Services, NEW place, Moved(a2, a, s, place), NEW tools, NEW budget \in Nat,
           NEW used \in Nat, NEW used2 \in Nat, Within(used, Busy(a, tools), budget),
           \/ used2 < budget
           \/ used2 + One(place.tool, tools) <= used + One(a[s].tool, tools)
    PROVE  Within(used2, Busy(a2, tools), budget)
  <1>1. /\ Cardinality(Busy(a, tools)) \in Nat /\ Cardinality(Busy(a2, tools)) \in Nat
        /\ Cardinality(Services) \in Nat
        /\ Cardinality(Busy(a2, tools)) <= Cardinality(Services)
        /\ Cardinality(Busy(a2, tools)) + One(a[s].tool, tools)
                  = Cardinality(Busy(a, tools)) + One(place.tool, tools)
    BY BusyMoves
  <1>2. One(a[s].tool, tools) \in Nat /\ One(place.tool, tools) \in Nat
    BY DEF One
  <1>3. CASE used2 < budget
    BY <1>1, <1>3 DEF Within
  <1>4. CASE used2 + One(place.tool, tools) <= used + One(a[s].tool, tools)
    BY <1>1, <1>2, <1>4 DEF Within
  <1>5. QED BY <1>3, <1>4

\* Every revision but the root has its place in the line, and each place its own revision.
LEMMA LineCount ==
    ASSUME NEW d, Sound(d), ValidCase(d)
    PROVE  Cardinality(d.revisions) = Count(d, {"REVISION_CREATED"}) + 1
  <1> DEFINE P == RevisionPlaces(d)
             root == RootRow(d.case.source)
             Upto(i) == {j \in P : j <= i}
             f == [i \in P |-> CHOOSE v \in d.revisions : v.id = d.events[i].revision]
             T == d.revisions \ {root}
  <1>1. RowsOk(d) /\ Keyed(d.revisions)
    BY ValidParts, SoundFacts
  <1>2. /\ root \in d.revisions /\ root.id = Root /\ root.ordinal = 0
        /\ {v.id : v \in d.revisions} = {Root} \cup {d.events[i].revision : i \in P}
    BY <1>1 DEF RowsOk, RootRow
  <1>3. ASSUME NEW i \in P
        PROVE  /\ f[i] \in d.revisions /\ f[i].id = d.events[i].revision
               /\ f[i].ordinal = Cardinality(Upto(i))
    <2>1. PICK v \in d.revisions : v.id = d.events[i].revision /\ v.ordinal = Cardinality(Upto(i))
      BY <1>1 DEF RowsOk, RevisionOk
    <2>2. f[i] \in d.revisions /\ f[i].id = d.events[i].revision
      BY <2>1
    <2>3. f[i] = v
      BY <1>1, <2>1, <2>2 DEF Keyed
    <2>4. QED BY <2>1, <2>2, <2>3
  <1>4. IsFiniteSet(P) /\ Count(d, {"REVISION_CREATED"}) = Cardinality(P)
    BY CountType DEF Count, RevisionPlaces
  <1>5. \A i \in P : i \in Nat
    BY SoundFacts, PlacesFacts, SeqFacts DEF RevisionPlaces
  <1>6. \A i \in P : Upto(i) \subseteq P /\ i \in Upto(i)
    BY <1>5
  <1>7. \A i \in P : IsFiniteSet(Upto(i)) /\ Cardinality(Upto(i)) \in Nat /\ Cardinality(Upto(i)) # 0
    <2>1. ASSUME NEW i \in P
          PROVE  IsFiniteSet(Upto(i)) /\ Cardinality(Upto(i)) \in Nat /\ Cardinality(Upto(i)) # 0
      <3>1. IsFiniteSet(Upto(i)) /\ Upto(i) # {}
        BY <1>4, <1>6, FS_Subset
      <3> HIDE DEF Upto
      <3>2. QED BY <3>1, FS_CardinalityType, FS_EmptySet
    <2>2. QED BY <2>1
  <1>8. ASSUME NEW i \in P, NEW k \in P, i < k PROVE Cardinality(Upto(i)) # Cardinality(Upto(k))
    <2>1. Upto(i) \subseteq Upto(k) /\ k \in Upto(k) /\ k \notin Upto(i)
      BY <1>5, <1>8
    <2>2. IsFiniteSet(Upto(k))
      BY <1>7
    <2> HIDE DEF Upto
    <2>3. QED BY <2>1, <2>2, FS_Subset
  <1>9. ASSUME NEW i \in P, NEW k \in P, f[i] = f[k] PROVE i = k
    <2>1. Cardinality(Upto(i)) = Cardinality(Upto(k))
      BY <1>3, <1>9
    <2>2. ~(i < k) /\ ~(k < i)
      BY <1>8, <2>1
    <2>3. QED BY <1>5, <2>2
  <1>10. \A i \in P : f[i] \in T
    BY <1>2, <1>3, <1>7
  <1>11. \A v \in T : \E i \in P : f[i] = v
    <2>1. ASSUME NEW v \in T PROVE \E i \in P : f[i] = v
      <3>1. v.id # Root
        BY <1>1, <1>2 DEF Keyed
      <3>2. PICK i \in P : d.events[i].revision = v.id
        BY <1>2, <3>1
      <3>3. f[i] = v
        BY <1>1, <1>3, <3>2 DEF Keyed
      <3>4. QED BY <3>3
    <2>2. QED BY <2>1
  <1>12. f \in [P -> T]
    BY <1>10
  <1> HIDE DEF f, P, T
  <1>13. f \in Bijection(P, T)
    BY <1>9, <1>11, <1>12 DEF Bijection, Injection, IsInjective, Surjection
  <1>14. IsFiniteSet(T) /\ Cardinality(T) = Cardinality(P)
    BY <1>4, <1>13, FS_Bijection DEF ExistsBijection
  <1>15. d.revisions = T \cup {root} /\ root \notin T
    BY <1>2 DEF T
  <1>16. QED BY <1>4, <1>14, <1>15, FS_AddElement, FS_CardinalityType

\* What a step adds to the ledger: an event of type t, or nothing.
Writes(d, c, t) ==
    \/ d = c /\ t = "nothing"
    \/ \E event : Grows(d, c, event) /\ event.type = t

Opens == {"CASE_CREATED", "HYPOTHESIS_RECORDED", "QUALIFICATION_RESERVED",
          "QUALIFICATION_PASSED", "QUALIFICATION_FAILED", "nothing"}

LEMMA CountWrites ==
    ASSUME NEW d, NEW c, Sound(c), NEW t, Writes(d, c, t), NEW types, "nothing" \notin types
    PROVE  /\ Count(c, types) \in Nat /\ Count(d, types) \in Nat
           /\ Count(d, types) = Count(c, types) + One(t, types)
  <1>1. Count(c, types) \in Nat /\ One(t, types) \in Nat
    BY CountType DEF One
  <1>2. CASE d = c /\ t = "nothing"
    BY <1>1, <1>2 DEF One
  <1>3. ASSUME NEW event, Grows(d, c, event), event.type = t
        PROVE  Count(d, types) = Count(c, types) + One(t, types)
    BY <1>3, CountGrows
  <1>4. QED BY <1>1, <1>2, <1>3 DEF Writes

\* A step of a service: what it begins it has room for, and what it writes it had begun.
LEMMA BudgetStep ==
    ASSUME IInv, BudgetInv, NEW s \in Services, NEW place, Goes(s, place),
           NEW t, Writes(db', db, t),
           t = "REVISION_CREATED" => Count(db, {"REVISION_CREATED"}) < RevisionBudget,
           place.tool = "revise" => place.row.ordinal <= RevisionBudget,
           \/ t \in Opens /\ place.tool \notin {"task", "probe"}
           \/ t \in Opens /\ place.tool = "task" /\ Count(db, Runs) < RunBudget
           \/ /\ t \in Opens /\ place.tool = "probe" /\ Count(db, Runs) < RunBudget
              /\ Count(db, Experiments) < ExperimentBudget
           \/ t = "REVISION_CREATED" /\ place.tool \notin {"task", "probe"}
           \/ t = "TASK_COMPLETED" /\ at[s].tool = "task" /\ place.tool \notin {"task", "probe"}
           \/ t \in Experiments /\ at[s].tool = "probe" /\ place.tool \notin {"task", "probe"}
    PROVE  BudgetInv'
  <1>1. Moved(at', at, s, place)
    BY DEF Moved, Goes, IInv
  <1>2. Sound(db)
    BY DEF IInv, LedgerOk
  <1>3. /\ Count(db, Runs) \in Nat /\ Count(db', Runs) \in Nat
        /\ Count(db', Runs) = Count(db, Runs) + One(t, Runs)
    BY <1>2, CountWrites DEF Runs
  <1>4. /\ Count(db, Experiments) \in Nat /\ Count(db', Experiments) \in Nat
        /\ Count(db', Experiments) = Count(db, Experiments) + One(t, Experiments)
    BY <1>2, CountWrites DEF Experiments
  <1>5. /\ Count(db, {"REVISION_CREATED"}) \in Nat
        /\ Count(db', {"REVISION_CREATED"}) = Count(db, {"REVISION_CREATED"}) + One(t, {"REVISION_CREATED"})
    BY <1>2, CountWrites
  <1>6. Within(Count(db', Runs), Busy(at', {"task", "probe"}), RunBudget)
    <2>1. \/ Count(db', Runs) < RunBudget
          \/ Count(db', Runs) + One(place.tool, {"task", "probe"})
                <= Count(db, Runs) + One(at[s].tool, {"task", "probe"})
      BY <1>3 DEF One, Runs, Experiments, Opens
    <2>2. QED BY <1>1, <1>3, <2>1, WithinMoves, AutopsyBudgetAssumption DEF BudgetInv
  <1>7. Within(Count(db', Experiments), Busy(at', {"probe"}), ExperimentBudget)
    <2>1. \/ Count(db', Experiments) < ExperimentBudget
          \/ Count(db', Experiments) + One(place.tool, {"probe"})
                <= Count(db, Experiments) + One(at[s].tool, {"probe"})
      BY <1>4 DEF One, Experiments, Opens
    <2>2. QED BY <1>1, <1>4, <2>1, WithinMoves, AutopsyBudgetAssumption DEF BudgetInv
  <1>8. Count(db', {"REVISION_CREATED"}) <= RevisionBudget
    BY <1>5, AutopsyBudgetAssumption DEF One, BudgetInv
  <1>9. \A u \in Services : at'[u].tool = "revise" => at'[u].row.ordinal <= RevisionBudget
    <2>1. at'[s] = place /\ \A u \in Services : u # s => at'[u] = at[u]
      BY <1>1, MoveFacts DEF Moved
    <2>2. QED BY <2>1 DEF BudgetInv
  <1>10. QED BY <1>6, <1>7, <1>8, <1>9 DEF BudgetInv

\* A step that begins nothing that is budgeted and records none of it.
LEMMA BudgetQuiet ==
    ASSUME IInv, BudgetInv, NEW s \in Services, NEW place, Goes(s, place),
           place.tool \notin {"task", "probe", "revise"}, NEW t \in Opens, Writes(db', db, t)
    PROVE  BudgetInv'
  <1>1. t # "REVISION_CREATED"
    BY DEF Opens
  <1>2. QED BY <1>1, BudgetStep

\* The tools count what the ledger has.
LEMMA UsedFacts ==
    ASSUME IInv
    PROVE  RunsUsed = Count(db, Runs) /\ ExperimentsUsed = Count(db, Experiments)
  <1> DEFINE T == Places(db, {"TASK_COMPLETED"})
             E == Places(db, Experiments)
  <1>1. Sound(db)
    BY DEF IInv, LedgerOk
  <1>2. IsFiniteSet(T) /\ IsFiniteSet(E)
    BY <1>1, CountType
  <1>3. T \cap E = {} /\ Places(db, Runs) = T \cup E
    BY DEF Places, Runs, Experiments
  <1>4. Cardinality(T \cup E) = Cardinality(T) + Cardinality(E)
    <2> HIDE DEF T, E
    <2>1. /\ Cardinality(T \cup E) = Cardinality(T) + Cardinality(E) - Cardinality(T \cap E)
          /\ Cardinality(T \cap E) = 0 /\ Cardinality(T) \in Nat /\ Cardinality(E) \in Nat
      BY <1>2, <1>3, FS_Union, FS_EmptySet, FS_CardinalityType
    <2>2. QED BY <2>1
  <1>5. QED BY <1>3, <1>4 DEF RunsUsed, ExperimentsUsed, Count, Experiments

-----------------------------------------------------------------------------
(* The steps *)

LEMMA BudgetInit == Init => BudgetInv
  <1> SUFFICES ASSUME Init PROVE BudgetInv
    OBVIOUS
  <1>1. /\ db.events = <<>> /\ DOMAIN at = Services /\ \A s \in Services : at[s].tool = "down"
    BY DEF Init, NoDatabase, Database, Down
  <1>2. \A types : Places(db, types) = {}
    BY <1>1 DEF Places
  <1>3. Count(db, Runs) = 0 /\ Count(db, Experiments) = 0 /\ Count(db, {"REVISION_CREATED"}) = 0
    BY <1>2, FS_EmptySet DEF Count
  <1>4. Busy(at, {"task", "probe"}) = {} /\ Busy(at, {"probe"}) = {}
    BY <1>1 DEF Busy
  <1>5. Cardinality(Services) \in Nat /\ Cardinality(Services) # 0
    BY ServicesAssumption, FS_CardinalityType, FS_EmptySet
  <1>6. Cardinality({}) = 0
    BY FS_EmptySet
  <1>7. Within(0, {}, RunBudget) /\ Within(0, {}, ExperimentBudget)
    BY <1>5, <1>6, AutopsyBudgetAssumption DEF Within
  <1>8. \A s \in Services : at[s].tool # "revise"
    BY <1>1
  <1>9. QED BY <1>3, <1>4, <1>7, <1>8, AutopsyBudgetAssumption DEF BudgetInv

LEMMA StartBudget ==
    ASSUME IInv, BudgetInv, NEW s \in Services, Start(s)
    PROVE  BudgetInv'
  <1>1. Goes(s, Idle)
    BY DEF Start, Returns
  <1>2. CASE db' = db
    <2>1. Writes(db', db, "nothing") /\ "nothing" \in Opens
      BY <1>2 DEF Writes, Opens
    <2>2. QED BY <1>1, <2>1, IdleFits, BudgetQuiet
  <1>3. CASE db.case = NoCase /\ Commits(CreateCase(db, Source, None))
    <2>1. Sound(db)
      BY DEF IInv, LedgerOk
    <2>2. db = NoDatabase /\ db' = FirstDatabase(Source, None)
      BY <1>3, <2>1, CreateCaseFacts DEF Commits
    <2>3. Grows(db', db, CreationEvent(Source, None))
      BY <2>2, FirstWritten DEF Logs
    <2>4. CreationEvent(Source, None).type = "CASE_CREATED"
      BY DEF CreationEvent, EventRow
    <2>5. Writes(db', db, "CASE_CREATED") /\ "CASE_CREATED" \in Opens
      BY <2>3, <2>4 DEF Writes, Opens
    <2>6. QED BY <1>1, <2>5, IdleFits, BudgetQuiet
  <1>4. QED BY <1>2, <1>3 DEF Start

LEMMA BeginTaskBudget ==
    ASSUME IInv, BudgetInv, NEW s \in Services, BeginTask(s)
    PROVE  BudgetInv'
  <1>1. PICK v \in db.revisions : Goes(s, [tool |-> "task", revision |-> v.id])
    BY DEF BeginTask
  <1> DEFINE place == [tool |-> "task", revision |-> v.id]
  <1>2. Goes(s, place) /\ place.tool = "task"
    BY <1>1
  <1> HIDE DEF place
  <1>3. Writes(db', db, "nothing") /\ "nothing" \in Opens
    BY DEF BeginTask, Writes, Opens
  <1>4. Count(db, Runs) < RunBudget
    BY UsedFacts DEF BeginTask
  <1>5. QED BY <1>2, <1>3, <1>4, BudgetStep

LEMMA EndTaskBudget ==
    ASSUME IInv, BudgetInv, NEW s \in Services, EndTask(s)
    PROVE  BudgetInv'
  <1> DEFINE n == Len(db.events) + 1
             r == at[s].revision
  <1>1. PICK passed \in BOOLEAN :
            Commits(RecordRun(db, [id |-> n, revision |-> r, kind |-> "task", passed |-> passed],
                EventRow(n, r, "TASK_COMPLETED", [run |-> n, passed |-> passed])))
    BY DEF EndTask, Here
  <1> DEFINE run == [id |-> n, revision |-> r, kind |-> "task", passed |-> passed]
             event == EventRow(n, r, "TASK_COMPLETED", [run |-> n, passed |-> passed])
  <1>2. RecordRun(db, run, event).answer = "done" /\ db' = RecordRun(db, run, event).db
    BY <1>1 DEF Commits
  <1>3. Logs(RecordRun(db, run, event).db, db, event)
    BY <1>2, TaskWritten DEF IInv
  <1>4. event.type = "TASK_COMPLETED"
    BY RowFields
  <1> HIDE DEF run, event
  <1>5. Writes(db', db, "TASK_COMPLETED")
    BY <1>2, <1>3, <1>4 DEF Writes, Logs
  <1>6. Goes(s, Idle) /\ at[s].tool = "task"
    BY DEF EndTask, Returns
  <1>7. QED BY <1>5, <1>6, IdleFits, BudgetStep

LEMMA BeginExperimentBudget ==
    ASSUME IInv, BudgetInv, NEW s \in Services, BeginExperiment(s)
    PROVE  BudgetInv'
  <1> DEFINE n == Len(db.events) + 1
  <1>1. PICK v \in db.revisions, suspects \in SUBSET Attributes \ {{}} :
            /\ Tasks(v.id) # {}
            /\ Commits(AppendEvent(db, EventRow(n, v.id, "HYPOTHESIS_RECORDED", [suspects |-> suspects])))
            /\ Goes(s, [tool |-> "probe", revision |-> v.id, hypothesis |-> n])
    BY DEF BeginExperiment, Here
  <1> DEFINE event == EventRow(n, v.id, "HYPOTHESIS_RECORDED", [suspects |-> suspects])
             place == [tool |-> "probe", revision |-> v.id, hypothesis |-> n]
  <1>2. AppendEvent(db, event).answer = "done" /\ db' = AppendEvent(db, event).db
    BY <1>1 DEF Commits
  <1>3. Sound(db)
    BY DEF IInv, LedgerOk
  <1>4. db' = Log(db, event)
    BY <1>2, <1>3, AppendEventFacts
  <1>5. event.type = "HYPOTHESIS_RECORDED"
    BY RowFields
  <1>6. Goes(s, place) /\ place.tool = "probe"
    BY <1>1
  <1> HIDE DEF event, place
  <1>7. Grows(db', db, event)
    BY <1>3, <1>4, LogGrows
  <1>8. Writes(db', db, "HYPOTHESIS_RECORDED") /\ "HYPOTHESIS_RECORDED" \in Opens
    BY <1>5, <1>7 DEF Writes, Opens
  <1>9. Count(db, Runs) < RunBudget /\ Count(db, Experiments) < ExperimentBudget
    BY UsedFacts DEF BeginExperiment
  <1>10. QED BY <1>6, <1>8, <1>9, BudgetStep

LEMMA ExperimentBudgetStep ==
    ASSUME IInv, BudgetInv, NEW s \in Services, at[s].tool = "probe", NEW completed \in BOOLEAN,
           ExperimentRecorded(s, completed), Returns(s)
    PROVE  BudgetInv'
  <1> DEFINE n == Len(db.events) + 1
             r == at[s].revision
             h == at[s].hypothesis
             type == IF completed THEN "EXPERIMENT_COMPLETED" ELSE "EXPERIMENT_FAILED"
             run == [id |-> n, revision |-> r, kind |-> "probe", passed |-> completed]
             event == EventRow(n, r, type, [run |-> n, hypothesis |-> h])
  <1>1. RecordRun(db, run, event).answer = "done" /\ db' = RecordRun(db, run, event).db
    BY DEF ExperimentRecorded, Commits, Here
  <1>2. LedgerOk(db) /\ h \in HypothesisPlaces(db) /\ db.events[h].revision = r
    BY DEF IInv, DoingOk
  <1>3. type \in Experiments /\ type # "REVISION_CREATED"
    BY DEF Experiments
  <1> HIDE DEF type
  <1>4. Logs(RecordRun(db, run, event).db, db, event)
    BY <1>1, <1>2, <1>3, ExperimentWritten DEF Experiments
  <1>5. event.type = type
    BY RowFields
  <1> HIDE DEF run, event
  <1>6. Writes(db', db, type)
    BY <1>1, <1>4, <1>5 DEF Writes, Logs
  <1>7. Goes(s, Idle)
    BY DEF Returns
  <1>8. QED BY <1>3, <1>6, <1>7, IdleFits, BudgetStep

LEMMA BeginRevisionBudget ==
    ASSUME IInv, BudgetInv, NEW s \in Services, BeginRevision(s)
    PROVE  BudgetInv'
  <1> DEFINE base == Revision(db.case.head)
  <1>1. PICK u \in db.runs, x \in Attributes, y \in Values :
            Goes(s, [tool |-> "revise", run |-> u, row |->
                   [id |-> base.ordinal + 1, parent |-> base.id, ordinal |-> base.ordinal + 1,
                    asset |-> Patched(base.asset, x, y),
                    hypothesis |-> Hypothesis(u.id), probe |-> u.id]])
    BY DEF BeginRevision
  <1> DEFINE row == [id |-> base.ordinal + 1, parent |-> base.id, ordinal |-> base.ordinal + 1,
                     asset |-> Patched(base.asset, x, y),
                     hypothesis |-> Hypothesis(u.id), probe |-> u.id]
             place == [tool |-> "revise", run |-> u, row |-> row]
  <1>2. LedgerOk(db) /\ Sound(db) /\ ValidCase(db) /\ Children < RevisionBudget
    BY DEF IInv, LedgerOk, BeginRevision
  <1>3. Goes(s, place) /\ place.tool = "revise" /\ place.row.ordinal = base.ordinal + 1
    BY <1>1
  <1>4. base \in db.revisions /\ base.id = db.case.head
    BY <1>2, HeadRow
  <1> HIDE DEF base, row, place
  <1>5. /\ base.ordinal = Count(db, {"REVISION_CREATED"})
        /\ Children = Count(db, {"REVISION_CREATED"}) + 1 - 1
        /\ Count(db, {"REVISION_CREATED"}) \in Nat
    BY <1>2, <1>4, HeadOrdinal, LineCount, CountType DEF Children, Count, RevisionPlaces
  <1>6. place.row.ordinal <= RevisionBudget
    BY <1>2, <1>3, <1>5, AutopsyBudgetAssumption
  <1>7. Writes(db', db, "nothing") /\ "nothing" \in Opens
    BY DEF BeginRevision, Writes, Opens
  <1>8. QED BY <1>3, <1>6, <1>7, BudgetStep

\* What is committed comes right after the head, so its ordinal counts the line.
LEMMA EndRevisionBudget ==
    ASSUME IInv, BudgetInv, NEW s \in Services, EndRevision(s)
    PROVE  BudgetInv'
  <1> DEFINE n == Len(db.events) + 1
             row == at[s].row
             event == RevisionEvent(n, row, at[s].run)
             o == CommitRevision(db, row, event, row.parent)
  <1>1. IF o.answer = "done" THEN db' = o.db ELSE UNCHANGED db
    BY DEF EndRevision, Here
  <1>2. Goes(s, Idle) /\ at[s].tool = "revise"
    BY DEF EndRevision, Returns
  <1>3. LedgerOk(db) /\ Sound(db) /\ RowOk(row) /\ Caused(db, row) /\ row.ordinal <= RevisionBudget
    BY <1>2 DEF IInv, LedgerOk, DoingOk, BudgetInv
  <1>4. event.type = "REVISION_CREATED"
    BY RowFields DEF RevisionEvent
  <1>5. CASE o.answer = "done"
    <2>1. Logs(o.db, db, event)
      BY <1>3, <1>5, RevisionWritten
    <2>2. CanCommit(db, row, event, row.parent) /\ ValidCase(db)
      BY <1>3, <1>5, CommitRevisionFacts
    <2> HIDE DEF o, event
    <2>3. Writes(db', db, "REVISION_CREATED")
      BY <1>1, <1>4, <1>5, <2>1 DEF Writes, Logs
    <2>4. PICK v \in db.revisions : v.id = db.case.head /\ row.ordinal = v.ordinal + 1
      BY <2>2 DEF CanCommit
    <2>5. v.ordinal = Count(db, {"REVISION_CREATED"}) /\ Count(db, {"REVISION_CREATED"}) \in Nat
      BY <1>3, <2>2, <2>4, HeadOrdinal, CountType DEF Count, RevisionPlaces
    <2>6. Count(db, {"REVISION_CREATED"}) < RevisionBudget
      BY <1>3, <2>4, <2>5, AutopsyBudgetAssumption
    <2>7. QED BY <1>2, <2>3, <2>6, IdleFits, BudgetStep
  <1>6. CASE o.answer # "done"
    <2>1. Writes(db', db, "nothing") /\ "nothing" \in Opens
      BY <1>1, <1>6 DEF Writes, Opens
    <2>2. QED BY <1>2, <2>1, IdleFits, BudgetQuiet
  <1>7. QED BY <1>5, <1>6

LEMMA ReserveBudget ==
    ASSUME IInv, BudgetInv, NEW s \in Services, Reserve(s)
    PROVE  BudgetInv'
  <1> DEFINE n == Len(db.events) + 1
             r == at[s].revision
             o == ReserveQualification(db, r, n, r, Pinned)
             place == [tool |-> "hidden", revision |-> r, attempt |-> n]
  <1>1. \/ o.answer # "refused" /\ db' = o.db
        \/ db' = db
    BY DEF Reserve, Here
  <1>2. PICK p : Goes(s, p) /\ p.tool \in {"hidden", "idle"}
    <2>1. Goes(s, place) \/ Goes(s, Idle)
      BY DEF Reserve, Here, Returns
    <2>2. place.tool = "hidden"
      OBVIOUS
    <2>3. QED BY <2>1, <2>2, IdleFits
  <1>3. LedgerOk(db) /\ Sound(db)
    BY DEF IInv, LedgerOk
  <1>4. \E t \in Opens : Writes(db', db, t)
    <2>1. CASE db' = db
      BY <2>1 DEF Writes, Opens
    <2>2. CASE o.answer # "refused" /\ db' = o.db /\ db' # db
      <3>1. /\ ValidCase(db) /\ db' = Reserved(db, r, n) /\ Sound(Reserved(db, r, n))
            /\ db.case.result = None
        BY <1>3, <2>2, ReserveFacts
      <3>2. Sealed(db', db, r)
        BY <1>3, <3>1, ReservedWritten
      <3>3. Writes(db', db, "QUALIFICATION_RESERVED")
        BY <3>2 DEF Sealed, Writes
      <3>4. QED BY <3>3 DEF Opens
    <2>3. QED BY <1>1, <2>1, <2>2
  <1>5. QED BY <1>2, <1>4, BudgetQuiet

LEMMA DecidesWrites ==
    ASSUME IInv, NEW s \in Services, NEW state \in Terminal, NEW result, Decides(s, state, result)
    PROVE  \E t \in Opens : Writes(db', db, t)
  <1> DEFINE r == at[s].revision
  <1>1. /\ RecordTerminal(db, r, at[s].attempt, state, result).answer = "done"
        /\ db' = RecordTerminal(db, r, at[s].attempt, state, result).db
    BY DEF Decides, Commits
  <1>2. Decided(db', db, r, state, result)
    BY <1>1, ConcludedWritten DEF IInv
  <1>3. PICK event : Grows(db', db, event)
    BY <1>2 DEF Decided
  <1>4. db'.events[Len(db.events) + 1].type \in {"QUALIFICATION_PASSED", "QUALIFICATION_FAILED"}
    BY <1>2 DEF Decided, Endings, Places
  <1>5. event.type \in {"QUALIFICATION_PASSED", "QUALIFICATION_FAILED"}
    BY <1>3, <1>4, GrowsFacts
  <1>6. QED BY <1>3, <1>5 DEF Writes, Opens

LEMMA HiddenBudget ==
    ASSUME IInv, BudgetInv, NEW s \in Services, EndHidden(s) \/ HiddenRaises(s)
    PROVE  BudgetInv'
  <1>1. Goes(s, Idle)
    BY DEF EndHidden, HiddenRaises, Returns
  <1>2. \/ db' = db
        \/ \E state \in Terminal : \E result : Decides(s, state, result)
    BY DEF EndHidden, HiddenRaises, Terminal
  <1>3. \E t \in Opens : Writes(db', db, t)
    BY <1>2, DecidesWrites DEF Writes, Opens
  <1>4. QED BY <1>1, <1>3, IdleFits, BudgetQuiet

\* A tool that ends, or a process that dies, without a record, and the start of verify_revision.
LEMMA UnrecordedBudget ==
    ASSUME IInv, BudgetInv, NEW s \in Services, NEW place, Goes(s, place), db' = db,
           place.tool \notin {"task", "probe", "revise"}
    PROVE  BudgetInv'
  <1>1. Writes(db', db, "nothing") /\ "nothing" \in Opens
    BY DEF Writes, Opens
  <1>2. QED BY <1>1, BudgetQuiet

LEMMA NextBudget == IInv /\ BudgetInv /\ [Next]_vars => BudgetInv'
  <1> SUFFICES ASSUME IInv, BudgetInv, [Next]_vars PROVE BudgetInv'
    OBVIOUS
  <1>1. ASSUME NEW s \in Services, Step(s) PROVE BudgetInv'
    <2>1. CASE EndTask(s)
      BY <2>1, EndTaskBudget
    <2>2. CASE EndExperiment(s)
      BY <2>2, ExperimentBudgetStep DEF EndExperiment
    <2>3. CASE PartialExperiment(s)
      BY <2>3, ExperimentBudgetStep DEF PartialExperiment
    <2>4. CASE EndRevision(s)
      BY <2>4, EndRevisionBudget
    <2>5. CASE FailRecheck(s) \/ FailTool(s)
      BY <2>5, UnrecordedBudget, IdleFits DEF FailRecheck, FailTool, Returns
    <2>6. CASE Reserve(s)
      BY <2>6, ReserveBudget
    <2>7. CASE EndHidden(s) \/ HiddenRaises(s)
      BY <2>7, HiddenBudget
    <2>8. QED BY <1>1, <2>1, <2>2, <2>3, <2>4, <2>5, <2>6, <2>7 DEF Step
  <1>2. ASSUME NEW s \in Services, BeginVerify(s) PROVE BudgetInv'
    <2>1. PICK v \in db.revisions : Goes(s, [tool |-> "recheck", revision |-> v.id])
      BY <1>2 DEF BeginVerify
    <2> DEFINE place == [tool |-> "recheck", revision |-> v.id]
    <2>2. Goes(s, place) /\ place.tool = "recheck" /\ db' = db
      BY <1>2, <2>1 DEF BeginVerify
    <2> HIDE DEF place
    <2>3. QED BY <2>2, UnrecordedBudget
  <1>3. ASSUME NEW s \in Services, Crash(s) PROVE BudgetInv'
    BY <1>3, UnrecordedBudget, IdleFits DEF Crash
  <1>4. CASE db' = db /\ at' = at
    BY <1>4 DEF BudgetInv
  <1>5. CASE UNCHANGED vars
    BY <1>4, <1>5 DEF vars
  <1>6. CASE Next
    <2>1. PICK s \in Services :
              \/ Start(s) \/ BeginTask(s) \/ BeginExperiment(s) \/ BeginRevision(s) \/ BeginVerify(s)
              \/ StoredVerdict(s) \/ Step(s) \/ Crash(s)
      BY <1>6 DEF Next
    <2>2. CASE StoredVerdict(s)
      BY <1>4, <2>2 DEF StoredVerdict
    <2>3. QED BY <1>1, <1>2, <1>3, <2>1, <2>2, StartBudget, BeginTaskBudget, BeginExperimentBudget,
                 BeginRevisionBudget
  <1>7. QED BY <1>5, <1>6

LEMMA BudgetsHold == IInv /\ BudgetInv => BudgetsHeld
  <1> SUFFICES ASSUME IInv, BudgetInv PROVE BudgetsHeld
    OBVIOUS
  <1>1. RunsUsed = Count(db, Runs) /\ ExperimentsUsed = Count(db, Experiments)
    BY UsedFacts
  <1>2. Sound(db) /\ DOMAIN at = Services
    BY DEF IInv, LedgerOk
  <1>3. /\ Count(db, Runs) \in Nat /\ Count(db, Experiments) \in Nat
        /\ Count(db, {"REVISION_CREATED"}) \in Nat
    BY <1>2, CountType
  <1>4. \A tools : Cardinality(Busy(at, tools)) \in Nat
    <2>1. ASSUME NEW tools PROVE IsFiniteSet(Busy(at, tools))
      BY <1>2, ServicesAssumption, FS_Subset DEF Busy
    <2>2. QED BY <2>1, FS_CardinalityType
  <1>5. Cardinality(Services) \in Nat
    BY ServicesAssumption, FS_CardinalityType
  <1>6. /\ RunsUsed <= RunBudget + (Cardinality(DOMAIN at) - 1)
        /\ ExperimentsUsed <= ExperimentBudget + (Cardinality(DOMAIN at) - 1)
    BY <1>1, <1>2, <1>3, <1>4, <1>5, AutopsyBudgetAssumption DEF BudgetInv, Within
  <1>7. db.case # NoCase => Children <= RevisionBudget
    <2>1. SUFFICES ASSUME db.case # NoCase PROVE Children <= RevisionBudget
      OBVIOUS
    <2>2. Cardinality(db.revisions) = Count(db, {"REVISION_CREATED"}) + 1
      BY <1>2, <2>1, SoundFacts, LineCount
    <2>3. QED BY <1>3, <2>2, AutopsyBudgetAssumption DEF Children, BudgetInv
  <1>8. QED BY <1>6, <1>7 DEF BudgetsHeld

\* No budget is overdrawn by one service, however its tools fail, are retried or crash, and each
\* further service on the store overdraws those of runs and experiments by the run it has begun
\* at most; revisions stay in theirs with any number of services (run_task, run_experiment and
\* create_revision).
THEOREM BudgetsHeldAlways == Spec => []BudgetsHeld
  <1>1. Spec => []BudgetInv
    BY Invariant, BudgetInit, NextBudget, PTL DEF Spec
  <1>2. QED BY <1>1, Invariant, BudgetsHold, PTL
=============================================================================
