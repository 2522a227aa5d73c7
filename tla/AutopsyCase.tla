----------------------------- MODULE AutopsyCase -----------------------------
(***************************************************************************)
(* AssetAutopsyService of asset_autopsy/service.py on one EvidenceStore.   *)
(* Each service holds one asyncio lock around a tool, so it runs one tool  *)
(* at a time and is, at the awaits of the runner, at a named place; other  *)
(* services on the same store (another process, the next one after a       *)
(* restart) take their steps in between.  The reads before an await are    *)
(* one step: what they find only the store's transactions check again.     *)
(*                                                                         *)
(* A revision's id is its ordinal, which service.py formats as r001; an    *)
(* event's, a run's and an attempt's is the place in the ledger where it   *)
(* enters, as each is drawn fresh.  An asset is the value of each of its   *)
(* attributes and is its own hash.  Whether a run passes is up to the      *)
(* simulator.                                                              *)
(***************************************************************************)
EXTENDS EvidenceLedger

CONSTANTS Services,
          Attributes, Values,
          Source,             \* the asset of the fixture
          RunBudget, ExperimentBudget, RevisionBudget,
          MaxEvents,          \* bound of the ledger's length
          Faults              \* which faults happen

FaultKinds == {"upstream",   \* the runner fails, or the caller is cancelled while it runs
               "store",      \* a transaction or an object of the store fails
               "crash"}      \* a service's process dies

ASSUME ServicesAssumption == Services # {} /\ IsFiniteSet(Services)
ASSUME OrdinalAssumption == Root = 0       \* the fixture's root is r000, of ordinal 0
ASSUME TypesAssumption ==
    None \notin {"TASK_COMPLETED", "HYPOTHESIS_RECORDED", "EXPERIMENT_COMPLETED", "EXPERIMENT_FAILED"}
ASSUME FaultsAssumption == Faults \subseteq FaultKinds
ASSUME AutopsyBudgetAssumption ==
    RunBudget \in Nat /\ ExperimentBudget \in Nat /\ RevisionBudget \in Nat
ASSUME SourceAssumption == Source \in [Attributes -> Values]

VARIABLES db,        \* the database, see EvidenceLedger
          at,        \* at[s]: what service s does
          suites,    \* the hidden suites that ran: [revision, passed]
          tickets    \* the promotion tickets that clients were given

vars == <<db, at, suites, tickets>>

Pinned == [source |-> Source, commitments |-> None]
Down == [tool |-> "down"]
Idle == [tool |-> "idle"]

Init ==
    /\ db = NoDatabase
    /\ at = [s \in Services |-> Down]
    /\ suites = <<>>
    /\ tickets = {}

-----------------------------------------------------------------------------
(* What the tools read *)

Here == Len(db.events) + 1                 \* the place the next event takes
At(tools) == {s \in DOMAIN at : at[s].tool \in tools}
\* A tool begins when the ledger has room for its events and for those of the tools that run.
Room(n) == Len(db.events) + n + Cardinality(At({"task", "probe", "revise", "recheck", "hidden"}))
              + Cardinality(At({"recheck"})) <= MaxEvents
Revision(r) == CHOOSE v \in db.revisions : v.id = r
Children == Cardinality(db.revisions) - 1

ExperimentsUsed == Cardinality(Places(db, {"EXPERIMENT_COMPLETED", "EXPERIMENT_FAILED"}))
RunsUsed == Cardinality(Places(db, {"TASK_COMPLETED"})) + ExperimentsUsed

Tasks(r) == {i \in Places(db, {"TASK_COMPLETED"}) : db.events[i].revision = r}

\* Mutation of LatestTaskPassed: any task that passed will do.
AnyTaskPassed(r) == \E i \in Tasks(r) : db.events[i].body.passed

\* _latest_task_evaluation
LatestTaskPassed(r) ==
    \E i \in Tasks(r) : (\A j \in Tasks(r) : j <= i) /\ db.events[i].body.passed

\* _causal_experiment: a completed experiment on the base, whose hypothesis suspects the attribute.
Causal(base, run, attribute) ==
    \E u \in db.runs :
        /\ u.id = run /\ u.revision = base /\ u.kind = "probe" /\ u.passed
        /\ \E i \in Places(db, {"EXPERIMENT_COMPLETED"}) :
              /\ db.events[i].body.run = run
              /\ attribute \in db.events[db.events[i].body.hypothesis].body.suspects

Hypothesis(run) ==
    db.events[CHOOSE i \in Places(db, {"EXPERIMENT_COMPLETED"}) : db.events[i].body.run = run].body.hypothesis

\* validate_promotion_acceptance
Accepts(t) ==
    /\ db.case.result = "PASSED"
    /\ db.case.head = t.revision
    /\ Revision(t.revision).asset = t.asset

-----------------------------------------------------------------------------
(* Steps of service s *)

Goes(s, place) == at' = [at EXCEPT ![s] = place]
Returns(s) == Goes(s, Idle)

\* A transaction of the store; o is its outcome.
Commits(o) == o.answer = "done" /\ db' = o.db

\* _provision_demo_case, when a service is built.  A second service finds the case there.
Start(s) ==
    /\ at[s] = Down
    /\ \/ db.case = NoCase /\ Commits(CreateCase(db, Source, None))
       \/ db.case # NoCase /\ ValidCase(db) /\ UNCHANGED db
    /\ Returns(s)
    /\ UNCHANGED <<suites, tickets>>

\* run_task
BeginTask(s) ==
    /\ at[s] = Idle /\ ValidCase(db) /\ Room(1)
    /\ RunsUsed < RunBudget
    /\ \E v \in db.revisions :
          /\ v.parent # None => Tasks(v.parent) # {}
          /\ Goes(s, [tool |-> "task", revision |-> v.id])
    /\ UNCHANGED <<db, suites, tickets>>

EndTask(s) ==
    /\ at[s].tool = "task"
    /\ \E passed \in BOOLEAN :
          LET r == at[s].revision IN
          Commits(RecordRun(db, [id |-> Here, revision |-> r, kind |-> "task", passed |-> passed],
                      EventRow(Here, r, "TASK_COMPLETED", [run |-> Here, passed |-> passed])))
    /\ Returns(s)
    /\ UNCHANGED <<suites, tickets>>

\* Mutation of BeginExperiment: the experiment budget is not checked.
BeginExperimentFreely(s) ==
    /\ at[s] = Idle /\ ValidCase(db) /\ Room(2)
    /\ RunsUsed < RunBudget
    /\ \E v \in db.revisions, suspects \in SUBSET Attributes \ {{}} :
          /\ Tasks(v.id) # {}
          /\ Commits(AppendEvent(db, EventRow(Here, v.id, "HYPOTHESIS_RECORDED", [suspects |-> suspects])))
          /\ Goes(s, [tool |-> "probe", revision |-> v.id, hypothesis |-> Here])
    /\ UNCHANGED <<suites, tickets>>

\* run_experiment: the hypothesis is in the ledger before the experiment runs.
BeginExperiment(s) ==
    /\ at[s] = Idle /\ ValidCase(db) /\ Room(2)
    /\ RunsUsed < RunBudget /\ ExperimentsUsed < ExperimentBudget
    /\ \E v \in db.revisions, suspects \in SUBSET Attributes \ {{}} :
          /\ Tasks(v.id) # {}
          /\ Commits(AppendEvent(db, EventRow(Here, v.id, "HYPOTHESIS_RECORDED", [suspects |-> suspects])))
          /\ Goes(s, [tool |-> "probe", revision |-> v.id, hypothesis |-> Here])
    /\ UNCHANGED <<suites, tickets>>

\* The run of the experiment and its event.
ExperimentRecorded(s, completed) ==
    LET r == at[s].revision
        type == IF completed THEN "EXPERIMENT_COMPLETED" ELSE "EXPERIMENT_FAILED"
    IN Commits(RecordRun(db, [id |-> Here, revision |-> r, kind |-> "probe", passed |-> completed],
                   EventRow(Here, r, type, [run |-> Here, hypothesis |-> at[s].hypothesis])))

\* It ran to its end, or became non-finite: then it failed.
EndExperiment(s) ==
    /\ at[s].tool = "probe"
    /\ \E finite \in BOOLEAN : ExperimentRecorded(s, finite)
    /\ Returns(s)
    /\ UNCHANGED <<suites, tickets>>

\* The runner failed partway: what was completed is kept, and the budget is used.
PartialExperiment(s) ==
    /\ at[s].tool = "probe" /\ "upstream" \in Faults
    /\ ExperimentRecorded(s, FALSE)
    /\ Returns(s)
    /\ UNCHANGED <<suites, tickets>>

\* apply_one_attribute_patch: exactly one attribute changes.
Patched(asset, x, y) == [asset EXCEPT ![x] = y]

\* create_revision; _existing_revision_retry answers a repeated call with the revision it made.
BeginRevision(s) ==
    /\ at[s] = Idle /\ ValidCase(db) /\ Room(1)
    /\ Children < RevisionBudget
    /\ \E u \in db.runs, x \in Attributes, y \in Values :
          LET base == Revision(db.case.head)
              row == [id |-> base.ordinal + 1, parent |-> base.id, ordinal |-> base.ordinal + 1,
                      asset |-> Patched(base.asset, x, y),
                      hypothesis |-> Hypothesis(u.id), probe |-> u.id]
          IN /\ Causal(base.id, u.id, x)
             /\ base.asset[x] # y
             /\ Goes(s, [tool |-> "revise", row |-> row, run |-> u])
    /\ UNCHANGED <<db, suites, tickets>>

\* The patched asset is valid and the revision is committed, or the head has moved on.
EndRevision(s) ==
    /\ at[s].tool = "revise"
    /\ LET row == at[s].row
           o == CommitRevision(db, row, RevisionEvent(Here, row, at[s].run), row.parent)
       IN IF o.answer = "done" THEN db' = o.db ELSE UNCHANGED db
    /\ Returns(s)
    /\ UNCHANGED <<suites, tickets>>

-----------------------------------------------------------------------------
(* verify_revision *)

Qualifies(v) ==
    /\ db.case.head = v.id
    /\ v.ordinal \in 1 .. RevisionBudget
    /\ Children = v.ordinal

BeginVerify(s) ==
    /\ at[s] = Idle /\ ValidCase(db) /\ Room(2)
    /\ \E v \in db.revisions :
          /\ Qualifies(v)
          /\ db.case.result = None
          /\ LatestTaskPassed(v.id)
          /\ Goes(s, [tool |-> "recheck", revision |-> v.id])
    /\ UNCHANGED <<db, suites, tickets>>

\* The public recheck did not pass.
FailRecheck(s) ==
    /\ at[s].tool = "recheck"
    /\ Returns(s)
    /\ UNCHANGED <<db, suites, tickets>>

\* It passed: the qualification is reserved and the hidden suite starts, or another took it.
Reserve(s) ==
    /\ at[s].tool = "recheck"
    /\ LET r == at[s].revision
           o == ReserveQualification(db, r, Here, r, Pinned)
       IN \/ /\ o.answer # "refused" /\ db' = o.db
             /\ \/ Goes(s, [tool |-> "hidden", revision |-> r, attempt |-> Here])
                \/ "store" \in Faults /\ Returns(s)      \* the ledger cannot be read back
          \/ /\ o.answer = "refused"
             /\ Returns(s) /\ UNCHANGED db
    /\ UNCHANGED <<suites, tickets>>

Ticket(r) == [revision |-> r, asset |-> Revision(r).asset]

\* The terminal transaction of the attempt that s holds.
Decides(s, state, result) ==
    Commits(RecordTerminal(db, at[s].revision, at[s].attempt, state, result))

\* Mutation of EndHidden: the ticket does not wait for the verdict to be stored.
EndHiddenTicketFirst(s) ==
    /\ at[s].tool = "hidden"
    /\ \E passed \in BOOLEAN :
          LET t == IF passed THEN Ticket(at[s].revision) ELSE None IN
          /\ suites' = Append(suites, [revision |-> at[s].revision, passed |-> passed])
          /\ tickets' = tickets \cup ({t} \ {None})
          /\ \/ Decides(s, IF passed THEN "PASSED" ELSE "FAILED", [ticket |-> t])
             \/ "store" \in Faults /\ UNCHANGED db
    /\ Returns(s)

\* The hidden suite gave its verdict.  When its artifact or the terminal event cannot be
\* stored, the attempt stays RUNNING.
EndHidden(s) ==
    /\ at[s].tool = "hidden"
    /\ \E passed \in BOOLEAN :
          LET t == IF passed THEN Ticket(at[s].revision) ELSE None IN
          /\ suites' = Append(suites, [revision |-> at[s].revision, passed |-> passed])
          /\ \/ /\ Decides(s, IF passed THEN "PASSED" ELSE "FAILED", [ticket |-> t])
                /\ tickets' = tickets \cup ({t} \ {None})
             \/ "store" \in Faults /\ UNCHANGED <<db, tickets>>
    /\ Returns(s)

\* Mutation of HiddenRaises: an interrupted suite is left as it is.
HiddenRaisesSilently(s) ==
    /\ at[s].tool = "hidden" /\ "upstream" \in Faults
    /\ suites' = Append(suites, [revision |-> at[s].revision, passed |-> FALSE])
    /\ Returns(s)
    /\ UNCHANGED <<db, tickets>>

\* The hidden suite raises, or its caller is cancelled: the attempt has failed.
HiddenRaises(s) ==
    /\ at[s].tool = "hidden" /\ "upstream" \in Faults
    /\ suites' = Append(suites, [revision |-> at[s].revision, passed |-> FALSE])
    /\ Decides(s, "FAILED", None) \/ ("store" \in Faults /\ UNCHANGED db)
    /\ Returns(s)
    /\ UNCHANGED tickets

\* _stored_qualification_output: a repeated call gets the stored verdict, and its ticket.
StoredVerdict(s) ==
    /\ at[s] = Idle /\ ValidCase(db)
    /\ db.case.result \in Terminal
    /\ Qualifies(Revision(db.case.judged))
    /\ StoredResult(db) # None
    /\ tickets' = tickets \cup ({StoredResult(db).ticket} \ {None})
    /\ UNCHANGED <<db, at, suites>>

-----------------------------------------------------------------------------
(* Faults *)

\* The runner or a store call fails, or the caller is cancelled, before the tool's
\* transaction: nothing is recorded.  The hypothesis of an experiment stays.
FailTool(s) ==
    /\ at[s].tool \in {"task", "probe", "revise", "recheck"}
    /\ "upstream" \in Faults
    /\ Returns(s)
    /\ UNCHANGED <<db, suites, tickets>>

Crash(s) ==
    /\ "crash" \in Faults
    /\ at[s].tool \in {"task", "probe", "revise", "recheck", "hidden"}
    /\ Goes(s, Down)
    /\ suites' = IF at[s].tool = "hidden"
                 THEN Append(suites, [revision |-> at[s].revision, passed |-> FALSE]) ELSE suites
    /\ UNCHANGED <<db, tickets>>

-----------------------------------------------------------------------------

Step(s) ==
    \/ EndTask(s) \/ EndExperiment(s) \/ PartialExperiment(s) \/ EndRevision(s)
    \/ FailRecheck(s) \/ Reserve(s)
    \/ EndHidden(s) \/ HiddenRaises(s) \/ FailTool(s)

Next == \E s \in Services :
    \/ Start(s)
    \/ BeginTask(s) \/ BeginExperiment(s) \/ BeginRevision(s) \/ BeginVerify(s)
    \/ StoredVerdict(s)
    \/ Step(s)
    \/ Crash(s)

Spec == Init /\ [][Next]_vars

\* The runner answers or times out, so a tool that waits for it goes on.
Fairness == \A s \in Services : WF_vars(Step(s))

FairSpec == Spec /\ Fairness

-----------------------------------------------------------------------------
(* Properties *)

\* The type invariant.
TypeOK ==
    /\ db.case # NoCase => ValidCase(db)
    /\ DOMAIN at = At({"down", "idle", "task", "probe", "revise", "recheck", "hidden"})
    /\ \A i \in DOMAIN suites : suites[i] \in [revision : Nat, passed : BOOLEAN]
    /\ tickets \subseteq {Ticket(v.id) : v \in db.revisions}

\* The budgets of the documentation's table.  A budget is checked when a run begins and used
\* when it ends, so each further service on the store may overdraw it by the run it has begun.
BudgetsHeld ==
    LET more == Cardinality(DOMAIN at) - 1 IN
    /\ RunsUsed <= RunBudget + more
    /\ ExperimentsUsed <= ExperimentBudget + more
    /\ db.case # NoCase => Children <= RevisionBudget

\* The hidden suite runs at most once for a case, whatever is retried, cancelled, restarted,
\* or called by other services; even an attempt that a crash left RUNNING is not repeated.
HiddenOnce ==
    Len(suites) + Cardinality(At({"hidden"})) <= 1

\* The causal order behind each revision: its parent was measured by the public task, then a
\* hypothesis named an attribute, then an experiment for that hypothesis was completed on the
\* parent, and the revision changes that attribute and no other.
CausalOrder ==
    \A k \in RevisionPlaces(db) :
        LET v == db.events[k].body.row
            parent == Revision(v.parent)
        IN \E b \in Tasks(parent.id), h \in Places(db, {"HYPOTHESIS_RECORDED"}),
              e \in Places(db, {"EXPERIMENT_COMPLETED"}) :
              /\ b < h /\ h < e /\ e < k
              /\ db.events[h].revision = parent.id /\ db.events[e].revision = parent.id
              /\ db.events[e].body.run = v.probe /\ db.events[e].body.hypothesis = h
              /\ \E x \in db.events[h].body.suspects :
                    \A y \in DOMAIN v.asset : v.asset[y] # parent.asset[y] <=> y = x

\* A revision is only qualified when the last public task before the reservation passed.
\* The reservation does not read it again, so this is a matter of one service.
ReservedOnPass == Cardinality(DOMAIN at) = 1 =>
    \A q \in Places(db, {"QUALIFICATION_RESERVED"}) :
        LET before == {i \in Tasks(db.events[q].revision) : i < q} IN
        \E i \in before : (\A j \in before : j <= i) /\ db.events[i].body.passed

\* A ticket a client holds was earned by the hidden suite and is accepted from then on:
\* no later call, retry, failure or restart takes it back.
TicketsStand ==
    \A t \in tickets :
        /\ Accepts(t)
        /\ \E i \in DOMAIN suites : suites[i] = [revision |-> t.revision, passed |-> TRUE]

\* The qualification is reserved and has no verdict yet.
Undecided == db.case.result = "RUNNING"

\* A tool waits for the runner or the store.
Waits(s) == s \notin At({"idle", "down"})

\* Evidence comes before what it is evidence for: the causal order of each revision, and a
\* public task that passed before a reservation.
EvidenceInOrder == TypeOK /\ CausalOrder /\ ReservedOnPass

\* One suite, one verdict: the hidden suite runs once at most, and its ticket stands.
OneSuite == HiddenOnce /\ TicketsStand
=============================================================================
