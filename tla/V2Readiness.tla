------------------------------ MODULE V2Readiness ------------------------------
(***************************************************************************)
(* What the server derives from a specification of character_robot/v2:     *)
(* the readiness of every domain (contract.py) and the result of a write   *)
(* (service.py).  A write whose result is not valid is refused before it   *)
(* is stored, so the derivation must be total on the valid specifications. *)
(*                                                                         *)
(* A text is a sequence of letters; TextLimit is SAFE_TEXT_MAX_LENGTH less *)
(* the longest prefix and suffix, MaxItems is _MAX_TEXT_COLLECTION_ITEMS.  *)
(* The records of a specification are a function of the domain.            *)
(***************************************************************************)
EXTENDS Integers, SequencesExt

CONSTANTS Domains,        \* READINESS_DOMAINS but "requirements", in their order
          Texts,          \* the texts of a blocker, a question or an unknown
          TextLimit,      \* a natural number
          MaxItems,       \* at least 1
          Digests,        \* of a domain's record
          Heads, HeadDigests, DraftDigests,
          None

\* _tuple_of_text: at most MaxItems texts, no two alike.
Collections == {t \in UNION {[1 .. n -> Texts] : n \in 0 .. MaxItems} : IsInjective(t)}

\* Of the unknowns only whether there are any is looked at.
DomainRecords == [digest : Digests \cup {None}, blockers : Collections, unknowns : BOOLEAN]

\* Both or neither of id and digest.
HeadPairs(digests) == {[id |-> None, digest |-> None]} \cup [id : Heads, digest : digests]

AllDomains == <<"requirements">> \o Domains

\* A domain record may name the requirements, too; only whether it changes is looked at.
IdleRecords == [digest : Digests, blockers : {<<>>}, unknowns : {FALSE}]

DomainMaps ==
    {[d \in ToSet(AllDomains) |-> IF d = "requirements" THEN idle ELSE records[d]] :
        idle \in IdleRecords \cup {None}, records \in [ToSet(Domains) -> DomainRecords \cup {None}]}

Specs == [questions : Collections, domains : DomainMaps,
          committed : HeadPairs(HeadDigests), draft : HeadPairs(DraftDigests)]

-----------------------------------------------------------------------------
(* derive_readiness *)

DomainState(record) ==
    IF record = None THEN "missing"
    ELSE IF record.blockers # <<>> THEN "blocked"
    ELSE IF record.digest = None THEN "missing"
    ELSE IF record.unknowns THEN "blocked" ELSE "dirty"

Readiness(s) ==
    [d \in ToSet(AllDomains) |->
        IF d = "requirements"
        THEN [state |-> IF s.questions # <<>> THEN "blocked" ELSE "checked", blockers |-> s.questions]
        ELSE [state |-> DomainState(s.domains[d]),
              blockers |-> IF s.domains[d] = None THEN <<>> ELSE s.domains[d].blockers]]

DesignComplete(ready) == \A d \in DOMAIN ready : ready[d].state = "checked"

-----------------------------------------------------------------------------
(* The result of a write *)

Cut(text) == SubSeq(text, 1, IF Len(text) < TextLimit THEN Len(text) ELSE TextLimit)

\* A blocker as the result shows it: its domain, its text up to the limit, and its place.
Numbered(d, blockers, i) == <<d, Cut(blockers[i]), i, Len(blockers)>>

\* Mutation of BlockersOf: a domain that is blocked by what is unknown shows no blocker.
BlockersOfListed(d, ready) ==
    IF ready.state = "blocked" THEN [i \in DOMAIN ready.blockers |-> Numbered(d, ready.blockers, i)]
    ELSE IF ready.state \in {"missing", "dirty"} THEN << <<d, ready.state>> >> ELSE <<>>

BlockersOf(d, ready) ==
    IF ready.state = "checked" THEN <<>>
    ELSE IF ready.blockers # <<>> /\ ready.state = "blocked"
         THEN [i \in DOMAIN ready.blockers |-> Numbered(d, ready.blockers, i)]
         ELSE << <<d, ready.state>> >>

ActionsOf(d, ready) ==
    IF ready.state = "blocked" THEN << <<"resolve", d>> >>
    ELSE IF ready.state \in {"missing", "dirty"} THEN << <<"complete", d>> >> ELSE <<>>

\* _changed_entities
Changed(s, t) ==
    SelectSeq(AllDomains, LAMBDA d : s.domains[d] # t.domains[d])
    \o (IF s.committed.id # t.committed.id THEN <<"committed_head">> ELSE <<>>)
    \o (IF s.committed.digest # t.committed.digest THEN <<"committed_head_digest">> ELSE <<>>)
    \o (IF s.draft.id # t.draft.id THEN <<"active_draft">> ELSE <<>>)
    \o (IF s.draft.digest # t.draft.digest THEN <<"active_draft_digest">> ELSE <<>>)

\* _changed_domains
Invalidated(s, t) == SelectSeq(AllDomains, LAMBDA d : s.domains[d] # t.domains[d])

\* _readiness_actions and the WriteResult of a write of t over s.
Result(s, t) ==
    LET ready == Readiness(t)
    IN  [answer   |-> "done",
         blockers |-> FlattenSeq([i \in DOMAIN AllDomains |-> BlockersOf(AllDomains[i], ready[AllDomains[i]])]),
         actions  |-> FlattenSeq([i \in DOMAIN AllDomains |-> ActionsOf(AllDomains[i], ready[AllDomains[i]])]),
         changed  |-> Changed(s, t),
         invalidated |-> Invalidated(s, t)]

\* WriteResult.validate_output_collections
ValidOutput(output) == IsInjective(output) /\ Len(output) <= Len(AllDomains) * MaxItems

-----------------------------------------------------------------------------
(* A project whose specification is written again and again *)

VARIABLES spec, result

vars == <<spec, result>>

Init ==
    /\ spec \in {s \in Specs : /\ s.domains = [d \in ToSet(AllDomains) |-> None]
                               /\ s.committed.id = None /\ s.draft.id = None}
    /\ result = [answer |-> "none"]

Valid(r) == ValidOutput(r.blockers) /\ ValidOutput(r.actions)

\* write_project: the requirements stay; an invalid result stores nothing.
Write ==
    \E domains \in DomainMaps, committed \in HeadPairs(HeadDigests), draft \in HeadPairs(DraftDigests) :
        LET next == [questions |-> spec.questions, domains |-> domains, committed |-> committed, draft |-> draft]
            r == Result(spec, next)
        IN IF Valid(r) THEN spec' = next /\ result' = r ELSE UNCHANGED spec /\ result' = [answer |-> "refused"]

Next == Write

Spec == Init /\ [][Next]_vars

-----------------------------------------------------------------------------
(* Properties *)

\* The type invariant, and the two derivations of what changed agree on the domains.
TypeOK ==
    /\ spec \in Specs
    /\ result.answer = "done" => ToSet(result.invalidated) = ToSet(result.changed) \cap ToSet(AllDomains)

\* No valid specification is refused for what the server derives from it: however many blockers
\* and however alike their texts are once cut, the result fits.
NeverRefused == result.answer # "refused"

HasResult == result.answer = "done"

\* Nothing in the way is hidden: a domain that is not checked shows a blocker and an action of
\* its own, a checked one neither.
NothingHidden ==
    HasResult => \A d \in ToSet(AllDomains) :
        LET open == Readiness(spec)[d].state # "checked"
        IN /\ open <=> \E i \in DOMAIN result.blockers : result.blockers[i][1] = d
           /\ open <=> \E i \in DOMAIN result.actions : result.actions[i][2] = d

\* No sequence of writes completes a design: the shell has no check of its own, and a digest is
\* identity only.
NoSelfPromotion == ~DesignComplete(Readiness(spec))

\* The derivation is total and honest: never refused, nothing hidden, nothing completed by itself.
Derived == TypeOK /\ NeverRefused /\ NothingHidden /\ NoSelfPromotion
=============================================================================
