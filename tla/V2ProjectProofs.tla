----------------------------- MODULE V2ProjectProofs -----------------------------
(***************************************************************************)
(* Proofs about V2Project, for every set of clients, ids, requirements,    *)
(* heads and contents and all bounds.                                      *)
(***************************************************************************)
EXTENDS V2Project, FiniteSetTheorems, TLAPS

Changes == [requirements : Requirements] \cup [head : Heads] \cup [content : Contents]

Creations == [kind : {"create"}, id : Ids, requirements : Requirements]
Writes == [kind : {"write"}, id : Ids, saw : Snapshots, change : Changes, given : {"spec", "update"}]

Answers == {"done", "storage", "unsupported", "exists", "not found", "invalid", "immutable", "stale"}

\* What a call is at each of its places.
Creating == [at : {"create look", "create again", "create"}, request : Creations]
Loading == [at : {"load"}, request : Writes]
Saving == [at : {"save look", "save"}, request : Writes, candidate : Snapshots]
Ended == [at : {"answered"}, answer : Answers, request : Creations \cup Writes]
Calls == {Idle} \cup Creating \cup Loading \cup Saving \cup Ended

Owners == {<<"V1">>} \cup {<<"V2", c>> : c \in Clients}

Types ==
    /\ legacy \in SUBSET Ids
    /\ rows \in [Ids -> Snapshots \cup {None}]
    /\ guards \in BOOLEAN
    /\ damaged \in SUBSET Ids
    /\ call \in [Clients -> Calls]
    /\ seen \in [Clients -> Views \cup {None}]
    /\ effects \in [Clients -> Nat]
    /\ owners \in [Ids -> SUBSET Owners]
    /\ faults \in Nat

\* V2's rows come with the triggers, and each id with one version, one owner.
Guarded ==
    /\ \A id \in Ids : rows[id] # None => guards
    /\ \A id \in legacy : rows[id] = None
    /\ guards => \E id \in Ids : rows[id] # None
    /\ \A id \in damaged : rows[id] # None

Owned == \A id \in Ids : \/ owners[id] = {}
                         \/ (id \in legacy \/ rows[id] # None) /\ \E v : owners[id] = {v}

\* What was once read of a project is what is there, or older.
Former(s, row) == /\ row # None
                  /\ s.generation <= row.generation
                  /\ s.generation = row.generation => s = row

Known ==
    /\ \A c \in Clients : seen[c] # None => Former(seen[c].project, rows[seen[c].id])
    /\ \A c \in Clients : call[c] # Idle /\ call[c].request.kind = "write" => Former(call[c].request.saw, rows[Id(c)])

\* A request that was committed cannot be again.
Spent ==
    \A c \in Clients :
        /\ effects[c] <= 1
        /\ effects[c] = 1 /\ call[c] # Idle =>
              /\ rows[Id(c)] # None
              /\ call[c].request.kind = "write" => rows[Id(c)].generation > call[c].request.saw.generation

IInv == Types /\ Guarded /\ Owned /\ Known /\ Spent

-----------------------------------------------------------------------------
(* Every step is of one of seven kinds *)

\* A client sends a new request; a write is of what it has seen.
Asked(c, k) ==
    /\ call' = [call EXCEPT ![c] = k] /\ k # Idle
    /\ k.request.kind = "write" => /\ seen[c] # None /\ k.request.id = seen[c].id
                                   /\ k.request.saw = seen[c].project
    /\ effects' = [effects EXCEPT ![c] = 0]
    /\ UNCHANGED <<legacy, rows, guards, damaged, seen, owners, faults>>

\* A call goes on, is answered, or its answer is taken.
Moved(c, k) ==
    /\ call' = [call EXCEPT ![c] = k]
    /\ k = Idle \/ (call[c] # Idle /\ k # Idle /\ k.request = call[c].request)
    /\ faults' \in Nat
    /\ UNCHANGED <<legacy, rows, guards, damaged, seen, effects, owners>>

\* A commit is answered, or that fails.
Committed(c, k) ==
    /\ call' = [call EXCEPT ![c] = k]
    /\ call[c] # Idle /\ k # Idle /\ k.request = call[c].request
    /\ effects' = [effects EXCEPT ![c] = @ + 1]
    /\ faults' \in Nat

Created(c, k) ==
    /\ Committed(c, k)
    /\ call[c].request \in Creations /\ MayInsert(Id(c))
    /\ rows' = [rows EXCEPT ![Id(c)] = New(c)] /\ guards' = TRUE
    /\ owners' = owners \/ owners' = [owners EXCEPT ![Id(c)] = @ \cup {<<"V2", c>>}]
    /\ UNCHANGED <<legacy, damaged, seen>>

Saved(c, k, next) ==
    /\ Committed(c, k)
    /\ At(c, "save") /\ call[c].request \in Writes /\ Readable(Id(c))
    /\ next \in Snapshots
    /\ rows[Id(c)].generation = call[c].request.saw.generation
    /\ next.generation = rows[Id(c)].generation + 1
    /\ next.requirements = rows[Id(c)].requirements
    /\ rows' = [rows EXCEPT ![Id(c)] = next]
    /\ seen' = seen \/ seen' = [seen EXCEPT ![c] = [id |-> Id(c), project |-> next]]
    /\ UNCHANGED <<legacy, guards, damaged, owners>>

OfAKind ==
    \/ \E id \in Ids : V1Create(id)
    \/ \E c \in Clients, k \in Calls : Asked(c, k) \/ Moved(c, k) \/ Created(c, k)
    \/ \E c \in Clients, k \in Calls, next \in Snapshots : Saved(c, k, next)
    \/ \E c \in Clients : Read(c)
    \/ Damage

-----------------------------------------------------------------------------
(* What the actions are made of *)

LEMMA NewType ==
    ASSUME NEW c \in Clients, call[c].request \in Creations
    PROVE  New(c) \in Snapshots /\ New(c) # None /\ New(c).generation = 0
  BY BoundAssumption, NoneAssumption DEF New, Snapshots, Creations

LEMMA CandidateType ==
    ASSUME NEW request \in Writes, NEW s \in Snapshots
    PROVE  Candidate(request, s) \in Snapshots /\ Candidate(request, s).generation = s.generation
  <1> DEFINE base == IF request.given = "spec" THEN request.saw ELSE s
             next == Candidate(request, s)
  <1>1. base \in Snapshots /\ request.change \in Changes
    BY DEF Writes
  <1>2. DOMAIN s = {"generation", "requirements", "head", "content"}
    BY DEF Snapshots
  <1>3. next = [f \in {"generation", "requirements", "head", "content"} |->
                  IF f = "generation" THEN s.generation
                  ELSE IF f \in DOMAIN request.change THEN request.change[f] ELSE base[f]]
    BY <1>2 DEF Candidate
  <1>4. /\ "requirements" \in DOMAIN request.change => request.change["requirements"] \in Requirements
        /\ "head" \in DOMAIN request.change => request.change["head"] \in Heads
        /\ "content" \in DOMAIN request.change => request.change["content"] \in Contents
    BY <1>1 DEF Changes
  <1>5. /\ next.generation = s.generation
        /\ next.requirements \in Requirements
        /\ next.head \in Heads \cup {None}
        /\ next.content \in Contents \cup {None}
    BY <1>1, <1>3, <1>4 DEF Snapshots
  <1>6. next = [generation |-> next.generation, requirements |-> next.requirements,
                head |-> next.head, content |-> next.content]
    BY <1>3
  <1>7. s.generation \in 0 .. MaxGeneration
    BY DEF Snapshots
  <1>8. next \in Snapshots
    BY <1>5, <1>6, <1>7 DEF Snapshots
  <1>9. QED BY <1>5, <1>8

\* Each place has its set, by which the fields of a call are known.
LEMMA Shape ==
    ASSUME Types, NEW c \in Clients
    PROVE  /\ call[c] \in Calls
           /\ call[c] # Idle => call[c].request \in Creations \cup Writes
           /\ At(c, "idle") <=> call[c] = Idle
           /\ At(c, "create look") \/ At(c, "create again") \/ At(c, "create") =>
                 call[c] \in Creating /\ call[c].request \in Creations
           /\ At(c, "load") => call[c] \in Loading /\ call[c].request \in Writes
           /\ At(c, "save look") \/ At(c, "save") =>
                 call[c] \in Saving /\ call[c].request \in Writes /\ call[c].candidate \in Snapshots
  <1> DEFINE k == call[c]
  <1>1. \/ k = Idle
        \/ k \in Creating /\ k.at \in {"create look", "create again", "create"} /\ k.request \in Creations
        \/ k \in Loading /\ k.at = "load" /\ k.request \in Writes
        \/ k \in Saving /\ k.at \in {"save look", "save"} /\ k.request \in Writes /\ k.candidate \in Snapshots
        \/ k.at = "answered" /\ k.request \in Creations \cup Writes
    BY DEF Types, Calls, Creating, Loading, Saving, Ended
  <1>2. Idle.at = "idle"
    BY DEF Idle
  <1>3. k \in Calls
    BY DEF Types
  <1> HIDE DEF k
  <1>4. /\ k # Idle => k.request \in Creations \cup Writes
        /\ k.at = "idle" <=> k = Idle
        /\ k.at \in {"create look", "create again", "create"} => k \in Creating /\ k.request \in Creations
        /\ k.at = "load" => k \in Loading /\ k.request \in Writes
        /\ k.at \in {"save look", "save"} => k \in Saving /\ k.request \in Writes /\ k.candidate \in Snapshots
    BY <1>1, <1>2
  <1>5. QED BY <1>3, <1>4 DEF k, At

\* The id of a call, and the kinds of requests are apart.
LEMMA RequestType ==
    /\ \A q \in Creations : q.id \in Ids /\ q.requirements \in Requirements /\ q.kind = "create" /\ q \notin Writes
    /\ \A q \in Writes : q.id \in Ids /\ q.saw \in Snapshots /\ q.kind = "write" /\ q \notin Creations
  BY DEF Creations, Writes

\* What an answer leaves of a call.
LEMMA AnswerMoves ==
    ASSUME Types, NEW c \in Clients, NEW answer \in Answers, call[c] # Idle, Answered(c, answer)
    PROVE  \E k \in Calls : /\ call' = [call EXCEPT ![c] = k]
                            /\ k # Idle /\ k.request = call[c].request
  <1> DEFINE k == [at |-> "answered", answer |-> answer, request |-> call[c].request]
  <1>1. k \in Calls
    <2>1. k \in Ended
      BY Shape DEF Ended
    <2>2. QED BY <2>1 DEF Calls
  <1>2. k # Idle
    BY DEF Idle
  <1>3. call' = [call EXCEPT ![c] = k]
    BY DEF Answered, Types
  <1>4. QED BY <1>1, <1>2, <1>3

\* A move of one client to a call on the same request is a kind of step.
LEMMA MoveIsKind ==
    ASSUME Types, NEW c \in Clients, NEW k \in Calls, call[c] # Idle, k # Idle, k.request = call[c].request,
           call' = [call EXCEPT ![c] = k], Quiet
    PROVE  OfAKind
  BY DEF Moved, Quiet, Types, OfAKind

LEMMA AnswerIsKind ==
    ASSUME Types, NEW c \in Clients, NEW answer \in Answers, call[c] # Idle, Answered(c, answer), Quiet
    PROVE  OfAKind
  BY AnswerMoves, MoveIsKind

LEMMA LookIsKind ==
    ASSUME Types, NEW c \in Clients, NEW here, NEW next, Look(c, here, next),
           \/ here = "create look" /\ next = "create again"
           \/ here = "create again" /\ next = "create"
           \/ here = "save look" /\ next = "save"
    PROVE  OfAKind
  <1>1. call[c] # Idle /\ Quiet /\ call[c].at = here
    BY Shape DEF Look, At
  <1>2. CASE Answered(c, "unsupported")
    BY <1>1, <1>2, AnswerIsKind DEF Answers
  <1>3. CASE Goes(c, next)
    <2> DEFINE k == [call[c] EXCEPT !.at = next]
    <2>1. k \in Calls /\ k # Idle /\ k.request = call[c].request
      <3>1. CASE here = "save look"
        <4>1. call[c] \in Saving /\ next = "save"
          BY <1>1, <3>1, Shape DEF At
        <4>2. k \in Saving /\ k.at = "save" /\ k.request = call[c].request
          BY <4>1 DEF Saving
        <4>3. QED BY <4>2 DEF Calls, Idle
      <3>2. CASE here # "save look"
        <4>1. call[c] \in Creating /\ next \in {"create again", "create"}
          BY <1>1, <3>2, Shape DEF At
        <4>2. k \in Creating /\ k.at = next /\ k.request = call[c].request
          BY <4>1 DEF Creating
        <4>3. QED BY <4>1, <4>2 DEF Calls, Idle
      <3>3. QED BY <3>1, <3>2
    <2>2. call' = [call EXCEPT ![c] = k]
      BY <1>3 DEF Goes
    <2>3. QED BY <1>1, <2>1, <2>2, MoveIsKind
  <1>4. QED BY <1>2, <1>3 DEF Look

LEMMA StartCreateIsKind ==
    ASSUME Types, NEW c \in Clients, StartCreate(c)
    PROVE  OfAKind
  <1>1. PICK id \in Ids, r \in Requirements :
            call' = [call EXCEPT ![c] = [at |-> "create look", request |-> [kind |-> "create", id |-> id, requirements |-> r]]]
    BY DEF StartCreate
  <1> DEFINE k == [at |-> "create look", request |-> [kind |-> "create", id |-> id, requirements |-> r]]
  <1>2. k \in Calls /\ k # Idle /\ k.request.kind # "write"
    <2>1. k.request \in Creations
      BY DEF Creations
    <2>2. k \in Creating
      BY <2>1 DEF Creating
    <2>3. QED BY <2>2 DEF Calls, Idle
  <1>3. Asked(c, k)
    BY <1>1, <1>2 DEF Asked, StartCreate
  <1>4. QED BY <1>2, <1>3 DEF OfAKind

LEMMA StartWriteIsKind ==
    ASSUME Types, NEW c \in Clients, StartWrite(c)
    PROVE  OfAKind
  <1>1. PICK change \in Changes, given \in {"spec", "update"} :
            call' = [call EXCEPT ![c] = [at |-> "load", request |->
                [kind |-> "write", id |-> seen[c].id, saw |-> seen[c].project, change |-> change, given |-> given]]]
    BY DEF StartWrite, Changes
  <1> DEFINE q == [kind |-> "write", id |-> seen[c].id, saw |-> seen[c].project, change |-> change, given |-> given]
             k == [at |-> "load", request |-> q]
  <1>2. seen[c] \in Views /\ seen[c] # None
    BY DEF Types, StartWrite
  <1>3. q \in Writes
    BY <1>2 DEF Writes, Views
  <1>4. k \in Calls /\ k # Idle
    <2>1. k \in Loading
      BY <1>3 DEF Loading
    <2>2. QED BY <2>1 DEF Calls, Idle
  <1>5. Asked(c, k)
    BY <1>1, <1>2, <1>4 DEF Asked, StartWrite
  <1>6. QED BY <1>4, <1>5 DEF OfAKind

LEMMA CreateIsKind ==
    ASSUME Types, NEW c \in Clients, Create(c)
    PROVE  OfAKind
  <1>1. call[c] # Idle /\ call[c].request \in Creations
    BY Shape DEF Create, At, Idle
  <1>2. CASE Quiet
    <2>1. PICK answer \in {"unsupported", "exists"} : Answered(c, answer)
      <3>1. Id(c) \in Ids
        BY <1>1, RequestType DEF Id
      <3>2. effects'[c] = effects[c]
        BY <1>2 DEF Quiet
      <3>3. effects[c] + 1 # effects[c]
        BY DEF Types
      <3>4. effects' # [effects EXCEPT ![c] = @ + 1]
        BY <3>2, <3>3 DEF Types
      <3>5. Answered(c, IF Id(c) \in legacy THEN "unsupported" ELSE "exists")
        BY <3>4 DEF Create
      <3>6. QED BY <3>5
    <2>2. QED BY <1>1, <1>2, <2>1, AnswerIsKind DEF Answers
  <1>3. CASE ~Quiet
    <2>1. /\ MayInsert(Id(c))
          /\ rows' = [rows EXCEPT ![Id(c)] = New(c)] /\ guards' = TRUE
          /\ effects' = [effects EXCEPT ![c] = @ + 1]
          /\ UNCHANGED <<legacy, damaged, seen>>
          /\ owners' = owners \/ owners' = [owners EXCEPT ![Id(c)] = @ \cup {<<"V2", c>>}]
          /\ faults' \in Nat
      BY <1>3 DEF Create, CloseFails, Types
    <2>2. PICK answer \in {"done", "storage"} : Answered(c, answer)
      BY <1>3 DEF Create
    <2>3. PICK k \in Calls : call' = [call EXCEPT ![c] = k] /\ k # Idle /\ k.request = call[c].request
      BY <1>1, <2>2, AnswerMoves DEF Answers
    <2>4. Created(c, k)
      BY <1>1, <2>1, <2>3 DEF Created, Committed
    <2>5. QED BY <2>4 DEF OfAKind
  <1>4. QED BY <1>2, <1>3

LEMMA LoadIsKind ==
    ASSUME Types, NEW c \in Clients, Load(c)
    PROVE  OfAKind
  <1>1. call[c] # Idle /\ call[c].request \in Writes /\ Quiet /\ Id(c) \in Ids
    BY Shape, RequestType DEF Load, At, Idle, Id
  <1>2. CASE \E answer \in Answers : Answered(c, answer)
    BY <1>1, <1>2, AnswerIsKind
  <1>3. CASE ~\E answer \in Answers : Answered(c, answer)
    <2> DEFINE next == Candidate(call[c].request, rows[Id(c)])
               k == [at |-> "save look", request |-> call[c].request, candidate |-> next]
    <2>1. Refusal(Id(c)) \in Answers /\ "immutable" \in Answers
      BY DEF Refusal, Answers
    <2>2. Readable(Id(c)) /\ call' = [call EXCEPT ![c] = k]
      BY <1>3, <2>1 DEF Load, Types
    <2>3. rows[Id(c)] \in Snapshots
      BY <1>1, <2>2 DEF Readable, Types
    <2>4. next \in Snapshots
      BY <1>1, <2>3, CandidateType
    <2>5. k \in Saving
      BY <1>1, <2>4 DEF Saving
    <2>6. k \in Calls /\ k # Idle /\ k.request = call[c].request
      BY <2>5 DEF Calls, Idle
    <2>7. QED BY <1>1, <2>2, <2>6, MoveIsKind
  <1>4. QED BY <1>2, <1>3

LEMMA SaveIsKind ==
    ASSUME Types, NEW c \in Clients, Save(c)
    PROVE  OfAKind
  <1>1. /\ call[c] # Idle /\ call[c].request \in Writes /\ call[c].candidate \in Snapshots
        /\ Id(c) \in Ids
    BY Shape, RequestType DEF Save, At, Idle, Id
  <1> DEFINE next == [call[c].candidate EXCEPT !.generation = @ + 1]
  <1>2. CASE Quiet /\ \E answer \in Answers : Answered(c, answer)
    BY <1>1, <1>2, AnswerIsKind
  <1>3. CASE ~(Quiet /\ \E answer \in Answers : Answered(c, answer))
    <2>1. Refusal(Id(c)) \in Answers /\ {"immutable", "stale", "done", "storage"} \subseteq Answers
      BY DEF Refusal, Answers
    <2>2. /\ At(c, "save") /\ Readable(Id(c)) /\ MaySave(c)
          /\ next.generation <= MaxGeneration
          /\ rows' = [rows EXCEPT ![Id(c)] = next]
          /\ effects' = [effects EXCEPT ![c] = @ + 1]
          /\ seen' = seen \/ seen' = [seen EXCEPT ![c] = [id |-> Id(c), project |-> next]]
          /\ faults' \in Nat
          /\ UNCHANGED <<legacy, guards, damaged, owners>>
      BY <1>3, <2>1 DEF Save, CloseFails, Types
    <2>3. PICK answer \in {"done", "storage"} : Answered(c, answer)
      BY <1>3, <2>1 DEF Save
    <2>4. PICK k \in Calls : call' = [call EXCEPT ![c] = k] /\ k # Idle /\ k.request = call[c].request
      BY <1>1, <2>1, <2>3, AnswerMoves
    <2>5. rows[Id(c)] \in Snapshots
      BY <1>1, <2>2 DEF Readable, Types
    <2>6. /\ rows[Id(c)].generation = call[c].request.saw.generation
          /\ rows[Id(c)].generation = call[c].candidate.generation
          /\ rows[Id(c)].requirements = call[c].candidate.requirements
      BY <2>2 DEF MaySave, Current, Token, SameRequirements
    <2>7. /\ next \in Snapshots /\ next.generation = rows[Id(c)].generation + 1
          /\ next.requirements = rows[Id(c)].requirements
      BY <1>1, <2>2, <2>5, <2>6, BoundAssumption DEF Snapshots
    <2> HIDE DEF next
    <2>8. Saved(c, k, next)
      BY <1>1, <2>2, <2>4, <2>6, <2>7 DEF Saved, Committed
    <2>9. QED BY <2>7, <2>8 DEF OfAKind
  <1>4. QED BY <1>2, <1>3

\* The steps that end a call, repeat it or lose it.
LEMMA EndIsKind ==
    ASSUME Types, NEW c \in Clients, Take(c) \/ Retry(c) \/ StorageFails(c) \/ AnswerLost(c)
    PROVE  OfAKind
  <1>1. CASE Take(c)
    <2>1. Moved(c, Idle)
      BY <1>1 DEF Moved, Take, Quiet, Types
    <2>2. Idle \in Calls
      BY DEF Calls
    <2>3. QED BY <2>1, <2>2 DEF OfAKind
  <1>2. CASE Retry(c)
    <2>1. call[c] # Idle /\ call[c].request \in Creations \cup Writes
      BY <1>2, Shape DEF Retry, At, Idle
    <2> DEFINE k == [at |-> IF call[c].request.kind = "create" THEN "create look" ELSE "load",
                     request |-> call[c].request]
    <2>2. k \in Calls /\ k # Idle /\ k.request = call[c].request
      <3>1. k \in Creating \cup Loading
        BY <2>1, RequestType DEF Creating, Loading
      <3>2. QED BY <3>1 DEF Calls, Creating, Loading, Idle
    <2>3. call' = [call EXCEPT ![c] = k] /\ Quiet
      BY <1>2 DEF Retry, Types
    <2>4. QED BY <2>1, <2>2, <2>3, MoveIsKind
  <1>3. CASE StorageFails(c) \/ AnswerLost(c)
    <2>1. /\ call[c] # Idle /\ Answered(c, "storage") /\ faults' \in Nat
          /\ UNCHANGED <<legacy, rows, guards, damaged, seen, effects, owners>>
      <3>1. call[c].at # "idle"
        BY <1>3 DEF StorageFails, AnswerLost, Running, At
      <3>2. call[c] # Idle
        BY <3>1 DEF Idle
      <3>3. faults' = faults + 1
        BY <1>3 DEF StorageFails, AnswerLost, CloseFails
      <3>4. QED BY <1>3, <3>2, <3>3 DEF StorageFails, AnswerLost, Types
    <2>2. PICK k \in Calls : call' = [call EXCEPT ![c] = k] /\ k # Idle /\ k.request = call[c].request
      BY <2>1, AnswerMoves DEF Answers
    <2>3. Moved(c, k)
      BY <2>1, <2>2 DEF Moved
    <2>4. QED BY <2>3 DEF OfAKind
  <1>4. QED BY <1>1, <1>2, <1>3

LEMMA EveryStep ==
    ASSUME Types, Next
    PROVE  OfAKind
  <1>1. CASE \E id \in Ids : V1Create(id)
    BY <1>1 DEF OfAKind
  <1>2. CASE Damage
    BY <1>2 DEF OfAKind
  <1>3. ASSUME NEW c \in Clients, Read(c) PROVE OfAKind
    BY <1>3 DEF OfAKind
  <1>4. ASSUME NEW c \in Clients,
               \/ Look(c, "create look", "create again")
               \/ Look(c, "create again", "create")
               \/ Look(c, "save look", "save")
        PROVE  OfAKind
    BY <1>4, LookIsKind
  <1>5. QED
    BY <1>1, <1>2, <1>3, <1>4, StartCreateIsKind, StartWriteIsKind, CreateIsKind, LoadIsKind, SaveIsKind,
       EndIsKind DEF Next

-----------------------------------------------------------------------------
(* The invariant *)

LEMMA TypesStep ==
    ASSUME Types, OfAKind
    PROVE  Types'
  <1>1. ASSUME NEW id \in Ids, V1Create(id) PROVE Types'
    BY <1>1 DEF V1Create, Types, Owners
  <1>2. ASSUME NEW c \in Clients, NEW k \in Calls, Asked(c, k) \/ Moved(c, k) PROVE Types'
    BY <1>2 DEF Asked, Moved, Types
  <1>3. ASSUME NEW c \in Clients, NEW k \in Calls, Created(c, k) PROVE Types'
    <2>1. Id(c) \in Ids /\ New(c) \in Snapshots
      BY <1>3, RequestType, NewType DEF Created, Id
    <2>2. <<"V2", c>> \in Owners
      BY DEF Owners
    <2>3. QED BY <1>3, <2>1, <2>2 DEF Created, Committed, Types
  <1>4. ASSUME NEW c \in Clients, NEW k \in Calls, NEW next \in Snapshots, Saved(c, k, next) PROVE Types'
    <2>1. Id(c) \in Ids
      BY <1>4, RequestType DEF Saved, Id
    <2>2. [id |-> Id(c), project |-> next] \in Views
      BY <2>1 DEF Views
    <2>3. QED BY <1>4, <2>1, <2>2 DEF Saved, Committed, Types
  <1>5. ASSUME NEW c \in Clients, Read(c) PROVE Types'
    <2>1. PICK id \in Ids : Readable(id) /\ seen' = [seen EXCEPT ![c] = [id |-> id, project |-> rows[id]]]
      BY <1>5 DEF Read
    <2>2. rows[id] \in Snapshots
      BY <2>1 DEF Readable, Types
    <2>3. [id |-> id, project |-> rows[id]] \in Views
      BY <2>2 DEF Views
    <2>4. QED BY <1>5, <2>1, <2>3 DEF Read, Types
  <1>6. CASE Damage
    BY <1>6 DEF Damage, CloseFails, Types
  <1>7. QED BY <1>1, <1>2, <1>3, <1>4, <1>5, <1>6 DEF OfAKind

\* A row that was made is never taken away, and its generation tells how far it has come.
LEMMA RowsGrow ==
    ASSUME Types, OfAKind, NEW id \in Ids, rows[id] # None
    PROVE  /\ rows'[id] # None
           /\ rows'[id].requirements = rows[id].requirements
           /\ rows'[id] = rows[id] \/ rows'[id].generation = rows[id].generation + 1
           /\ rows[id].generation \in Nat /\ rows'[id].generation \in Nat
  <1>1. rows[id] \in Snapshots /\ rows[id].generation \in Nat
    BY BoundAssumption DEF Types, Snapshots
  <1>2. CASE rows' = rows
    BY <1>1, <1>2
  <1>3. ASSUME NEW c \in Clients, NEW k \in Calls, Created(c, k)
        PROVE  rows'[id] = rows[id]
    BY <1>3 DEF Created, MayInsert, Types
  <1>4. ASSUME NEW c \in Clients, NEW k \in Calls, NEW next \in Snapshots, Saved(c, k, next)
        PROVE  /\ rows'[id] # None
               /\ rows'[id].requirements = rows[id].requirements
               /\ rows'[id] = rows[id] \/ rows'[id].generation = rows[id].generation + 1
    BY <1>4, NoneAssumption DEF Saved, Types
  <1>5. rows' = rows \/ \E c \in Clients, k \in Calls : \/ Created(c, k)
                                                      \/ \E next \in Snapshots : Saved(c, k, next)
    BY DEF OfAKind, V1Create, Asked, Moved, Read, Damage
  <1>6. QED BY <1>1, <1>2, <1>3, <1>4, <1>5

LEMMA GuardedStep ==
    ASSUME Types, Guarded, OfAKind
    PROVE  Guarded'
  <1>1. ASSUME NEW id \in Ids, V1Create(id) PROVE Guarded'
    BY <1>1 DEF V1Create, Collides, Guarded
  <1>2. ASSUME NEW c \in Clients, NEW k \in Calls, Asked(c, k) \/ Moved(c, k) PROVE Guarded'
    BY <1>2 DEF Asked, Moved, Guarded
  <1>3. ASSUME NEW c \in Clients, NEW k \in Calls, Created(c, k) PROVE Guarded'
    <2>1. Id(c) \in Ids /\ New(c) # None
      BY <1>3, RequestType, NewType DEF Created, Id
    <2>2. QED BY <1>3, <2>1 DEF Created, Committed, MayInsert, Guarded, Types
  <1>4. ASSUME NEW c \in Clients, NEW k \in Calls, NEW next \in Snapshots, Saved(c, k, next) PROVE Guarded'
    <2>1. Id(c) \in Ids /\ next # None
      BY <1>4, RequestType, NoneAssumption DEF Saved, Id
    <2>2. QED BY <1>4, <2>1 DEF Saved, Committed, Readable, Guarded, Types
  <1>5. ASSUME NEW c \in Clients, Read(c) PROVE Guarded'
    BY <1>5 DEF Read, Guarded
  <1>6. CASE Damage
    BY <1>6 DEF Damage, Guarded
  <1>7. QED BY <1>1, <1>2, <1>3, <1>4, <1>5, <1>6 DEF OfAKind

LEMMA OwnedStep ==
    ASSUME Types, Guarded, Owned, OfAKind
    PROVE  Owned'
  <1> USE DEF Owned
  <1>1. ASSUME NEW id \in Ids, V1Create(id) PROVE Owned'
    <2>1. rows[id] = None /\ owners[id] = {}
      BY <1>1 DEF V1Create, Collides, Guarded
    <2>2. owners'[id] = {<<"V1">>} /\ id \in legacy'
      BY <1>1, <2>1 DEF V1Create, Types
    <2>3. \A i \in Ids \ {id} : owners'[i] = owners[i]
      BY <1>1 DEF V1Create, Types
    <2>4. QED BY <1>1, <2>2, <2>3 DEF V1Create
  <1>2. ASSUME NEW c \in Clients, NEW k \in Calls, Asked(c, k) \/ Moved(c, k) PROVE Owned'
    BY <1>2 DEF Asked, Moved
  <1>3. ASSUME NEW c \in Clients, NEW k \in Calls, Created(c, k) PROVE Owned'
    <2>1. Id(c) \in Ids /\ New(c) # None
      BY <1>3, RequestType, NewType DEF Created, Id
    <2>2. owners[Id(c)] = {}
      BY <1>3, <2>1 DEF Created, MayInsert
    <2>3. rows'[Id(c)] # None /\ \A i \in Ids \ {Id(c)} : rows'[i] = rows[i]
      BY <1>3, <2>1 DEF Created, Types
    <2>4. owners'[Id(c)] = {} \/ owners'[Id(c)] = {<<"V2", c>>}
      BY <1>3, <2>1, <2>2 DEF Created, Types
    <2>5. \A i \in Ids \ {Id(c)} : owners'[i] = owners[i]
      BY <1>3, <2>1 DEF Created, Types
    <2>6. QED BY <1>3, <2>3, <2>4, <2>5 DEF Created
  <1>4. ASSUME NEW c \in Clients, NEW k \in Calls, NEW next \in Snapshots, Saved(c, k, next) PROVE Owned'
    BY <1>4, RowsGrow DEF Saved
  <1>5. ASSUME NEW c \in Clients, Read(c) PROVE Owned'
    BY <1>5 DEF Read
  <1>6. CASE Damage
    BY <1>6 DEF Damage
  <1>7. QED BY <1>1, <1>2, <1>3, <1>4, <1>5, <1>6 DEF OfAKind

LEMMA FormerStays ==
    ASSUME Types, OfAKind, NEW id \in Ids, NEW s \in Snapshots, Former(s, rows[id])
    PROVE  Former(s, rows'[id])
  <1>1. s.generation \in Nat
    BY BoundAssumption DEF Snapshots
  <1>2. QED BY <1>1, RowsGrow DEF Former

\* A client comes to know what is there: the row it reads, or the one it has just written.
LEMMA SeenIsThere ==
    ASSUME Types, OfAKind, NEW d \in Clients, seen'[d] # seen[d]
    PROVE  \E id \in Ids : /\ rows'[id] \in Snapshots
                           /\ seen'[d] = [id |-> id, project |-> rows'[id]]
  <1>1. ASSUME NEW c \in Clients, Read(c)
        PROVE  \E id \in Ids : rows'[id] \in Snapshots /\ seen'[d] = [id |-> id, project |-> rows'[id]]
    <2>1. PICK id \in Ids : Readable(id) /\ seen' = [seen EXCEPT ![c] = [id |-> id, project |-> rows[id]]]
      BY <1>1 DEF Read
    <2>2. rows' = rows /\ rows[id] \in Snapshots
      BY <1>1, <2>1 DEF Read, Readable, Types
    <2>3. seen'[d] = [id |-> id, project |-> rows[id]]
      BY <2>1 DEF Types
    <2>4. QED BY <2>2, <2>3
  <1>2. ASSUME NEW c \in Clients, NEW k \in Calls, NEW next \in Snapshots, Saved(c, k, next)
        PROVE  \E id \in Ids : rows'[id] \in Snapshots /\ seen'[d] = [id |-> id, project |-> rows'[id]]
    <2>1. Id(c) \in Ids
      BY <1>2, RequestType DEF Saved, Id
    <2>2. rows'[Id(c)] = next
      BY <1>2, <2>1 DEF Saved, Types
    <2>3. seen'[d] = [id |-> Id(c), project |-> next]
      BY <1>2 DEF Saved, Types
    <2>4. QED BY <2>1, <2>2, <2>3
  <1>3. QED BY <1>1, <1>2 DEF OfAKind, V1Create, Asked, Moved, Created, Damage

\* A request is as old as the call, or a new one, for what its client has seen.
LEMMA RequestIsKnown ==
    ASSUME Types, OfAKind, NEW d \in Clients, call'[d] # Idle
    PROVE  \/ call[d] # Idle /\ call'[d].request = call[d].request
           \/ /\ seen' = seen /\ effects'[d] = 0
              /\ call'[d].request.kind = "write" => /\ seen[d] # None /\ call'[d].request.id = seen[d].id
                                                    /\ call'[d].request.saw = seen[d].project
  <1>1. CASE call' = call
    BY <1>1
  <1>2. ASSUME NEW c \in Clients, NEW k \in Calls, call' = [call EXCEPT ![c] = k],
               call[c] # Idle, k = Idle \/ k.request = call[c].request
        PROVE  call[d] # Idle /\ call'[d].request = call[d].request
    BY <1>2 DEF Types
  <1>3. ASSUME NEW c \in Clients, NEW k \in Calls, Asked(c, k), c # d
        PROVE  call'[d] = call[d]
    BY <1>3 DEF Asked, Types
  <1>4. ASSUME NEW k \in Calls, Asked(d, k)
        PROVE  call'[d] = k /\ effects'[d] = 0
    BY <1>4 DEF Asked, Types
  <1>5. ASSUME NEW c \in Clients, NEW k \in Calls, Moved(c, k)
        PROVE  call[d] # Idle /\ call'[d].request = call[d].request
    BY <1>5 DEF Moved, Types
  <1>6. QED
    BY <1>1, <1>2, <1>3, <1>4, <1>5 DEF OfAKind, V1Create, Asked, Created, Saved, Committed, Read, Damage

LEMMA KnownStep ==
    ASSUME Types, Guarded, Known, OfAKind
    PROVE  Known'
  <1>1. ASSUME NEW d \in Clients, seen[d] # None
        PROVE  Former(seen[d].project, rows'[seen[d].id])
    <2>1. seen[d].id \in Ids /\ seen[d].project \in Snapshots
      BY <1>1 DEF Types, Views
    <2>2. Former(seen[d].project, rows[seen[d].id])
      BY <1>1 DEF Known
    <2>3. QED BY <2>1, <2>2, FormerStays
  <1>2. ASSUME NEW d \in Clients, call[d] # Idle, call[d].request.kind = "write"
        PROVE  Former(call[d].request.saw, rows'[call[d].request.id])
    <2>1. call[d].request.id \in Ids /\ call[d].request.saw \in Snapshots
      BY <1>2, Shape, RequestType
    <2>2. Former(call[d].request.saw, rows[call[d].request.id])
      BY <1>2 DEF Known, Id
    <2>3. QED BY <2>1, <2>2, FormerStays
  <1>3. ASSUME NEW d \in Clients, seen'[d] # None
        PROVE  Former(seen'[d].project, rows'[seen'[d].id])
    <2>1. CASE seen'[d] = seen[d]
      BY <1>1, <1>3, <2>1
    <2>2. CASE seen'[d] # seen[d]
      <3>1. PICK id \in Ids : /\ rows'[id] \in Snapshots
                              /\ seen'[d] = [id |-> id, project |-> rows'[id]]
        BY <2>2, SeenIsThere
      <3>2. rows'[id] # None /\ rows'[id].generation \in Nat
        BY <3>1, NoneAssumption, BoundAssumption DEF Snapshots
      <3>3. QED BY <3>1, <3>2 DEF Former
    <2>3. QED BY <2>1, <2>2
  <1>4. ASSUME NEW d \in Clients, call'[d] # Idle, call'[d].request.kind = "write"
        PROVE  Former(call'[d].request.saw, rows'[call'[d].request.id])
    <2>1. CASE call[d] # Idle /\ call'[d].request = call[d].request
      BY <1>2, <1>4, <2>1
    <2>2. CASE seen[d] # None /\ call'[d].request.id = seen[d].id /\ call'[d].request.saw = seen[d].project
      BY <1>1, <2>2
    <2>3. QED BY <1>4, <2>1, <2>2, RequestIsKnown
  <1>5. QED BY <1>3, <1>4 DEF Known, Id

\* What a request that was committed has left stays for good.
LEMMA SpentStays ==
    ASSUME Types, Spent, OfAKind, NEW d \in Clients, call[d] # Idle, call'[d] # Idle,
           call'[d].request = call[d].request, effects[d] = 1
    PROVE  /\ rows'[Id(d)] # None
           /\ call[d].request.kind = "write" => rows'[Id(d)].generation > call[d].request.saw.generation
  <1>1. Id(d) \in Ids /\ (call[d].request.kind = "write" => call[d].request.saw \in Snapshots)
    BY Shape, RequestType DEF Id
  <1>2. call[d].request.kind = "write" => call[d].request.saw.generation \in Nat
    BY <1>1, BoundAssumption DEF Snapshots
  <1>3. /\ rows[Id(d)] # None
        /\ call[d].request.kind = "write" => rows[Id(d)].generation > call[d].request.saw.generation
    BY DEF Spent
  <1>4. QED BY <1>1, <1>2, <1>3, RowsGrow

\* A commit finds its request not yet spent, and spends it.
LEMMA CommitSpends ==
    ASSUME Types, Spent, NEW c \in Clients, NEW k \in Calls,
           Created(c, k) \/ \E next \in Snapshots : Saved(c, k, next)
    PROVE  /\ effects'[c] = 1
           /\ call'[c].request = call[c].request
           /\ rows'[Id(c)] # None
           /\ call[c].request.kind = "write" => rows'[Id(c)].generation > call[c].request.saw.generation
  <1>1. call'[c] = k /\ k.request = call[c].request /\ call[c] # Idle /\ effects'[c] = effects[c] + 1
    BY DEF Created, Saved, Committed, Types
  <1>2. effects[c] \in Nat /\ effects[c] <= 1
    BY DEF Types, Spent
  <1>3. CASE Created(c, k)
    <2>1. Id(c) \in Ids /\ call[c].request.kind # "write" /\ New(c) # None
      BY <1>3, RequestType, NewType DEF Created, Id
    <2>2. rows[Id(c)] = None
      BY <1>3 DEF Created, MayInsert
    <2>3. effects[c] = 0
      BY <1>1, <1>2, <2>2 DEF Spent
    <2>4. rows'[Id(c)] = New(c)
      BY <1>3, <2>1 DEF Created, Types
    <2>5. QED BY <1>1, <2>1, <2>3, <2>4
  <1>4. ASSUME NEW next \in Snapshots, Saved(c, k, next)
        PROVE  /\ effects[c] = 0
               /\ rows'[Id(c)] # None
               /\ rows'[Id(c)].generation > call[c].request.saw.generation
    <2>1. Id(c) \in Ids /\ call[c].request.kind = "write" /\ call[c].request.saw \in Snapshots
      BY <1>4, RequestType DEF Saved, Id
    <2>2. call[c].request.saw.generation \in Nat
      BY <2>1, BoundAssumption DEF Snapshots
    <2>3. rows[Id(c)].generation = call[c].request.saw.generation
      BY <1>4 DEF Saved
    <2>4. effects[c] = 0
      BY <1>1, <1>2, <2>1, <2>2, <2>3 DEF Spent
    <2>5. rows'[Id(c)] = next /\ next.generation = rows[Id(c)].generation + 1
      BY <1>4, <2>1 DEF Saved, Types
    <2>6. QED BY <2>2, <2>3, <2>4, <2>5, NoneAssumption
  <1>5. QED BY <1>1, <1>3, <1>4

LEMMA SpentStep ==
    ASSUME Types, Spent, OfAKind
    PROVE  Spent'
  <1>1. ASSUME NEW d \in Clients
        PROVE  \/ effects'[d] = effects[d]
               \/ effects'[d] = 0
               \/ \E k \in Calls : Created(d, k) \/ \E next \in Snapshots : Saved(d, k, next)
    BY DEF OfAKind, V1Create, Asked, Moved, Created, Saved, Committed, Read, Damage, Types
  <1>2. ASSUME NEW d \in Clients
        PROVE  effects'[d] <= 1
    BY <1>1, CommitSpends DEF Spent
  <1>3. ASSUME NEW d \in Clients, effects'[d] = 1, call'[d] # Idle
        PROVE  /\ rows'[call'[d].request.id] # None
               /\ call'[d].request.kind = "write" =>
                     rows'[call'[d].request.id].generation > call'[d].request.saw.generation
    <2>1. CASE effects'[d] = effects[d]
      BY <1>3, <2>1, RequestIsKnown, SpentStays DEF Id
    <2>2. CASE \E k \in Calls : Created(d, k) \/ \E next \in Snapshots : Saved(d, k, next)
      BY <2>2, CommitSpends DEF Id
    <2>3. QED BY <1>1, <1>3, <2>1, <2>2
  <1>4. QED BY <1>2, <1>3 DEF Spent, Id

LEMMA InitEstablishes ==
    ASSUME Init
    PROVE  IInv
  <1>1. Types
    BY BoundAssumption DEF Init, Types, Calls
  <1>2. Guarded /\ Owned
    BY DEF Init, Guarded, Owned
  <1>3. Known /\ Spent
    BY DEF Init, Known, Spent
  <1>4. QED BY <1>1, <1>2, <1>3 DEF IInv

LEMMA StepPreserves ==
    ASSUME IInv, [Next]_vars
    PROVE  IInv'
  <1>1. CASE Next
    <2>1. OfAKind
      BY <1>1, EveryStep DEF IInv
    <2>2. QED BY <2>1, TypesStep, GuardedStep, OwnedStep, KnownStep, SpentStep DEF IInv
  <1>2. CASE UNCHANGED vars
    <2>1. Types'
      BY <1>2 DEF IInv, Types, vars
    <2>2. Guarded' /\ Owned'
      BY <1>2 DEF IInv, Guarded, Owned, vars
    <2>3. Known' /\ Spent'
      BY <1>2 DEF IInv, Known, Spent, Id, vars
    <2>4. QED BY <2>1, <2>2, <2>3 DEF IInv
  <1>3. QED BY <1>1, <1>2

\* The inductive invariant of the V2 store and its clients.
THEOREM Invariant == Spec => []IInv
  <1>1. QED BY InitEstablishes, StepPreserves, PTL DEF Spec

-----------------------------------------------------------------------------
(* What follows *)

\* An id has one origin: it belongs to V1's table or V2's and never to both, at most one caller
\* of create_project was told that it made it, and a creation that was refused leaves no schema.
THEOREM OneOriginAlways == Spec => []OneOrigin
  <1>1. ASSUME IInv PROVE TypeOK
    <2>1. \A c \in Clients : seen[c] # None => seen[c].id \in Ids /\ seen[c].project \in Snapshots
      BY <1>1 DEF IInv, Types, Views
    <2>2. \A c \in Clients : At(c, "save") => call[c].candidate \in Snapshots
      BY <1>1, Shape DEF IInv
    <2>3. QED BY <1>1, <2>1, <2>2 DEF IInv, Types, Guarded, TypeOK
  <1>2. ASSUME IInv PROVE OneOwner
    <2>1. ASSUME NEW id \in Ids PROVE Cardinality(owners[id]) <= 1
      <3>1. CASE owners[id] = {}
        BY <3>1, FS_EmptySet
      <3>2. CASE \E v : owners[id] = {v}
        <4>1. PICK v : owners[id] = {v}
          BY <3>2
        <4>2. Cardinality({v}) = 1
          BY FS_Singleton
        <4>3. QED BY <4>1, <4>2
      <3>3. QED BY <1>2, <3>1, <3>2 DEF IInv, Owned
    <2>2. QED BY <2>1 DEF OneOwner
  <1>3. IInv => OneOrigin
    BY <1>1, <1>2 DEF IInv, Guarded, OneVersion, NoTrace, OneOrigin
  <1>4. QED BY <1>3, Invariant, PTL

\* A request to create or to write a project is committed once at most, though a storage error
\* after the commit, or a lost answer, makes its caller send it once more.
THEOREM AtMostOnceAlways == Spec => []AtMostOnce
  <1>1. IInv => AtMostOnce
    BY DEF IInv, Spent, AtMostOnce
  <1>2. QED BY <1>1, Invariant, PTL

\* A row changes in the save of a caller that has seen exactly this row, and is not damaged.
LEMMA RowChange ==
    ASSUME IInv, OfAKind, NEW id \in Ids, rows[id] # None, rows'[id] # rows[id]
    PROVE  /\ id \notin damaged
           /\ \E c \in Clients : At(c, "save") /\ Id(c) = id /\ call[c].request.saw = rows[id]
  <1>1. ~\E c \in Clients, k \in Calls : Created(c, k)
    BY DEF Created, MayInsert, IInv, Types
  <1>2. PICK c \in Clients, k \in Calls, next \in Snapshots : Saved(c, k, next)
    BY <1>1 DEF OfAKind, V1Create, Asked, Moved, Read, Damage
  <1>3. Id(c) = id
    BY <1>2 DEF Saved, IInv, Types
  <1>4. call[c] # Idle /\ call[c].request.kind = "write"
    BY <1>2, RequestType DEF Saved, Committed
  <1>5. call[c].request.saw = rows[id]
    BY <1>2, <1>3, <1>4 DEF Saved, Former, IInv, Known
  <1>6. QED BY <1>2, <1>3, <1>5 DEF Saved, Readable

\* Nobody comes to see a row that is damaged.
LEMMA SightChange ==
    ASSUME IInv, OfAKind, NEW d \in Clients, seen'[d] # seen[d]
    PROVE  seen'[d].id \notin damaged
  <1>1. ASSUME NEW c \in Clients, Read(c) PROVE seen'[d].id \notin damaged
    BY <1>1 DEF Read, Readable, IInv, Types
  <1>2. ASSUME NEW c \in Clients, NEW k \in Calls, NEW next \in Snapshots, Saved(c, k, next)
        PROVE  seen'[d].id \notin damaged
    BY <1>2 DEF Saved, Readable, IInv, Types
  <1>3. QED BY <1>1, <1>2 DEF OfAKind, V1Create, Asked, Moved, Created, Damage

LEMMA StepIsGuarded ==
    IInv /\ [Next]_vars => [ReplacedAsSeen]_vars /\ [DamageUntouched]_vars /\ [RequirementsKept]_vars
  <1> SUFFICES ASSUME IInv, Next
               PROVE  ReplacedAsSeen /\ DamageUntouched /\ RequirementsKept
    OBVIOUS
  <1>1. OfAKind /\ Types
    BY EveryStep DEF IInv
  <1>2. \A id \in damaged : id \in Ids /\ rows[id] # None
    BY DEF IInv, Types, Guarded
  <1>3. ReplacedAsSeen
    BY <1>1, RowChange DEF ReplacedAsSeen
  <1>4. DamageUntouched
    BY <1>1, <1>2, RowChange, SightChange DEF DamageUntouched
  <1>5. RequirementsKept
    BY <1>1, RowsGrow DEF RequirementsKept
  <1>6. QED BY <1>3, <1>4, <1>5

\* No write covers an update that its caller has not seen, none covers a row that was altered in
\* the file, none changes a project's requirements.
THEOREM WritesGuardedAlways == Spec => WritesGuarded
  <1>1. QED BY StepIsGuarded, Invariant, PTL DEF Spec, WritesGuarded, NoLostUpdate, DamageStands,
                                                 RequirementsImmutable

=============================================================================
