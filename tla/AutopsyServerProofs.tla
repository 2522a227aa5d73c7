------------------------- MODULE AutopsyServerProofs -------------------------
(***************************************************************************)
(* Proofs about what the case service stands on: MujocoClient, for every   *)
(* finite set of tasks, every number of calls and of sessions, and         *)
(* whatever faults happen; ObjectPublication, for any clients, contents    *)
(* and shards; and what leases the case services, AutopsyWorkbench, for    *)
(* any browsers, tabs, limits and faults.                                  *)
(***************************************************************************)
EXTENDS AutopsyServer, FiniteSetTheorems, SequenceTheorems, WellFoundedInduction, TLAPS

-----------------------------------------------------------------------------
(* Queues that a waiter may leave from any place *)

\* The queue without its k-th member.
LEMMA RemoveAtFacts ==
    ASSUME NEW S, NEW q \in Seq(S), NEW k \in 1 .. Len(q)
    PROVE  /\ RemoveAt(q, k) \in Seq(S)
           /\ Len(RemoveAt(q, k)) = Len(q) - 1
           /\ \A i \in 1 .. Len(q) - 1 :
                  RemoveAt(q, k)[i] = IF i < k THEN q[i] ELSE q[i + 1]
  <1> DEFINE u == SubSeq(q, 1, k - 1)
             v == SubSeq(q, k + 1, Len(q))
  <1>1. /\ u \in Seq(S) /\ Len(u) = k - 1
        /\ \A i \in 1 .. k - 1 : u[i] = q[i]
    BY SubSeqProperties
  <1>2. /\ v \in Seq(S) /\ Len(v) = Len(q) - k
        /\ \A i \in 1 .. Len(q) - k : v[i] = q[i + k]
    BY SubSeqProperties
  <1>3. RemoveAt(q, k) = u \o v
    BY DEF RemoveAt
  <1> HIDE DEF u, v
  <1>4. /\ u \o v \in Seq(S) /\ Len(u \o v) = Len(u) + Len(v)
        /\ \A i \in 1 .. Len(u) + Len(v) :
               (u \o v)[i] = IF i <= Len(u) THEN u[i] ELSE v[i - Len(u)]
    BY <1>1, <1>2, ConcatProperties
  <1>5. QED
    BY <1>1, <1>2, <1>3, <1>4

\* deque.remove of a member drops the member at some position that holds it.
LEMMA RemoveFirstIsRemoveAt ==
    ASSUME NEW S, NEW q \in Seq(S), NEW e, \E i \in 1 .. Len(q) : q[i] = e
    PROVE  \E k \in 1 .. Len(q) : q[k] = e /\ RemoveFirst(q, e) = RemoveAt(q, k)
  <1> DEFINE I == {i \in 1 .. Len(q) : q[i] = e}
  <1>1. PICK x \in I : \A y \in I : ~(<<y, x>> \in OpToRel(<, Nat))
    <2>1. I \subseteq Nat /\ I # {}
      OBVIOUS
    <2>2. QED
      BY <2>1, NatLessThanWellFounded, WFMin
  <1>2. ASSUME NEW y \in I PROVE x <= y
    <2>1. ~(<<y, x>> \in {ss \in Nat \X Nat : ss[1] < ss[2]})
      BY <1>1 DEF OpToRel
    <2>2. QED
      BY <2>1
  <1>3. Min(I) \in I
    BY <1>2 DEF Min
  <1>4. SelectInSeq(q, LAMBDA v : v = e) = Min(I)
    BY <1>1 DEF SelectInSeq
  <1>5. RemoveFirst(q, e) = RemoveAt(q, Min(I))
    BY <1>4 DEF RemoveFirst
  <1>6. QED
    BY <1>3, <1>5

-----------------------------------------------------------------------------
(* The queue of a lock *)

\* Just the members wait in the queue q, each once; whoever holds the lock is its head.
Queue(q, Members, Holders) ==
    /\ q \in Seq(Members)
    /\ \A i, j \in 1 .. Len(q) : q[i] = q[j] => i = j
    /\ \A e \in Members : \E i \in 1 .. Len(q) : q[i] = e
    /\ \A e \in Holders : q # <<>> /\ q[1] = e

LEMMA QueueEmpty == Queue(<<>>, {}, {})
  BY DEF Queue

LEMMA QueueAppend ==
    ASSUME NEW q, NEW M, NEW H, Queue(q, M, H), NEW e, e \notin M
    PROVE  Queue(Append(q, e), M \cup {e}, H)
  <1> DEFINE t == Append(q, e)
  <1>1. q \in Seq(M) /\ q \in Seq(M \cup {e})
    BY DEF Queue
  <1>2. /\ t \in Seq(M \cup {e}) /\ Len(t) = Len(q) + 1
        /\ \A i \in 1 .. Len(q) : t[i] = q[i]
        /\ t[Len(q) + 1] = e
    BY <1>1, AppendProperties
  <1>3. \A i \in 1 .. Len(q) : q[i] \in M
    BY <1>1
  <1> HIDE DEF t
  <1>4. Len(q) \in Nat
    BY <1>1
  <1>a. \A i, j \in 1 .. Len(q) : q[i] = q[j] => i = j
    BY DEF Queue
  <1>5. ASSUME NEW i \in 1 .. Len(t), NEW j \in 1 .. Len(t), t[i] = t[j]
        PROVE  i = j
    <2>1. CASE i = Len(q) + 1 /\ j # i
      BY <1>2, <1>3, <1>4, <1>5, <2>1
    <2>2. CASE j = Len(q) + 1 /\ j # i
      BY <1>2, <1>3, <1>4, <1>5, <2>2
    <2>3. CASE i # Len(q) + 1 /\ j # Len(q) + 1
      BY <1>a, <1>2, <1>4, <1>5, <2>3
    <2>4. QED BY <2>1, <2>2, <2>3
  <1>6. \A d \in M \cup {e} : \E i \in 1 .. Len(t) : t[i] = d
    BY <1>2, <1>4 DEF Queue
  <1>7. \A d \in H : t # <<>> /\ t[1] = d
    <2>1. ASSUME NEW d \in H PROVE Len(q) > 0 /\ q[1] = d
      BY <1>1, <2>1, EmptySeq DEF Queue
    <2>2. QED BY <1>2, <1>4, <2>1, EmptySeq
  <1>8. QED BY <1>2, <1>5, <1>6, <1>7 DEF Queue, t

LEMMA QueueTail ==
    ASSUME NEW q, NEW M, NEW H, Queue(q, M, H), NEW e, q # <<>>, q[1] = e
    PROVE  Queue(Tail(q), M \ {e}, {}) /\ e \in M /\ H \subseteq {e}
  <1> DEFINE t == Tail(q)
  <1>1. q \in Seq(M) /\ Len(q) \in Nat /\ Len(q) > 0
    BY EmptySeq DEF Queue
  <1>2. /\ t \in Seq(M) /\ Len(t) = Len(q) - 1
        /\ \A i \in 1 .. Len(q) - 1 : t[i] = q[i + 1]
    BY <1>1, HeadTailProperties
  <1> HIDE DEF t
  <1>a. \A i, j \in 1 .. Len(q) : q[i] = q[j] => i = j
    BY DEF Queue
  <1>b. \A i \in 1 .. Len(q) : q[i] \in M
    BY <1>1
  <1>3. ASSUME NEW i \in 1 .. Len(t)
        PROVE  t[i] \in M \ {e}
    <2>1. i + 1 \in 1 .. Len(q) /\ 1 \in 1 .. Len(q) /\ i + 1 # 1
      BY <1>1, <1>2
    <2>2. q[i + 1] # q[1]
      BY <1>a, <2>1
    <2>3. QED BY <1>b, <1>2, <2>1, <2>2
  <1>4. t \in Seq(M \ {e})
    BY <1>2, <1>3
  <1>5. ASSUME NEW i \in 1 .. Len(t), NEW j \in 1 .. Len(t), t[i] = t[j]
        PROVE  i = j
    <2>1. i + 1 \in 1 .. Len(q) /\ j + 1 \in 1 .. Len(q) /\ q[i + 1] = q[j + 1]
      BY <1>1, <1>2, <1>5
    <2>2. i + 1 = j + 1
      BY <1>a, <2>1
    <2>3. QED BY <1>2, <2>2
  <1>6. ASSUME NEW d \in M \ {e} PROVE \E i \in 1 .. Len(t) : t[i] = d
    <2>1. PICK i \in 1 .. Len(q) : q[i] = d
      BY DEF Queue
    <2>2. i # 1
      BY <2>1
    <2>3. i - 1 \in 1 .. Len(t) /\ t[i - 1] = d
      BY <1>1, <1>2, <2>1, <2>2
    <2>4. QED BY <2>3
  <1>7. e \in M /\ H \subseteq {e}
    BY <1>1 DEF Queue
  <1>8. QED BY <1>4, <1>5, <1>6, <1>7 DEF Queue, t

LEMMA QueueRemove ==
    ASSUME NEW q, NEW M, NEW H, Queue(q, M, H), NEW e, e \in M, e \notin H
    PROVE  Queue(RemoveFirst(q, e), M \ {e}, H)
  <1> DEFINE t == RemoveFirst(q, e)
  <1>1. q \in Seq(M) /\ Len(q) \in Nat /\ \E i \in 1 .. Len(q) : q[i] = e
    BY DEF Queue
  <1>2. PICK k \in 1 .. Len(q) : q[k] = e /\ t = RemoveAt(q, k)
    BY <1>1, RemoveFirstIsRemoveAt
  <1>3. /\ t \in Seq(M) /\ Len(t) = Len(q) - 1
        /\ \A i \in 1 .. Len(q) - 1 : t[i] = IF i < k THEN q[i] ELSE q[i + 1]
    BY <1>1, <1>2, RemoveAtFacts
  <1> HIDE DEF t
  <1>a. \A i, j \in 1 .. Len(q) : q[i] = q[j] => i = j
    BY DEF Queue
  <1>b. \A i \in 1 .. Len(q) : q[i] \in M
    BY <1>1
  <1>c. ASSUME NEW i \in 1 .. Len(t)
        PROVE  \E n \in 1 .. Len(q) : n = (IF i < k THEN i ELSE i + 1) /\ n # k /\ t[i] = q[n]
    BY <1>1, <1>3
  <1>4. \A i \in 1 .. Len(t) : t[i] \in M \ {e}
    BY <1>a, <1>b, <1>c, <1>2
  <1>5. t \in Seq(M \ {e})
    BY <1>3, <1>4
  <1>6. ASSUME NEW i \in 1 .. Len(t), NEW j \in 1 .. Len(t), t[i] = t[j]
        PROVE  i = j
    <2>1. (IF i < k THEN i ELSE i + 1) = (IF j < k THEN j ELSE j + 1)
      BY <1>a, <1>c, <1>6
    <2>2. QED BY <1>1, <1>3, <2>1
  <1>7. ASSUME NEW d \in M \ {e} PROVE \E i \in 1 .. Len(t) : t[i] = d
    <2>1. PICK i \in 1 .. Len(q) : q[i] = d
      BY DEF Queue
    <2>2. i # k
      BY <1>2, <2>1
    <2>3. CASE i < k
      BY <1>1, <1>3, <2>1, <2>3
    <2>4. CASE i > k
      <3>1. i - 1 \in 1 .. Len(t) /\ t[i - 1] = d
        BY <1>1, <1>3, <2>1, <2>4
      <3>2. QED BY <3>1
    <2>5. QED BY <1>1, <2>1, <2>2, <2>3, <2>4
  <1>8. ASSUME NEW d \in H PROVE t # <<>> /\ t[1] = d
    <2>1. q[1] = d /\ d # e
      BY <1>8 DEF Queue
    <2>2. k > 1 /\ Len(q) > 1
      BY <1>1, <1>2, <2>1
    <2>3. Len(t) > 0 /\ t[1] = d
      BY <1>1, <1>3, <2>1, <2>2
    <2>4. QED BY <2>3, EmptySeq
  <1>9. QED BY <1>5, <1>6, <1>7, <1>8 DEF Queue, t

\* The lock is the head's.
LEMMA QueueHead ==
    ASSUME NEW q, NEW M, NEW H, Queue(q, M, H), q # <<>>
    PROVE  Queue(q, M, {q[1]}) /\ q[1] \in M /\ H \subseteq {q[1]} /\ Head(q) = q[1]
  BY EmptySeq DEF Queue

\* Fewer may claim it.
LEMMA QueueFewer ==
    ASSUME NEW q, NEW M, NEW H, Queue(q, M, H), NEW G, G \subseteq H
    PROVE  Queue(q, M, G)
  BY DEF Queue

-----------------------------------------------------------------------------
(* The inductive invariant *)

Kinds == {"run", "validate"}

\* What a task can be doing, with what it remembers.
Acts == [at : {"idle", "closing"}]
           \cup [at : {"enter", "starting"}, kind : Kinds]
           \cup [at : {"queued", "leaving"}, kind : Kinds, call : Nat]
           \cup [at : {"calling", "killing", "killed", "leaving"}, kind : Kinds, call : Nat, on : Nat]

Types ==
    /\ at \in [Users -> Acts] /\ slot \in [Users -> Slots \cup {None}]
    /\ token \in [Users -> Nat \cup {None}]
    /\ started \in Nat /\ owners \in Nat

\* Who is at one of these places.
Those(places) == {u \in Users : at[u].at \in places}

UnderLifecycle == {"starting", "killed", "closing"}
ForLifecycle == {"enter", "starting", "killing", "killed", "leaving", "closing"}
UnderOperation == {"calling", "killing", "killed"}
ForOperation == {"queued", "calling", "killing", "killed"}

\* Just the tasks at a place that needs a lock are in its queue, each once, the holder first.
Locks ==
    /\ Queue(lifecycle, Those(ForLifecycle), Those(UnderLifecycle))
    /\ Queue(operation, Those(ForOperation), Those(UnderOperation))

\* Of a task with act a, slot l and token t, while the session is s and there were n so far:
\* its slot is one of its own context; the session is over while its child is started or
\* stopped; a call on a slot is in the session that is there.
ContextOk(a, l, t, s, n) ==
    /\ a.at \in {"idle", "enter", "starting", "closing"} => t = None
    /\ t # None => t \in 1 .. n
    /\ l # None => t = l.session
    /\ a.at \in UnderLifecycle => s = None
    /\ a.at \in UnderOperation => a.on \in 1 .. n
    /\ a.at = "calling" /\ l # None => s = a.on /\ s = l.session

Contexts == \A u \in Users : ContextOk(at[u], slot[u], token[u], session, started)

\* Nobody is in the session that is being started yet.
Fresh == Those({"starting"}) # {} => \A u \in Users : token[u] # started

\* A child lives, but for those that were given up, just while there is a session or
\* somebody starts or stops one; it is the last that was started.
Children ==
    /\ stuck \subseteq children /\ children \subseteq 1 .. started
    /\ session \in {started, None}
    /\ children \ stuck = IF session # None \/ Those(UnderLifecycle) # {} THEN {started} ELSE {}

IInv == Types /\ Locks /\ Contexts /\ Fresh /\ OwnersCounted /\ Children

-----------------------------------------------------------------------------
(* One task moves *)

Moves(u, a) == a \in Acts /\ at' = [at EXCEPT ![u] = a]

\* The places it may go to, and the fields it keeps.
LEMMA GoesMoves ==
    ASSUME Types, NEW u \in Users, NEW place, Goes(u, place),
           \/ at[u].at = "enter" /\ place = "starting"
           \/ at[u].at = "queued" /\ place = "leaving"
           \/ at[u].at = "calling" /\ place \in {"leaving", "killing"}
           \/ at[u].at = "killing" /\ place \in {"leaving", "killed"}
           \/ at[u].at = "killed" /\ place = "leaving"
    PROVE  \E a : /\ Moves(u, a) /\ a.at = place
                  /\ place \in {"killing", "killed"} => a.on = at[u].on
  <1> DEFINE a == [at[u] EXCEPT !.at = place]
  <1>1. at[u] \in Acts
    BY DEF Types
  <1>2. a \in Acts /\ a.at = place
    BY <1>1 DEF Acts
  <1>3. place \in {"killing", "killed"} => a.on = at[u].on
    BY <1>1 DEF Acts
  <1>4. at' = [at EXCEPT ![u] = a]
    BY DEF Goes
  <1>5. QED BY <1>2, <1>3, <1>4 DEF Moves

LEMMA MovesFacts ==
    ASSUME Types, NEW u \in Users, NEW a, Moves(u, a)
    PROVE  /\ at' \in [Users -> Acts] /\ at'[u] = a
           /\ \A v \in Users : v # u => at'[v] = at[v]
           /\ \A places : Those(places)' = IF a.at \in places THEN Those(places) \cup {u}
                                                             ELSE Those(places) \ {u}
  BY DEF Types, Moves, Those

-----------------------------------------------------------------------------
(* The queue of a lock, when a task moves: those at the places waits are in the queue q, those *)
(* at the places has hold the lock                                                             *)

LEMMA Holder ==
    ASSUME NEW waits, NEW has, NEW q, NEW u \in Users,
           Queue(q, Those(waits), Those(has)), at[u].at \in has
    PROVE  q # <<>> /\ Head(q) = u /\ q[1] = u /\ Those(has) \subseteq {u}
  <1>1. u \in Those(has)
    BY DEF Those
  <1>2. q # <<>> /\ q[1] = u
    BY <1>1 DEF Queue
  <1>3. QED BY <1>2, QueueHead

LEMMA Stays ==
    ASSUME Types, NEW waits, NEW has, NEW q, NEW u \in Users, NEW a, Moves(u, a),
           Queue(q, Those(waits), Those(has)), at[u].at \in waits <=> a.at \in waits,
           a.at \in has => q # <<>> /\ Head(q) = u
    PROVE  Queue(q, Those(waits)', Those(has)')
  <1>1. Those(waits)' = Those(waits)
    BY MovesFacts DEF Those
  <1>2. CASE a.at \in has
    <2>1. Queue(q, Those(waits), {u}) /\ Those(has) \subseteq {u}
      BY <1>2, QueueHead
    <2>2. Those(has)' \subseteq {u}
      BY <1>2, <2>1, MovesFacts
    <2>3. QED BY <1>1, <2>1, <2>2, QueueFewer
  <1>3. CASE a.at \notin has
    <2>1. Those(has)' \subseteq Those(has)
      BY <1>3, MovesFacts
    <2>2. QED BY <1>1, <2>1, QueueFewer
  <1>4. QED BY <1>2, <1>3

LEMMA Joins ==
    ASSUME Types, NEW waits, NEW has, NEW q, NEW u \in Users, NEW a, Moves(u, a),
           Queue(q, Those(waits), Those(has)),
           at[u].at \notin waits, a.at \in waits, a.at \notin has
    PROVE  Queue(Append(q, u), Those(waits)', Those(has)')
  <1>1. Those(waits)' = Those(waits) \cup {u} /\ Those(has)' \subseteq Those(has) /\ u \notin Those(waits)
    BY MovesFacts DEF Those
  <1>2. Queue(Append(q, u), Those(waits) \cup {u}, Those(has))
    BY <1>1, QueueAppend
  <1>3. QED BY <1>1, <1>2, QueueFewer

LEMMA LeavesQueue ==
    ASSUME Types, NEW waits, NEW has, NEW q, NEW u \in Users, NEW a, Moves(u, a),
           Queue(q, Those(waits), Those(has)), q # <<>>, Head(q) = u,
           a.at \notin waits, a.at \notin has
    PROVE  Queue(Tail(q), Those(waits)', Those(has)')
  <1>1. q[1] = u
    BY QueueHead
  <1>2. Queue(Tail(q), Those(waits) \ {u}, {}) /\ Those(has) \subseteq {u}
    BY <1>1, QueueTail
  <1>3. Those(waits)' = Those(waits) \ {u} /\ Those(has)' = {}
    BY <1>2, MovesFacts
  <1>4. QED BY <1>2, <1>3

LEMMA Requeues ==
    ASSUME Types, NEW waits, NEW has, NEW q, NEW u \in Users, NEW a, Moves(u, a),
           Queue(q, Those(waits), Those(has)), q # <<>>, Head(q) = u,
           a.at \in waits, a.at \notin has
    PROVE  Queue(Append(Tail(q), u), Those(waits)', Those(has)')
  <1>1. q[1] = u
    BY QueueHead
  <1>2. /\ Queue(Tail(q), Those(waits) \ {u}, {}) /\ Those(has) \subseteq {u}
        /\ u \in Those(waits)
    BY <1>1, QueueTail
  <1>3. Those(waits)' = (Those(waits) \ {u}) \cup {u} /\ Those(has)' = {}
    BY <1>2, MovesFacts
  <1>4. u \notin Those(waits) \ {u}
    OBVIOUS
  <1>5. Queue(Append(Tail(q), u), (Those(waits) \ {u}) \cup {u}, {})
    BY <1>2, <1>4, QueueAppend
  <1>6. QED BY <1>3, <1>5

LEMMA Withdraws ==
    ASSUME Types, NEW waits, NEW has, NEW q, NEW u \in Users, NEW a, Moves(u, a),
           Queue(q, Those(waits), Those(has)),
           at[u].at \in waits, at[u].at \notin has, a.at \notin waits, a.at \notin has
    PROVE  Queue(RemoveFirst(q, u), Those(waits)', Those(has)')
  <1>1. u \in Those(waits) /\ u \notin Those(has)
    BY DEF Those
  <1>2. Queue(RemoveFirst(q, u), Those(waits) \ {u}, Those(has))
    BY <1>1, QueueRemove
  <1>3. Those(waits)' = Those(waits) \ {u} /\ Those(has)' \subseteq Those(has)
    BY MovesFacts
  <1>4. QED BY <1>2, <1>3, QueueFewer

-----------------------------------------------------------------------------
(* The steps keep the queues *)

LEMMA LockNames ==
    /\ ForLifecycle = {"enter", "starting", "killing", "killed", "leaving", "closing"}
    /\ UnderLifecycle = {"starting", "killed", "closing"}
    /\ ForOperation = {"queued", "calling", "killing", "killed"}
    /\ UnderOperation = {"calling", "killing", "killed"}
  BY DEF ForLifecycle, UnderLifecycle, ForOperation, UnderOperation


\* The acts that a step makes anew.
LEMMA NewActs ==
    /\ \A place \in {"idle", "closing"} :
          [at |-> place] \in Acts /\ [at |-> place].at = place
    /\ \A k \in Kinds :
          [at |-> "enter", kind |-> k] \in Acts /\ [at |-> "enter", kind |-> k].at = "enter"
    /\ \A k \in Kinds, c \in Nat :
          /\ [at |-> "queued", kind |-> k, call |-> c] \in Acts
          /\ [at |-> "queued", kind |-> k, call |-> c].at = "queued"
    /\ \A k \in Kinds, c, n \in Nat :
          /\ [at |-> "calling", kind |-> k, call |-> c, on |-> n] \in Acts
          /\ [at |-> "calling", kind |-> k, call |-> c, on |-> n].at = "calling"
          /\ [at |-> "calling", kind |-> k, call |-> c, on |-> n].on = n
  BY DEF Acts

\* What a task remembers.
LEMMA OldActs ==
    ASSUME Types, NEW u \in Users
    PROVE  /\ at[u] \in Acts
           /\ at[u].at \notin {"idle", "closing"} => at[u].kind \in Kinds
           /\ at[u].at \in {"queued", "calling", "killing", "killed"} => at[u].call \in Nat
           /\ at[u].at \in UnderOperation => at[u].on \in Nat
  <1>1. at[u] \in Acts
    BY DEF Types
  <1>2. QED BY <1>1 DEF Acts, UnderOperation

\* The slot of a task, while it keeps it.
SameSlot(l, m) == (l = None /\ m = None) \/ (l \in Slots /\ m \in Slots /\ m.session = l.session)

LEMMA PoisonedFacts ==
    ASSUME Types, NEW u \in Users, NEW state \in {"READY", "POISONED"},
           slot' = IF slot[u] = None THEN slot ELSE [slot EXCEPT ![u].state = state]
    PROVE  /\ slot' \in [Users -> Slots \cup {None}] /\ SameSlot(slot[u], slot'[u])
           /\ \A v \in Users : v # u => slot'[v] = slot[v]
  <1>1. slot[u] \in Slots \cup {None}
    BY DEF Types
  <1>2. CASE slot[u] = None
    BY <1>2, NoneAssumption DEF Types, SameSlot
  <1>3. CASE slot[u] \in Slots
    <2> DEFINE m == [slot[u] EXCEPT !.state = state]
    <2>1. m \in Slots /\ m.session = slot[u].session
      BY <1>3 DEF Slots
    <2>2. slot[u] # None
      BY <1>3, NoneAssumption
    <2>3. slot' = [slot EXCEPT ![u] = m]
      BY <2>2
    <2> HIDE DEF m
    <2>4. QED BY <1>3, <2>1, <2>3 DEF Types, SameSlot
  <1>4. QED BY <1>1, <1>2, <1>3

\* A step of one task that only moves it, between places that both need the lifecycle lock or
\* both do not.
LEMMA OnlyMoves ==
    ASSUME IInv, NEW u \in Users, NEW a, Moves(u, a),
           UNCHANGED <<token, session, owners, started, children, stuck>>,
           slot' \in [Users -> Slots \cup {None}], SameSlot(slot[u], slot'[u]),
           \A v \in Users : v # u => slot'[v] = slot[v],
           at[u].at \in UnderLifecycle <=> a.at \in UnderLifecycle, a.at # "starting",
           ContextOk(a, slot'[u], token[u], session, started),
           Locks'
    PROVE  IInv'
  <1>1. Types'
    BY MovesFacts DEF IInv, Types
  <1>2. Contexts'
    <2>1. ASSUME NEW v \in Users
          PROVE  ContextOk(at'[v], slot'[v], token[v], session, started)
      <3>1. CASE v = u
        BY <3>1, MovesFacts DEF IInv
      <3>2. CASE v # u
        <4>1. at'[v] = at[v] /\ slot'[v] = slot[v]
          BY <3>2, MovesFacts DEF IInv
        <4>2. QED BY <4>1 DEF IInv, Contexts
      <3>3. QED BY <3>1, <3>2
    <2>2. QED BY <2>1 DEF Contexts
  <1>3. Fresh'
    <2>1. Those({"starting"})' \subseteq Those({"starting"})
      BY MovesFacts DEF IInv
    <2>2. QED BY <2>1 DEF IInv, Fresh
  <1>4. OwnersCounted'
    BY DEF IInv, OwnersCounted
  <1>5. Children'
    <2>1. Those(UnderLifecycle)' = Those(UnderLifecycle)
      BY MovesFacts DEF IInv, Those
    <2>2. QED BY <2>1 DEF IInv, Children
  <1>6. QED BY <1>1, <1>2, <1>3, <1>4, <1>5 DEF IInv

-----------------------------------------------------------------------------
(* Every step keeps the invariant *)

LEMMA KeepsSlot ==
    ASSUME Types, UNCHANGED slot, NEW u \in Users
    PROVE  /\ slot' \in [Users -> Slots \cup {None}] /\ SameSlot(slot[u], slot'[u])
           /\ \A v \in Users : v # u => slot'[v] = slot[v]
  BY DEF Types, SameSlot

\* A task that is not at a place of the session's life keeps its context.
LEMMA KeepsContext ==
    ASSUME NEW a, NEW b, NEW l, NEW m, NEW t, NEW s, NEW n,
           ContextOk(a, l, t, s, n), SameSlot(l, m), None \notin Slots,
           \/ b.at \in {"leaving", "queued"}
           \/ b.at = "killing" /\ a.at = "calling" /\ b.on = a.on
           \/ b.at = "enter" /\ a.at = "idle"
           \/ b.at = "closing" /\ a.at = "starting"
           \/ b.at = "idle" /\ a.at = "enter"
    PROVE  ContextOk(b, m, t, s, n)
  BY LockNames DEF ContextOk, SameSlot

LEMMA Holds ==
    ASSUME IInv, NEW u \in Users
    PROVE  /\ at[u].at \in {"starting", "killed", "closing"} =>
                 HasLifecycle(u) /\ Those(UnderLifecycle) \subseteq {u}
           /\ at[u].at \in {"calling", "killing", "killed"} =>
                 HasOperation(u) /\ Those(UnderOperation) \subseteq {u}
  <1>1. Queue(lifecycle, Those(ForLifecycle), Those(UnderLifecycle))
    BY DEF IInv, Locks
  <1>2. Queue(operation, Those(ForOperation), Those(UnderOperation))
    BY DEF IInv, Locks
  <1>3. ASSUME at[u].at \in UnderLifecycle
        PROVE  HasLifecycle(u) /\ Those(UnderLifecycle) \subseteq {u}
    BY <1>1, <1>3, Holder DEF HasLifecycle
  <1>4. ASSUME at[u].at \in UnderOperation
        PROVE  HasOperation(u) /\ Those(UnderOperation) \subseteq {u}
    BY <1>2, <1>4, Holder DEF HasOperation
  <1>5. QED BY <1>3, <1>4, LockNames

LEMMA EnterKeeps ==
    ASSUME IInv, NEW u \in Users, Enter(u)
    PROVE  IInv'
  <1>1. Types
    BY DEF IInv
  <1>2. PICK kind \in Kinds : at' = [at EXCEPT ![u] = [at |-> "enter", kind |-> kind]]
    BY DEF Enter, Kinds
  <1> DEFINE a == [at |-> "enter", kind |-> kind]
  <1>3. Moves(u, a) /\ a.at = "enter"
    BY <1>2, NewActs DEF Moves
  <1> HIDE DEF a
  <1>4. at[u].at = "idle"
    BY DEF Enter, At
  <1>5. Locks'
    <2>1. Queue(lifecycle', Those(ForLifecycle)', Those(UnderLifecycle)')
      BY <1>1, <1>3, <1>4, LockNames, Joins DEF IInv, Locks, Enter
    <2>2. Queue(operation', Those(ForOperation)', Those(UnderOperation)')
      BY <1>1, <1>3, <1>4, LockNames, Stays DEF IInv, Locks, Enter
    <2>3. QED BY <2>1, <2>2 DEF Locks
  <1>6. ContextOk(a, slot'[u], token[u], session, started)
    <2>1. ContextOk(at[u], slot[u], token[u], session, started)
      BY DEF IInv, Contexts
    <2>2. QED BY <1>1, <1>3, <1>4, <2>1, KeepsSlot, KeepsContext, NoneAssumption DEF Enter
  <1>7. UNCHANGED <<token, session, owners, started, children, stuck, slot>>
    BY DEF Enter
  <1>8. QED BY <1>1, <1>3, <1>4, <1>5, <1>6, <1>7, KeepsSlot, LockNames, OnlyMoves

LEMMA StartFailsKeeps ==
    ASSUME IInv, NEW u \in Users, StartFails(u)
    PROVE  IInv'
  <1>1. Types
    BY DEF IInv
  <1> DEFINE a == [at |-> "closing"]
  <1>3. Moves(u, a) /\ a.at = "closing"
    BY NewActs DEF Moves, StartFails
  <1> HIDE DEF a
  <1>4. at[u].at = "starting"
    BY DEF StartFails, At
  <1>5. Locks'
    <2>1. Queue(lifecycle', Those(ForLifecycle)', Those(UnderLifecycle)')
      <3>1. lifecycle # <<>> /\ Head(lifecycle) = u
        BY <1>4, Holds DEF HasLifecycle
      <3>2. QED BY <1>1, <1>3, <1>4, <3>1, LockNames, Stays DEF IInv, Locks, StartFails
    <2>2. Queue(operation', Those(ForOperation)', Those(UnderOperation)')
      BY <1>1, <1>3, <1>4, LockNames, Stays DEF IInv, Locks, StartFails
    <2>3. QED BY <2>1, <2>2 DEF Locks
  <1>6. ContextOk(a, slot'[u], token[u], session, started)
    <2>1. ContextOk(at[u], slot[u], token[u], session, started)
      BY DEF IInv, Contexts
    <2>2. QED BY <1>1, <1>3, <1>4, <2>1, KeepsSlot, KeepsContext, NoneAssumption DEF StartFails
  <1>7. UNCHANGED <<token, session, owners, started, children, stuck, slot>>
    BY DEF StartFails
  <1>8. QED BY <1>1, <1>3, <1>4, <1>5, <1>6, <1>7, KeepsSlot, LockNames, OnlyMoves

LEMMA CallKeeps ==
    ASSUME IInv, NEW u \in Users, Call(u)
    PROVE  IInv'
  <1>1. Types
    BY DEF IInv
  <1>2. session \in 1 .. started /\ session \in Nat
    <2>1. session = started /\ started \in children
      BY DEF IInv, Children, Call, MayCall
    <2>2. QED BY <1>1, <2>1 DEF IInv, Children, Types
  <1>4. at[u].at = "queued"
    BY DEF Call, At
  <1> DEFINE a == [at |-> "calling", kind |-> at[u].kind, call |-> at[u].call, on |-> session]
  <1>3. Moves(u, a) /\ a.at = "calling" /\ a.on = session
    <2>1. at' = [at EXCEPT ![u] = a]
      BY DEF Call
    <2>2. at[u].kind \in Kinds /\ at[u].call \in Nat
      BY <1>1, <1>4, OldActs
    <2>3. QED BY <1>2, <2>1, <2>2, NewActs DEF Moves
  <1> HIDE DEF a
  <1>5. Locks'
    <2>1. Queue(lifecycle', Those(ForLifecycle)', Those(UnderLifecycle)')
      BY <1>1, <1>3, <1>4, LockNames, Stays DEF IInv, Locks, Call
    <2>2. Queue(operation', Those(ForOperation)', Those(UnderOperation)')
      BY <1>1, <1>3, <1>4, LockNames, Stays DEF IInv, Locks, Call, HasOperation
    <2>3. QED BY <2>1, <2>2 DEF Locks
  <1>6. ContextOk(a, slot'[u], token[u], session, started)
    <2>1. ContextOk(at[u], slot[u], token[u], session, started)
      BY DEF IInv, Contexts
    <2>2. slot[u] # None => slot[u].session = session
      BY DEF Call, MayCall
    <2>3. slot' = slot
      BY DEF Call
    <2>4. QED BY <1>2, <1>3, <1>4, <2>1, <2>2, <2>3, LockNames DEF ContextOk
  <1>7. UNCHANGED <<token, session, owners, started, children, stuck, slot>>
    BY DEF Call
  <1>8. QED BY <1>1, <1>3, <1>4, <1>5, <1>6, <1>7, KeepsSlot, LockNames, OnlyMoves

LEMMA RefusedKeeps ==
    ASSUME IInv, NEW u \in Users, Refused(u)
    PROVE  IInv'
  <1>1. Types
    BY DEF IInv
  <1>4. at[u].at = "queued"
    BY DEF Refused, At
  <1>2. PICK a : Moves(u, a) /\ a.at = "leaving"
    BY <1>1, <1>4, GoesMoves DEF Refused, Leaving
  <1>3. /\ slot' \in [Users -> Slots \cup {None}] /\ SameSlot(slot[u], slot'[u])
        /\ \A v \in Users : v # u => slot'[v] = slot[v]
    BY <1>1, KeepsSlot, PoisonedFacts DEF Refused, Poisoned
  <1>5. Locks'
    <2>1. Queue(lifecycle', Those(ForLifecycle)', Those(UnderLifecycle)')
      BY <1>1, <1>2, <1>4, LockNames, Joins DEF IInv, Locks, Refused, Leaving
    <2>2. Queue(operation', Those(ForOperation)', Those(UnderOperation)')
      BY <1>1, <1>2, <1>4, LockNames, LeavesQueue DEF IInv, Locks, Refused, HasOperation
    <2>3. QED BY <2>1, <2>2 DEF Locks
  <1>6. ContextOk(a, slot'[u], token[u], session, started)
    <2>1. ContextOk(at[u], slot[u], token[u], session, started)
      BY DEF IInv, Contexts
    <2>2. QED BY <1>2, <1>3, <2>1, KeepsContext, NoneAssumption
  <1>7. UNCHANGED <<token, session, owners, started, children, stuck>>
    BY DEF Refused
  <1>8. QED BY <1>2, <1>3, <1>4, <1>5, <1>6, <1>7, LockNames, OnlyMoves

\* A call ends with an answer, good or bad, and the task leaves.
LEMMA CallEnds ==
    ASSUME IInv, NEW u \in Users, At(u, "calling"), NEW state \in {"READY", "POISONED"},
           slot' = IF slot[u] = None THEN slot ELSE [slot EXCEPT ![u].state = state],
           Leaving(u), operation' = Tail(operation),
           UNCHANGED <<token, session, owners, started, children, stuck>>
    PROVE  IInv'
  <1>1. Types
    BY DEF IInv
  <1>4. at[u].at = "calling"
    BY DEF At
  <1>2. PICK a : Moves(u, a) /\ a.at = "leaving"
    BY <1>1, <1>4, GoesMoves DEF Leaving
  <1>3. /\ slot' \in [Users -> Slots \cup {None}] /\ SameSlot(slot[u], slot'[u])
        /\ \A v \in Users : v # u => slot'[v] = slot[v]
    BY <1>1, PoisonedFacts
  <1>5. Locks'
    <2>1. Queue(lifecycle', Those(ForLifecycle)', Those(UnderLifecycle)')
      BY <1>1, <1>2, <1>4, LockNames, Joins DEF IInv, Locks, Leaving
    <2>2. operation # <<>> /\ Head(operation) = u
      BY <1>4, Holds DEF HasOperation
    <2>3. Queue(operation', Those(ForOperation)', Those(UnderOperation)')
      BY <1>1, <1>2, <1>4, <2>2, LockNames, LeavesQueue DEF IInv, Locks
    <2>4. QED BY <2>1, <2>3 DEF Locks
  <1>6. ContextOk(a, slot'[u], token[u], session, started)
    <2>1. ContextOk(at[u], slot[u], token[u], session, started)
      BY DEF IInv, Contexts
    <2>2. QED BY <1>2, <1>3, <2>1, KeepsContext, NoneAssumption
  <1>8. QED BY <1>2, <1>3, <1>4, <1>5, <1>6, LockNames, OnlyMoves

LEMMA AnswerKeeps ==
    ASSUME IInv, NEW u \in Users, Answer(u)
    PROVE  IInv'
  <1>1. CASE slot[u] # None /\ at[u].call < Calls
    <2>1. Types
      BY DEF IInv
    <2>2. at[u].at = "calling"
      BY DEF Answer, At
    <2> DEFINE a == [at |-> "queued", kind |-> at[u].kind, call |-> at[u].call + 1]
    <2>3. Moves(u, a) /\ a.at = "queued"
      <3>1. at' = [at EXCEPT ![u] = a]
        BY <1>1 DEF Answer
      <3>2. at[u].kind \in Kinds /\ at[u].call + 1 \in Nat
        BY <2>1, <2>2, OldActs
      <3>3. QED BY <3>1, <3>2, NewActs DEF Moves
    <2> HIDE DEF a
    <2>4. /\ slot' \in [Users -> Slots \cup {None}] /\ SameSlot(slot[u], slot'[u])
          /\ \A v \in Users : v # u => slot'[v] = slot[v]
      BY <2>1, PoisonedFacts DEF Answer
    <2>5. Locks'
      <3>1. Queue(lifecycle', Those(ForLifecycle)', Those(UnderLifecycle)')
        BY <1>1, <2>1, <2>2, <2>3, LockNames, Stays DEF IInv, Locks, Answer
      <3>2. operation # <<>> /\ Head(operation) = u
        BY <2>2, Holds DEF HasOperation
      <3>3. operation' = Append(Tail(operation), u)
        BY <1>1 DEF Answer
      <3>4. a.at \in ForOperation /\ a.at \notin UnderOperation
        BY <2>3, LockNames
      <3>5. Queue(operation, Those(ForOperation), Those(UnderOperation))
        BY DEF IInv, Locks
      <3>6. Queue(operation', Those(ForOperation)', Those(UnderOperation)')
        BY <2>1, <2>3, <3>2, <3>3, <3>4, <3>5, Requeues
      <3>7. QED BY <3>1, <3>6 DEF Locks
    <2>6. ContextOk(a, slot'[u], token[u], session, started)
      <3>1. ContextOk(at[u], slot[u], token[u], session, started)
        BY DEF IInv, Contexts
      <3>2. QED BY <2>3, <2>4, <3>1, KeepsContext, NoneAssumption
    <2>7. UNCHANGED <<token, session, owners, started, children, stuck>>
      BY DEF Answer
    <2>8. QED BY <2>2, <2>3, <2>4, <2>5, <2>6, <2>7, LockNames, OnlyMoves
  <1>2. CASE ~(slot[u] # None /\ at[u].call < Calls)
    BY <1>2, CallEnds DEF Answer
  <1>3. QED BY <1>1, <1>2

LEMMA BadAnswerKeeps ==
    ASSUME IInv, NEW u \in Users, BadAnswer(u)
    PROVE  IInv'
  BY CallEnds DEF BadAnswer, Poisoned

LEMMA CallFailsKeeps ==
    ASSUME IInv, NEW u \in Users, CallFails(u)
    PROVE  IInv'
  <1>1. Types
    BY DEF IInv
  <1>4. at[u].at = "calling"
    BY DEF CallFails, At
  <1>2. PICK a : Moves(u, a) /\ a.at = "killing" /\ a.on = at[u].on
    BY <1>1, <1>4, GoesMoves DEF CallFails
  <1>3. /\ slot' \in [Users -> Slots \cup {None}] /\ SameSlot(slot[u], slot'[u])
        /\ \A v \in Users : v # u => slot'[v] = slot[v]
    BY <1>1, PoisonedFacts DEF CallFails, Poisoned
  <1>5. Locks'
    <2>1. Queue(lifecycle', Those(ForLifecycle)', Those(UnderLifecycle)')
      BY <1>1, <1>2, <1>4, LockNames, Joins DEF IInv, Locks, CallFails
    <2>2. operation # <<>> /\ Head(operation) = u
      BY <1>4, Holds DEF HasOperation
    <2>3. Queue(operation', Those(ForOperation)', Those(UnderOperation)')
      BY <1>1, <1>2, <1>4, <2>2, LockNames, Stays DEF IInv, Locks, CallFails
    <2>4. QED BY <2>1, <2>3 DEF Locks
  <1>6. ContextOk(a, slot'[u], token[u], session, started)
    <2>1. ContextOk(at[u], slot[u], token[u], session, started)
      BY DEF IInv, Contexts
    <2>2. QED BY <1>2, <1>3, <1>4, <2>1, KeepsContext, NoneAssumption
  <1>7. UNCHANGED <<token, session, owners, started, children, stuck>>
    BY DEF CallFails
  <1>8. QED BY <1>2, <1>3, <1>4, <1>5, <1>6, <1>7, LockNames, OnlyMoves

LEMMA CancelKeeps ==
    ASSUME IInv, NEW u \in Users, Cancel(u)
    PROVE  IInv'
  <1>1. Types
    BY DEF IInv
  <1>2. UNCHANGED <<token, session, owners, started, children, stuck, slot>>
    BY DEF Cancel
  <1>3. ContextOk(at[u], slot[u], token[u], session, started)
    BY DEF IInv, Contexts
  <1>4. CASE At(u, "enter")
    <2>1. at[u].at = "enter"
      BY <1>4 DEF At
    <2> DEFINE a == [at |-> "idle"]
    <2>2. Moves(u, a) /\ a.at = "idle"
      BY <2>1, NewActs DEF Moves, Cancel, At, Idle
    <2> HIDE DEF a
    <2>3. lifecycle' = RemoveFirst(lifecycle, u) /\ operation' = operation
      BY <2>1 DEF Cancel, At
    <2>4. Queue(lifecycle', Those(ForLifecycle)', Those(UnderLifecycle)')
      BY <1>1, <2>1, <2>2, <2>3, LockNames, Withdraws DEF IInv, Locks
    <2>5. Queue(operation', Those(ForOperation)', Those(UnderOperation)')
      BY <1>1, <2>1, <2>2, <2>3, LockNames, Stays DEF IInv, Locks
    <2>6. ContextOk(a, slot'[u], token[u], session, started)
      BY <1>1, <1>2, <1>3, <2>1, <2>2, KeepsSlot, KeepsContext, NoneAssumption
    <2>7. Locks'
      BY <2>4, <2>5 DEF Locks
    <2>8. QED BY <1>1, <1>2, <2>1, <2>2, <2>6, <2>7, KeepsSlot, LockNames, OnlyMoves
  <1>5. CASE At(u, "queued")
    <2>1. at[u].at = "queued"
      BY <1>5 DEF At
    <2>2. Leaving(u) /\ operation' = RemoveFirst(operation, u)
      BY <2>1 DEF Cancel, At
    <2>3. PICK a : Moves(u, a) /\ a.at = "leaving"
      BY <1>1, <2>1, <2>2, GoesMoves DEF Leaving
    <2>4. Queue(lifecycle', Those(ForLifecycle)', Those(UnderLifecycle)')
      BY <1>1, <2>1, <2>2, <2>3, LockNames, Joins DEF IInv, Locks, Leaving
    <2>5. Queue(operation', Those(ForOperation)', Those(UnderOperation)')
      BY <1>1, <2>1, <2>2, <2>3, LockNames, Withdraws DEF IInv, Locks
    <2>6. ContextOk(a, slot'[u], token[u], session, started)
      BY <1>1, <1>2, <1>3, <2>3, KeepsSlot, KeepsContext, NoneAssumption
    <2>7. Locks'
      BY <2>4, <2>5 DEF Locks
    <2>8. QED BY <1>1, <1>2, <2>1, <2>3, <2>6, <2>7, KeepsSlot, LockNames, OnlyMoves
  <1>6. QED BY <1>4, <1>5 DEF Cancel

-----------------------------------------------------------------------------
(* Steps that change the session or its owners *)

Sharers(s) == {u \in Users : token[u] = s}

LEMMA SharersFinite ==
    \A s : /\ IsFiniteSet(Sharers(s)) /\ Cardinality(Sharers(s)) \in Nat
           /\ Cardinality(Sharers(s)) <= Cardinality(Users) /\ Cardinality(Users) \in Nat
           /\ Cardinality(Sharers(s)) = 0 <=> Sharers(s) = {}
  <1>1. IsFiniteSet(Users) /\ \A s : Sharers(s) \subseteq Users
    BY MujocoAssumption DEF Sharers
  <1>2. QED BY <1>1, FS_Subset, FS_CardinalityType, FS_EmptySet

\* One more, one less.
LEMMA SharerComes ==
    ASSUME Types, NEW u \in Users, NEW s, token[u] # s, token' = [token EXCEPT ![u] = s]
    PROVE  Cardinality(Sharers(s))' = Cardinality(Sharers(s)) + 1
  <1>1. Sharers(s)' = Sharers(s) \cup {u} /\ u \notin Sharers(s)
    BY DEF Sharers, Types
  <1>2. QED BY <1>1, SharersFinite, FS_AddElement

LEMMA SharerGoes ==
    ASSUME Types, NEW u \in Users, NEW s, s # None, token' = [token EXCEPT ![u] = None]
    PROVE  Cardinality(Sharers(s))' = Cardinality(Sharers(s)) - IF token[u] = s THEN 1 ELSE 0
  <1>1. CASE token[u] = s
    <2>1. Sharers(s)' = Sharers(s) \ {u} /\ u \in Sharers(s)
      BY <1>1 DEF Sharers, Types
    <2>2. QED BY <1>1, <2>1, SharersFinite, FS_RemoveElement
  <1>2. CASE token[u] # s
    <2>1. Sharers(s)' = Sharers(s)
      BY <1>2 DEF Sharers, Types
    <2>2. QED BY <1>2, <2>1, SharersFinite
  <1>3. QED BY <1>1, <1>2

\* Who is alone has no others.
LEMMA Alone ==
    ASSUME NEW s, Cardinality(Sharers(s)) = 1, NEW u \in Sharers(s), NEW v \in Sharers(s)
    PROVE  u = v
  BY SharersFinite, FS_Singleton

LEMMA OwnersAreSharers ==
    OwnersCounted <=> IF session = None THEN owners = 0
                      ELSE owners = Cardinality(Sharers(session)) /\ owners > 0
  BY DEF OwnersCounted, Sharers

LEMMA LostFacts ==
    ASSUME Types, NEW state \in {"POISONED", "CLOSED"}
    PROVE  /\ Lost(state) \in [Users -> Slots \cup {None}]
           /\ \A u \in Users : SameSlot(slot[u], Lost(state)[u])
           /\ \A u \in Users : Lost(state)[u] # slot[u] => slot[u] # None /\ slot[u].session = session
  <1>1. ASSUME NEW u \in Users
        PROVE  /\ Lost(state)[u] \in Slots \cup {None} /\ SameSlot(slot[u], Lost(state)[u])
               /\ Lost(state)[u] # slot[u] => slot[u] # None /\ slot[u].session = session
    <2>1. slot[u] \in Slots \cup {None}
      BY DEF Types
    <2>2. CASE slot[u] \in Slots /\ slot[u].session = session
      <3> DEFINE m == [slot[u] EXCEPT !.state = state]
      <3>1. m \in Slots /\ m.session = slot[u].session
        BY <2>2 DEF Slots
      <3>2. Lost(state)[u] = m
        BY <2>2, NoneAssumption DEF Lost
      <3> HIDE DEF m
      <3>3. QED BY <2>2, <3>1, <3>2, NoneAssumption DEF SameSlot
    <2>3. CASE slot[u] = None \/ slot[u].session # session
      <3>1. Lost(state)[u] = slot[u]
        BY <2>3 DEF Lost
      <3>2. QED BY <2>1, <3>1 DEF SameSlot
    <2>4. QED BY <2>1, <2>2, <2>3
  <1>2. Lost(state) = [u \in Users |-> Lost(state)[u]]
    BY DEF Lost
  <1>3. QED BY <1>1, <1>2

\* Who holds the lifecycle lock and neither starts nor stops a child finds none of those.
LEMMA NobodyElse ==
    ASSUME IInv, NEW u \in Users, HasLifecycle(u), at[u].at \notin UnderLifecycle
    PROVE  Those(UnderLifecycle) = {}
  <1>1. Queue(lifecycle, Those(ForLifecycle), Those(UnderLifecycle))
    BY DEF IInv, Locks
  <1>2. Those(UnderLifecycle) \subseteq {u}
    BY <1>1, QueueHead DEF HasLifecycle
  <1>3. QED BY <1>2 DEF Those

\* A task comes into the context of the last session.
LEMMA InsideKeeps ==
    ASSUME IInv, NEW u \in Users, at[u].at \in {"enter", "starting"}, HasLifecycle(u),
           Inside(u, started), session' = started, UNCHANGED <<started, children, stuck>>,
           session # None \/ at[u].at = "starting"
    PROVE  IInv'
  <1>1. Types
    BY DEF IInv
  <1>2. children \ stuck = {started} /\ started \in 1 .. started /\ started \in Nat /\ started # None
    <2>1. session # None \/ Those(UnderLifecycle) # {}
      BY LockNames DEF Those
    <2>2. QED BY <1>1, <2>1, NoneAssumption DEF IInv, Children, Types
  <1>3. ContextOk(at[u], slot[u], token[u], session, started)
    BY DEF IInv, Contexts
  <1>4. token[u] = None
    BY <1>3 DEF ContextOk
  <1>5. Those(UnderLifecycle) \subseteq {u}
    <2>1. CASE at[u].at = "starting"
      BY <2>1, Holds
    <2>2. CASE at[u].at = "enter"
      BY <2>2, NobodyElse, LockNames
    <2>3. QED BY <2>1, <2>2
  <1> DEFINE a == [at |-> "queued", kind |-> at[u].kind, call |-> 1]
  <1>6. Moves(u, a) /\ a.at = "queued"
    <2>1. at' = [at EXCEPT ![u] = a]
      BY DEF Inside
    <2>2. at[u].kind \in Kinds
      BY <1>1, OldActs
    <2>3. QED BY <2>1, <2>2, NewActs DEF Moves
  <1> HIDE DEF a
  <1> DEFINE m == IF at[u].kind = "run" THEN [session |-> started, state |-> "PENDING"] ELSE None
  <1>7. m \in Slots \cup {None} /\ (m # None => m.session = started)
    BY <1>2 DEF Slots
  <1>8. slot' = [slot EXCEPT ![u] = m]
    BY DEF Inside
  <1> HIDE DEF m
  <1>9. token' = [token EXCEPT ![u] = started]
    BY DEF Inside
  <1>10. Types'
    BY <1>1, <1>2, <1>6, <1>7, <1>8, <1>9, MovesFacts DEF Types, Inside
  <1>11. Locks'
    <2>1. Queue(lifecycle', Those(ForLifecycle)', Those(UnderLifecycle)')
      BY <1>1, <1>6, LockNames, LeavesQueue DEF IInv, Locks, Inside, HasLifecycle
    <2>2. Queue(operation', Those(ForOperation)', Those(UnderOperation)')
      BY <1>1, <1>6, LockNames, Joins DEF IInv, Locks, Inside
    <2>3. QED BY <2>1, <2>2 DEF Locks
  <1>12. Contexts'
    <2>1. ASSUME NEW v \in Users
          PROVE  ContextOk(at'[v], slot'[v], token'[v], started, started)
      <3>1. CASE v = u
        <4>1. at'[v] = a /\ slot'[v] = m /\ token'[v] = started
          BY <1>1, <1>6, <1>8, <1>9, <3>1, MovesFacts DEF Types
        <4>2. QED BY <1>2, <1>6, <1>7, <4>1, LockNames DEF ContextOk
      <3>2. CASE v # u
        <4>1. at'[v] = at[v] /\ slot'[v] = slot[v] /\ token'[v] = token[v]
          BY <1>1, <1>6, <1>8, <1>9, <3>2, MovesFacts DEF Types
        <4>2. at[v].at \notin UnderLifecycle
          BY <1>5, <3>2 DEF Those
        <4>3. ContextOk(at[v], slot[v], token[v], session, started)
          BY DEF IInv, Contexts
        <4>4. session = None => at[v].at # "calling" \/ slot[v] = None
          BY <4>3, NoneAssumption, LockNames DEF ContextOk
        <4>5. session # None => session = started
          BY DEF IInv, Children
        <4>6. ContextOk(at[v], slot[v], token[v], started, started)
          BY <4>2, <4>3, <4>4, <4>5 DEF ContextOk
        <4>7. QED BY <4>1, <4>6
      <3>3. QED BY <3>1, <3>2
    <2>2. QED BY <2>1 DEF Contexts
  <1>13. Those(UnderLifecycle)' = {} /\ Those({"starting"})' = {}
    <2>1. Those({"starting"}) \subseteq Those(UnderLifecycle)
      BY LockNames DEF Those
    <2>2. QED BY <1>1, <1>5, <1>6, <2>1, LockNames, MovesFacts
  <1>14. Fresh'
    BY <1>13 DEF Fresh
  <1>15. OwnersCounted'
    <2>1. owners = Cardinality(Sharers(started))
      <3>1. CASE session # None
        BY <3>1, OwnersAreSharers DEF IInv, Children
      <3>2. CASE session = None
        <4>1. Those({"starting"}) # {}
          BY <3>2 DEF Those
        <4>2. Sharers(started) = {}
          BY <4>1 DEF IInv, Fresh, Sharers
        <4>3. owners = 0
          BY <3>2 DEF IInv, OwnersCounted
        <4>4. QED BY <4>2, <4>3, SharersFinite
      <3>3. QED BY <3>1, <3>2
    <2>2. Cardinality(Sharers(started))' = Cardinality(Sharers(started)) + 1
      BY <1>1, <1>2, <1>4, <1>9, SharerComes
    <2>3. owners' = owners + 1 /\ owners \in Nat
      BY <1>1 DEF Inside, Types
    <2>4. session' = started' /\ session' # None /\ owners' > 0 /\ owners' = Cardinality(Sharers(started))'
      BY <1>2, <2>1, <2>2, <2>3
    <2>5. Cardinality({v \in Users : token'[v] = session'}) = owners'
      BY <2>4 DEF Sharers
    <2>6. QED BY <2>4, <2>5 DEF OwnersCounted
  <1>16. Children'
    BY <1>2, <1>13 DEF IInv, Children
  <1>17. QED BY <1>10, <1>11, <1>12, <1>14, <1>15, <1>16 DEF IInv

LEMMA EnterReadyKeeps ==
    ASSUME IInv, NEW u \in Users, EnterReady(u)
    PROVE  IInv'
  <1>1. session = started
    BY DEF EnterReady, IInv, Children
  <1>2. QED BY <1>1, InsideKeeps DEF EnterReady, At

LEMMA StartOkKeeps ==
    ASSUME IInv, NEW u \in Users, StartOk(u)
    PROVE  IInv'
  <1>1. HasLifecycle(u)
    BY Holds DEF StartOk, At
  <1>2. QED BY <1>1, InsideKeeps DEF StartOk, At

LEMMA StartKeeps ==
    ASSUME IInv, NEW u \in Users, Start(u)
    PROVE  IInv'
  <1>1. Types
    BY DEF IInv
  <1>2. at[u].at = "enter"
    BY DEF Start, At
  <1>3. PICK a : Moves(u, a) /\ a.at = "starting"
    BY <1>1, <1>2, GoesMoves DEF Start
  <1>4. started \in Nat /\ started' = started + 1
    BY <1>1 DEF Types, Start
  <1>5. Types'
    BY <1>1, <1>3, <1>4, MovesFacts DEF Types, Start
  <1>6. Locks'
    <2>1. Queue(lifecycle', Those(ForLifecycle)', Those(UnderLifecycle)')
      BY <1>1, <1>2, <1>3, LockNames, Stays DEF IInv, Locks, Start, HasLifecycle
    <2>2. Queue(operation', Those(ForOperation)', Those(UnderOperation)')
      BY <1>1, <1>2, <1>3, LockNames, Stays DEF IInv, Locks, Start
    <2>3. QED BY <2>1, <2>2 DEF Locks
  <1>7. Contexts'
    <2>1. ASSUME NEW v \in Users
          PROVE  ContextOk(at'[v], slot[v], token[v], session, started + 1)
      <3>1. ContextOk(at[v], slot[v], token[v], session, started)
        BY DEF IInv, Contexts
      <3>2. CASE v = u
        <4>1. at'[v].at = "starting" /\ session = None
          BY <1>1, <1>3, <3>2, MovesFacts DEF Start
        <4>2. QED BY <1>2, <3>1, <3>2, <4>1, LockNames DEF ContextOk
      <3>3. CASE v # u
        <4>1. at'[v] = at[v]
          BY <1>1, <1>3, <3>3, MovesFacts
        <4>2. QED BY <1>4, <3>1, <4>1 DEF ContextOk
      <3>4. QED BY <3>2, <3>3
    <2>2. QED BY <1>4, <2>1 DEF Contexts, Start
  <1>8. Fresh'
    <2>1. ASSUME NEW v \in Users PROVE token[v] # started + 1
      <3>1. ContextOk(at[v], slot[v], token[v], session, started)
        BY DEF IInv, Contexts
      <3>2. CASE token[v] = None
        BY <1>4, <3>2, NoneAssumption
      <3>3. CASE token[v] # None
        BY <1>4, <3>1, <3>3 DEF ContextOk
      <3>4. QED BY <3>2, <3>3
    <2>2. QED BY <1>4, <2>1 DEF Fresh, Start
  <1>9. OwnersCounted'
    BY DEF IInv, OwnersCounted, Start
  <1>10. Children'
    <2>1. Those(UnderLifecycle) = {}
      BY <1>2, LockNames, NobodyElse DEF Start
    <2>2. u \in Those(UnderLifecycle)'
      BY <1>1, <1>3, LockNames, MovesFacts
    <2>3. /\ session = None /\ session' = None
          /\ stuck' = stuck /\ children' = children \cup {started + 1}
      BY DEF Start
    <2>4. stuck \subseteq children /\ children \subseteq 1 .. started /\ children \ stuck = {}
      BY <2>1, <2>3 DEF IInv, Children
    <2>5. started + 1 \notin children
      BY <1>4, <2>4
    <2>6. children' \ stuck' = {started + 1} /\ stuck' \subseteq children'
      BY <2>3, <2>4, <2>5
    <2>7. children' \subseteq 1 .. started'
      BY <1>4, <2>3, <2>4
    <2>8. QED BY <1>4, <2>2, <2>3, <2>6, <2>7 DEF Children
  <1>11. QED BY <1>5, <1>6, <1>7, <1>8, <1>9, <1>10 DEF IInv

\* The session ends: no call that matters to a slot is on.
LEMMA EndsContext ==
    ASSUME NEW a, NEW l, NEW m, NEW t, NEW s, NEW n,
           ContextOk(a, l, t, s, n), SameSlot(l, m), None \notin Slots,
           a.at # "calling" \/ l = None
    PROVE  ContextOk(a, m, t, None, n)
  BY DEF ContextOk, SameSlot

LEMMA KillKeeps ==
    ASSUME IInv, NEW u \in Users, Kill(u)
    PROVE  IInv'
  <1>1. Types
    BY DEF IInv
  <1>2. at[u].at = "killing" /\ at[u].on \in Nat
    BY <1>1, OldActs, LockNames DEF Kill, At
  <1>3. operation # <<>> /\ Head(operation) = u /\ Those(UnderOperation) \subseteq {u}
    BY <1>2, Holds DEF HasOperation
  <1>4. ContextOk(at[u], slot[u], token[u], session, started)
    BY DEF IInv, Contexts
  <1>5. CASE session = at[u].on
    <2>1. PICK a : Moves(u, a) /\ a.at = "killed" /\ a.on = at[u].on
      BY <1>1, <1>2, <1>5, GoesMoves DEF Kill
    <2>2. slot' = Lost("POISONED") /\ session' = None /\ owners' = 0
      BY <1>5 DEF Kill, Ends
    <2>3. UNCHANGED <<token, started, children, stuck, lifecycle, operation>>
      BY <1>5 DEF Kill
    <2>4. Types'
      BY <1>1, <2>1, <2>2, <2>3, LostFacts, MovesFacts DEF Types
    <2>5. Locks'
      <3>1. Queue(lifecycle', Those(ForLifecycle)', Those(UnderLifecycle)')
        BY <1>1, <1>2, <2>1, <2>3, LockNames, Stays DEF IInv, Locks, Kill, HasLifecycle
      <3>2. Queue(operation', Those(ForOperation)', Those(UnderOperation)')
        BY <1>1, <1>2, <1>3, <2>1, <2>3, LockNames, Stays DEF IInv, Locks
      <3>3. QED BY <3>1, <3>2 DEF Locks
    <2>6. Contexts'
      <3>1. ASSUME NEW v \in Users
            PROVE  ContextOk(at'[v], slot'[v], token[v], None, started)
        <4>1. ContextOk(at[v], slot[v], token[v], session, started) /\ SameSlot(slot[v], slot'[v])
          BY <1>1, <2>2, LostFacts DEF IInv, Contexts
        <4>2. CASE v # u
          <5>1. at'[v] = at[v] /\ at[v].at # "calling"
            BY <1>1, <1>3, <2>1, <4>2, LockNames, MovesFacts DEF Those
          <5>2. QED BY <4>1, <5>1, EndsContext, NoneAssumption
        <4>3. CASE v = u
          <5>1. at'[v] = a
            BY <1>1, <2>1, <4>3, MovesFacts
          <5>2. ContextOk(at[v], slot'[v], token[v], None, started)
            BY <1>2, <4>1, <4>3, EndsContext, NoneAssumption
          <5>3. QED BY <1>2, <2>1, <4>3, <5>1, <5>2, LockNames DEF ContextOk
        <4>4. QED BY <4>2, <4>3
      <3>2. QED BY <2>2, <2>3, <3>1 DEF Contexts
    <2>7. Fresh'
      <3>1. Those({"starting"})' \subseteq Those({"starting"})
        BY <1>1, <2>1, MovesFacts
      <3>2. QED BY <2>3, <3>1 DEF IInv, Fresh
    <2>8. OwnersCounted'
      BY <2>2 DEF OwnersCounted
    <2>9. Children'
      <3>1. u \in Those(UnderLifecycle)'
        BY <1>1, <2>1, LockNames, MovesFacts
      <3>2. session # None
        BY <1>2, <1>5, NoneAssumption
      <3>3. QED BY <2>2, <2>3, <3>1, <3>2 DEF IInv, Children
    <2>10. QED BY <2>4, <2>5, <2>6, <2>7, <2>8, <2>9 DEF IInv
  <1>6. CASE session # at[u].on
    <2>1. PICK a : Moves(u, a) /\ a.at = "leaving"
      BY <1>1, <1>2, <1>6, GoesMoves DEF Kill
    <2>2. UNCHANGED <<slot, token, session, owners, started, children, stuck>>
      BY <1>6 DEF Kill
    <2>3. Locks'
      <3>1. /\ lifecycle' = Append(Tail(lifecycle), u) /\ operation' = Tail(operation)
            /\ lifecycle # <<>> /\ Head(lifecycle) = u
        BY <1>6 DEF Kill, HasLifecycle
      <3>2. /\ Queue(lifecycle, Those(ForLifecycle), Those(UnderLifecycle))
            /\ Queue(operation, Those(ForOperation), Those(UnderOperation))
        BY DEF IInv, Locks
      <3>3. Queue(lifecycle', Those(ForLifecycle)', Those(UnderLifecycle)')
        BY <1>1, <2>1, <3>1, <3>2, LockNames, Requeues
      <3>4. Queue(operation', Those(ForOperation)', Those(UnderOperation)')
        BY <1>1, <1>3, <2>1, <3>1, <3>2, LockNames, LeavesQueue
      <3>5. QED BY <3>3, <3>4 DEF Locks
    <2>4. ContextOk(a, slot'[u], token[u], session, started)
      BY <1>1, <1>4, <2>1, <2>2, KeepsSlot, KeepsContext, NoneAssumption
    <2>5. QED BY <1>1, <1>2, <2>1, <2>2, <2>3, <2>4, KeepsSlot, LockNames, OnlyMoves
  <1>7. QED BY <1>5, <1>6

\* The end of a child, by the task that stopped it; it was the last.
LEMMA GoneKeeps ==
    ASSUME IInv, NEW u \in Users, at[u].at \in {"killed", "closing"}, Gone,
           UNCHANGED <<started, session>>, Those(UnderLifecycle)' = {}
    PROVE  Children'
  <1>1. session = None
    BY LockNames DEF IInv, Contexts, ContextOk
  <1>2. children \ stuck = {started} /\ stuck \subseteq children /\ children \subseteq 1 .. started
    <2>1. u \in Those(UnderLifecycle)
      BY LockNames DEF Those
    <2>2. QED BY <2>1 DEF IInv, Children
  <1>3. \/ children' = children \ {started} /\ stuck' = stuck
        \/ stuck' = stuck \cup {started} /\ children' = children
    BY DEF Gone
  <1>4. stuck' \subseteq children' /\ children' \subseteq 1 .. started /\ children' \ stuck' = {}
    BY <1>2, <1>3
  <1>5. QED BY <1>1, <1>4 DEF Children

\* A task that stops no child any more: those who are left neither.
LEMMA NobodyLeft ==
    ASSUME IInv, NEW u \in Users, at[u].at \in {"killed", "closing"}, NEW a, Moves(u, a),
           a.at \notin UnderLifecycle
    PROVE  Those(UnderLifecycle)' = {} /\ Those({"starting"})' = {}
  <1>1. Those(UnderLifecycle) \subseteq {u} /\ Those({"starting"}) \subseteq Those(UnderLifecycle)
    BY Holds, LockNames DEF Those
  <1>2. QED BY <1>1, LockNames, MovesFacts DEF IInv

LEMMA KilledKeeps ==
    ASSUME IInv, NEW u \in Users, Killed(u)
    PROVE  IInv'
  <1>1. Types
    BY DEF IInv
  <1>2. at[u].at = "killed"
    BY DEF Killed, At
  <1>3. PICK a : Moves(u, a) /\ a.at = "leaving"
    BY <1>1, <1>2, GoesMoves DEF Killed
  <1>4. UNCHANGED <<slot, token, session, owners, started>>
    BY DEF Killed
  <1>5. Types'
    BY <1>1, <1>3, <1>4, MovesFacts DEF Types
  <1>6. Locks'
    <2>1. /\ lifecycle' = Append(Tail(lifecycle), u) /\ operation' = Tail(operation)
          /\ lifecycle # <<>> /\ Head(lifecycle) = u /\ operation # <<>> /\ Head(operation) = u
      BY <1>2, Holds DEF Killed, HasLifecycle, HasOperation
    <2>2. /\ Queue(lifecycle, Those(ForLifecycle), Those(UnderLifecycle))
          /\ Queue(operation, Those(ForOperation), Those(UnderOperation))
      BY DEF IInv, Locks
    <2>3. Queue(lifecycle', Those(ForLifecycle)', Those(UnderLifecycle)')
      BY <1>1, <1>3, <2>1, <2>2, LockNames, Requeues
    <2>4. Queue(operation', Those(ForOperation)', Those(UnderOperation)')
      BY <1>1, <1>3, <2>1, <2>2, LockNames, LeavesQueue
    <2>5. QED BY <2>3, <2>4 DEF Locks
  <1>7. Contexts'
    <2>1. ASSUME NEW v \in Users
          PROVE  ContextOk(at'[v], slot[v], token[v], session, started)
      <3>1. ContextOk(at[v], slot[v], token[v], session, started)
        BY DEF IInv, Contexts
      <3>2. CASE v = u
        <4>1. at'[v] = a
          BY <1>1, <1>3, <3>2, MovesFacts
        <4>2. QED BY <1>3, <3>1, <4>1, LockNames DEF ContextOk
      <3>3. CASE v # u
        BY <1>1, <1>3, <3>1, <3>3, MovesFacts
      <3>4. QED BY <3>2, <3>3
    <2>2. QED BY <1>4, <2>1 DEF Contexts
  <1>8. Those(UnderLifecycle)' = {} /\ Those({"starting"})' = {}
    BY <1>2, <1>3, LockNames, NobodyLeft
  <1>9. Fresh'
    BY <1>8 DEF Fresh
  <1>10. OwnersCounted'
    BY <1>4 DEF IInv, OwnersCounted
  <1>11. Children'
    BY <1>2, <1>4, <1>8, GoneKeeps DEF Killed
  <1>12. QED BY <1>5, <1>6, <1>7, <1>9, <1>10, <1>11 DEF IInv

LEMMA ClosedKeeps ==
    ASSUME IInv, NEW u \in Users, Closed(u)
    PROVE  IInv'
  <1>1. Types
    BY DEF IInv
  <1>2. at[u].at = "closing"
    BY DEF Closed, At
  <1> DEFINE a == [at |-> "idle"]
  <1>3. Moves(u, a) /\ a.at = "idle"
    BY NewActs DEF Moves, Closed, Idle
  <1> HIDE DEF a
  <1>4. UNCHANGED <<slot, token, session, owners, started, operation>>
    BY DEF Closed
  <1>5. Types'
    BY <1>1, <1>3, <1>4, MovesFacts DEF Types
  <1>6. Locks'
    <2>1. lifecycle' = Tail(lifecycle) /\ lifecycle # <<>> /\ Head(lifecycle) = u
      BY <1>2, Holds DEF Closed, HasLifecycle
    <2>2. /\ Queue(lifecycle, Those(ForLifecycle), Those(UnderLifecycle))
          /\ Queue(operation, Those(ForOperation), Those(UnderOperation))
      BY DEF IInv, Locks
    <2>3. Queue(lifecycle', Those(ForLifecycle)', Those(UnderLifecycle)')
      BY <1>1, <1>3, <2>1, <2>2, LockNames, LeavesQueue
    <2>4. Queue(operation', Those(ForOperation)', Those(UnderOperation)')
      BY <1>1, <1>2, <1>3, <1>4, <2>2, LockNames, Stays
    <2>5. QED BY <2>3, <2>4 DEF Locks
  <1>7. Contexts'
    <2>1. ASSUME NEW v \in Users
          PROVE  ContextOk(at'[v], slot[v], token[v], session, started)
      <3>1. ContextOk(at[v], slot[v], token[v], session, started)
        BY DEF IInv, Contexts
      <3>2. CASE v = u
        <4>1. at'[v] = a
          BY <1>1, <1>3, <3>2, MovesFacts
        <4>2. QED BY <1>2, <1>3, <3>1, <3>2, <4>1, LockNames DEF ContextOk
      <3>3. CASE v # u
        BY <1>1, <1>3, <3>1, <3>3, MovesFacts
      <3>4. QED BY <3>2, <3>3
    <2>2. QED BY <1>4, <2>1 DEF Contexts
  <1>8. Those(UnderLifecycle)' = {} /\ Those({"starting"})' = {}
    BY <1>2, <1>3, LockNames, NobodyLeft
  <1>9. Fresh'
    BY <1>8 DEF Fresh
  <1>10. OwnersCounted'
    BY <1>4 DEF IInv, OwnersCounted
  <1>11. Children'
    BY <1>2, <1>4, <1>8, GoneKeeps DEF Closed
  <1>12. QED BY <1>5, <1>6, <1>7, <1>9, <1>10, <1>11 DEF IInv

\* The last owner of the session leaves it: nobody else has a slot of it.
LEMMA LastLeaves ==
    ASSUME IInv, NEW u \in Users, Mine(u), owners = 1, NEW v \in Users, v # u
    PROVE  token[v] # session /\ (slot[v] # None => slot[v].session # session)
  <1>1. Cardinality(Sharers(session)) = 1
    BY OwnersAreSharers DEF IInv, Mine
  <1>2. u \in Sharers(session)
    BY DEF Mine, Sharers
  <1>3. token[v] # session
    BY <1>1, <1>2, Alone DEF Sharers
  <1>4. slot[v] # None => token[v] = slot[v].session
    BY DEF IInv, Contexts, ContextOk
  <1>5. QED BY <1>3, <1>4

LEMMA LeaveKeeps ==
    ASSUME IInv, NEW u \in Users, Leave(u)
    PROVE  IInv'
  <1>1. Types
    BY DEF IInv
  <1>2. at[u].at = "leaving"
    BY DEF Leave, At
  <1>3. lifecycle # <<>> /\ Head(lifecycle) = u
    BY DEF Leave, HasLifecycle
  <1>4. /\ Queue(lifecycle, Those(ForLifecycle), Those(UnderLifecycle))
        /\ Queue(operation, Those(ForOperation), Those(UnderOperation))
    BY DEF IInv, Locks
  <1>5. Those(UnderLifecycle) = {} /\ Those({"starting"}) = {}
    <2>1. Those(UnderLifecycle) = {}
      BY <1>2, NobodyElse, LockNames DEF Leave
    <2>2. QED BY <2>1, LockNames DEF Those
  <1>6. /\ token' = [token EXCEPT ![u] = None] /\ token' \in [Users -> Nat \cup {None}]
        /\ UNCHANGED <<started, children, stuck, operation>>
    BY <1>1 DEF Leave, Types
  <1>7. CASE Mine(u) /\ owners = 1
    <2> DEFINE a == [at |-> "closing"]
    <2>1. Moves(u, a) /\ a.at = "closing"
      BY <1>7, NewActs DEF Moves, Leave
    <2> HIDE DEF a
    <2>2. /\ slot' = [Lost("CLOSED") EXCEPT ![u] = None] /\ lifecycle' = lifecycle
          /\ session' = None /\ owners' = 0
      BY <1>7 DEF Leave, Ends
    <2>3. /\ slot' \in [Users -> Slots \cup {None}] /\ slot'[u] = None
          /\ \A v \in Users : v # u => slot'[v] = Lost("CLOSED")[v] /\ SameSlot(slot[v], slot'[v])
      BY <1>1, <2>2, LostFacts
    <2>4. Types'
      BY <1>1, <1>6, <2>1, <2>2, <2>3, MovesFacts DEF Types
    <2>5. Locks'
      <3>1. Queue(lifecycle', Those(ForLifecycle)', Those(UnderLifecycle)')
        BY <1>1, <1>2, <1>3, <1>4, <2>1, <2>2, LockNames, Stays
      <3>2. Queue(operation', Those(ForOperation)', Those(UnderOperation)')
        BY <1>1, <1>2, <1>4, <1>6, <2>1, LockNames, Stays
      <3>3. QED BY <3>1, <3>2 DEF Locks
    <2>6. Contexts'
      <3>1. ASSUME NEW v \in Users
            PROVE  ContextOk(at'[v], slot'[v], token'[v], None, started)
        <4>1. ContextOk(at[v], slot[v], token[v], session, started)
          BY DEF IInv, Contexts
        <4>2. CASE v = u
          <5>1. at'[v] = a /\ token'[v] = None /\ slot'[v] = None
            BY <1>1, <1>6, <2>1, <2>3, <4>2, MovesFacts DEF Types
          <5>2. QED BY <2>1, <5>1, LockNames DEF ContextOk
        <4>3. CASE v # u
          <5>1. at'[v] = at[v] /\ token'[v] = token[v] /\ SameSlot(slot[v], slot'[v])
            BY <1>1, <1>6, <2>1, <2>3, <4>3, MovesFacts DEF Types
          <5>2. slot[v] # None => slot[v].session # session
            BY <1>7, <4>3, LastLeaves
          <5>3. at[v].at # "calling" \/ slot[v] = None
            BY <4>1, <5>2 DEF ContextOk
          <5>4. QED BY <4>1, <5>1, <5>3, EndsContext, NoneAssumption
        <4>4. QED BY <4>2, <4>3
      <3>2. QED BY <1>6, <2>2, <3>1 DEF Contexts
    <2>7. Fresh'
      <3>1. Those({"starting"})' = {}
        BY <1>1, <1>5, <2>1, MovesFacts
      <3>2. QED BY <3>1 DEF Fresh
    <2>8. OwnersCounted'
      BY <2>2 DEF OwnersCounted
    <2>9. Children'
      <3>1. u \in Those(UnderLifecycle)'
        BY <1>1, <2>1, LockNames, MovesFacts
      <3>2. QED BY <1>6, <1>7, <2>2, <3>1 DEF IInv, Children, Mine
    <2>10. QED BY <2>4, <2>5, <2>6, <2>7, <2>8, <2>9 DEF IInv
  <1>8. CASE ~(Mine(u) /\ owners = 1)
    <2> DEFINE a == [at |-> "idle"]
    <2>1. Moves(u, a) /\ a.at = "idle"
      BY <1>8, NewActs DEF Moves, Leave, Idle
    <2> HIDE DEF a
    <2>2. /\ slot' = [slot EXCEPT ![u] = None] /\ lifecycle' = Tail(lifecycle)
          /\ session' = session /\ owners' = IF Mine(u) THEN owners - 1 ELSE owners
      BY <1>8 DEF Leave
    <2>3. OwnersCounted' /\ owners' \in Nat
      <3>1. CASE session = None
        <4>1. owners' = 0
          BY <2>2, <3>1 DEF IInv, OwnersCounted, Mine
        <4>2. QED BY <2>2, <3>1, <4>1 DEF OwnersCounted
      <3>2. CASE session # None
        <4>1. owners = Cardinality(Sharers(session)) /\ owners > 0 /\ owners \in Nat
          BY <1>1, <3>2, OwnersAreSharers DEF IInv, Types
        <4>2. Cardinality(Sharers(session))'
                 = Cardinality(Sharers(session)) - IF token[u] = session THEN 1 ELSE 0
          <5>1. \A s : s # None => Cardinality({v \in Users : token'[v] = s})
                                      = Cardinality(Sharers(s)) - IF token[u] = s THEN 1 ELSE 0
            BY <1>1, <1>6, SharerGoes DEF Sharers
          <5>2. QED BY <2>2, <3>2, <5>1 DEF Sharers
        <4>3. owners' = Cardinality(Sharers(session))' /\ owners' > 0 /\ owners' \in Nat
          BY <1>8, <2>2, <3>2, <4>1, <4>2 DEF Mine
        <4>4. QED BY <2>2, <3>2, <4>3 DEF OwnersCounted, Sharers
      <3>3. QED BY <3>1, <3>2
    <2>4. Types'
      BY <1>1, <1>6, <2>1, <2>2, <2>3, MovesFacts DEF Types
    <2>5. Locks'
      <3>1. Queue(lifecycle', Those(ForLifecycle)', Those(UnderLifecycle)')
        BY <1>1, <1>3, <1>4, <2>1, <2>2, LockNames, LeavesQueue
      <3>2. Queue(operation', Those(ForOperation)', Those(UnderOperation)')
        BY <1>1, <1>2, <1>4, <1>6, <2>1, LockNames, Stays
      <3>3. QED BY <3>1, <3>2 DEF Locks
    <2>6. Contexts'
      <3>1. ASSUME NEW v \in Users
            PROVE  ContextOk(at'[v], slot'[v], token'[v], session, started)
        <4>1. ContextOk(at[v], slot[v], token[v], session, started)
          BY DEF IInv, Contexts
        <4>2. CASE v = u
          <5>1. at'[v] = a /\ token'[v] = None /\ slot'[v] = None
            BY <1>1, <1>6, <2>1, <2>2, <4>2, MovesFacts DEF Types
          <5>2. QED BY <2>1, <5>1, LockNames DEF ContextOk
        <4>3. CASE v # u
          BY <1>1, <1>6, <2>1, <2>2, <4>1, <4>3, MovesFacts DEF Types
        <4>4. QED BY <4>2, <4>3
      <3>2. QED BY <1>6, <2>2, <3>1 DEF Contexts
    <2>7. Those(UnderLifecycle)' = {} /\ Those({"starting"})' = {}
      BY <1>1, <1>5, <2>1, LockNames, MovesFacts
    <2>8. Fresh'
      BY <2>7 DEF Fresh
    <2>9. Children'
      BY <1>5, <1>6, <2>2, <2>7 DEF IInv, Children
    <2>10. QED BY <2>3, <2>4, <2>5, <2>6, <2>8, <2>9 DEF IInv
  <1>9. QED BY <1>7, <1>8

-----------------------------------------------------------------------------
(* The theorems *)

LEMMA InitInv == Init => IInv
  <1> SUFFICES ASSUME Init PROVE IInv
    OBVIOUS
  <1>1. \A u \in Users : at[u] = Idle /\ slot[u] = None /\ token[u] = None
    BY DEF Init
  <1>2. Types
    BY NewActs DEF Init, Types, Idle
  <1>3. \A places : "idle" \notin places => Those(places) = {}
    BY <1>1 DEF Those, Idle
  <1>4. Locks
    BY <1>3, LockNames, QueueEmpty DEF Init, Locks
  <1>5. Contexts
    BY <1>1, LockNames DEF Contexts, ContextOk, Idle
  <1>6. Fresh
    BY <1>3 DEF Fresh
  <1>7. OwnersCounted
    BY DEF Init, OwnersCounted
  <1>8. Children
    BY <1>3, LockNames DEF Init, Children
  <1>9. QED BY <1>2, <1>4, <1>5, <1>6, <1>7, <1>8 DEF IInv

LEMMA NextInv == IInv /\ [Next]_vars => IInv'
  <1> SUFFICES ASSUME IInv, [Next]_vars PROVE IInv'
    OBVIOUS
  <1>1. ASSUME NEW u \in Users, Enter(u) PROVE IInv'
    BY <1>1, EnterKeeps
  <1>2. ASSUME NEW u \in Users, Step(u) PROVE IInv'
    BY <1>2, EnterReadyKeeps, StartKeeps, StartOkKeeps, StartFailsKeeps, CallKeeps, RefusedKeeps,
       AnswerKeeps, BadAnswerKeeps, CallFailsKeeps, KillKeeps, KilledKeeps, LeaveKeeps, ClosedKeeps
    DEF Step
  <1>3. ASSUME NEW u \in Users, Cancel(u) PROVE IInv'
    BY <1>3, CancelKeeps
  <1>4. CASE UNCHANGED vars
    BY <1>4 DEF vars, IInv, Types, Locks, Those, Contexts, Fresh, OwnersCounted, Children
  <1>5. QED BY <1>1, <1>2, <1>3, <1>4 DEF Next

\* The inductive invariant holds in every state.
THEOREM Invariant == Spec => []IInv
  BY InitInv, NextInv, PTL DEF Spec

LEMMA InvSound == IInv => ClientSound
  <1> SUFFICES ASSUME IInv PROVE ClientSound
    OBVIOUS
  <1>1. \A u \in Users : ContextOk(at[u], slot[u], token[u], session, started)
    BY DEF IInv, Contexts
  <1>2. TypeOK
    <2>1. \A u \in Users : at[u].at \in Places
      BY OldActs DEF IInv, Acts, Places
    <2>2. owners \in 0 .. Cardinality(Users)
      BY SharersFinite, OwnersAreSharers DEF IInv, Types
    <2>3. session \in (1 .. started) \cup {None}
      <3>1. session # None => session \in children
        BY DEF IInv, Children
      <3>2. QED BY <3>1 DEF IInv, Children
    <2>4. QED BY <2>1, <2>2, <2>3, Holds DEF TypeOK, At, IInv, Children
  <1>3. SlotsStayHome
    BY <1>1 DEF SlotsStayHome, ContextOk, At
  <1>4. OneChild
    BY DEF OneChild, IInv, Children
  <1>5. NoOrphan
    <2>1. SUFFICES ASSUME \A u \in Users : at[u].at = "idle"
                   PROVE  children \subseteq stuck /\ session = None
      BY DEF NoOrphan, At
    <2>2. session = None
      <3>1. SUFFICES ASSUME session # None PROVE FALSE
        OBVIOUS
      <3>2. Sharers(session) # {}
        BY <3>1, OwnersAreSharers, SharersFinite DEF IInv
      <3>3. QED BY <1>1, <2>1, <3>1, <3>2 DEF Sharers, ContextOk
    <2>3. Those(UnderLifecycle) = {}
      BY <2>1, LockNames DEF Those
    <2>4. QED BY <2>2, <2>3 DEF IInv, Children
  <1>6. QED BY <1>2, <1>3, <1>4, <1>5 DEF ClientSound, IInv

\* The client is sound (ClientSound) through restarts, failures, cancellations and children that
\* do not end: _context_owners is the number of tasks in a context of the session that is there;
\* a call on a slot reaches the child that the slot was loaded in; one child at most lives beside
\* those that were given up, and none beyond its last user.
THEOREM ClientSoundAlways == Spec => []ClientSound
  BY Invariant, InvSound, PTL

\* Only two steps touch the slot of a task that stands still: a stop after a failed call, and the
\* last release, which finds no slot of the session but its own.
LEMMA NextSpoils == IInv /\ [Next]_vars => [OnlyFailuresSpoil]_vars
  <1> SUFFICES ASSUME IInv, [Next]_vars,
                      NEW u \in Users, slot[u] # None, slot'[u] # slot[u], at'[u] = at[u],
                      slot[u].session = session
               PROVE  \E v \in Users : at[v].at = "killing" /\ at[v].on = session
    BY DEF OnlyFailuresSpoil
  <1>1. Types /\ at[u] \in Acts /\ slot \in [Users -> Slots \cup {None}]
    BY DEF IInv, Types
  <1>2. slot' # slot
    OBVIOUS
  <1>3. PICK w \in Users : Enter(w) \/ Step(w) \/ Cancel(w)
    BY <1>2 DEF Next, vars
  <1>4. CASE Kill(w)
    BY <1>2, <1>3, <1>4 DEF Kill, At
  <1>5. CASE Leave(w) /\ Mine(w) /\ owners = 1
    <2>1. w # u
      BY <1>1, <1>5 DEF Leave, At, Types
    <2>2. QED BY <1>5, <2>1, LastLeaves
  <1>6. CASE w # u /\ ~Kill(w) /\ ~(Leave(w) /\ Mine(w) /\ owners = 1)
    <2>1. slot' = slot \/ \E l : slot' = [slot EXCEPT ![w] = l]
      BY <1>3, <1>6 DEF Enter, Step, Cancel, EnterReady, StartOk, Inside, Start, StartFails, Call, Refused,
         Answer, BadAnswer, CallFails, Poisoned, Killed, Leave, Closed
    <2>2. QED BY <1>1, <1>6, <2>1
  <1>7. CASE w = u /\ ~Kill(w) /\ ~(Leave(w) /\ Mine(w) /\ owners = 1)
    <2>1. ASSUME NEW place, Goes(u, place),
                 \/ at[u].at = "queued" /\ place = "leaving"
                 \/ at[u].at = "calling" /\ place \in {"leaving", "killing"}
          PROVE  FALSE
      <3>1. PICK a : Moves(u, a) /\ a.at = place
        BY <1>1, <2>1, GoesMoves
      <3>2. at'[u].at = place
        BY <1>1, <3>1, MovesFacts
      <3>3. QED BY <2>1, <3>2
    <2>2. ASSUME NEW k, NEW c, at' = [at EXCEPT ![u] = [at |-> "queued", kind |-> k, call |-> c]],
                 at[u].at # "queued"
          PROVE  FALSE
      <3>1. at'[u] = [at |-> "queued", kind |-> k, call |-> c]
        BY <1>1, <2>2 DEF Types
      <3>2. at'[u].at = "queued"
        BY <3>1
      <3>3. QED BY <2>2, <3>2
    <2>3. ~(EnterReady(u) \/ StartOk(u))
      <3>1. SUFFICES ASSUME at[u].at \in {"enter", "starting"}, NEW n, Inside(u, n) PROVE FALSE
        BY DEF EnterReady, StartOk, At
      <3>2. at' = [at EXCEPT ![u] = [at |-> "queued", kind |-> at[u].kind, call |-> 1]]
        BY <3>1 DEF Inside
      <3>3. QED BY <2>2, <3>1, <3>2
    <2>4. ~(Refused(u) \/ BadAnswer(u) \/ CallFails(u))
      BY <2>1 DEF Refused, BadAnswer, CallFails, Leaving, At
    <2>5. ~Answer(u)
      BY <2>1, <2>2 DEF Answer, Leaving, At
    <2>6. ~Leave(u)
      BY <1>1, <1>7 DEF Leave, At, Idle, Types
    <2>7. QED
      BY <1>2, <1>3, <1>7, <2>3, <2>4, <2>5, <2>6
      DEF Enter, Step, Cancel, Start, StartFails, Call, Killed, Closed
  <1>8. QED BY <1>4, <1>5, <1>6, <1>7

\* What one task does spoils the slot of another only when a call on the same session failed
\* (Bystanders): a shared child may be lost to everybody, its slots never to anybody alone.
THEOREM BystandersAlways == Spec => Bystanders
  BY Invariant, NextSpoils, PTL DEF Spec, Bystanders

-----------------------------------------------------------------------------
(* The object store, whose files the case service refers to *)

\* What a put can be doing, with what it remembers: a file that is placed was synchronized.
Copies == {"copy", "flush", "check"}
Stages == {"place", "rename", "sync shard", "sync hashes", "sync root"}
Replies == {"stored", "mismatch", "corrupt", "too large", "failed"}

CopyingPuts == [at : Copies, content : Contents, expected : Contents \cup {None}, size : Nat]
PlacingPuts == [at : Stages, content : Contents, sure : {TRUE}]
AnsweredPuts == [at : {"answered"}, content : Contents, answer : Replies]
Puts == {Objects!Idle} \cup CopyingPuts \cup PlacingPuts \cup AnsweredPuts

LEMMA PutKinds ==
    ASSUME NEW p \in Puts
    PROVE  /\ p.at # "idle" => p.content \in Contents
           /\ p.at \in Copies => p \in CopyingPuts
           /\ p.at \in Stages => p \in PlacingPuts
           /\ p.at \in {"idle", "answered"} \cup Copies \cup Stages
           /\ p.at = "idle" => p = Objects!Idle
  <1>1. ASSUME p \in CopyingPuts PROVE p.at \in Copies /\ p.content \in Contents
    BY <1>1 DEF CopyingPuts
  <1>2. ASSUME p \in PlacingPuts PROVE p.at \in Stages /\ p.content \in Contents
    BY <1>2 DEF PlacingPuts
  <1>3. ASSUME p \in AnsweredPuts PROVE p.at = "answered" /\ p.content \in Contents
    BY <1>3 DEF AnsweredPuts
  <1>4. Objects!Idle.at = "idle"
    BY DEF Objects!Idle
  <1>5. p = Objects!Idle \/ p \in CopyingPuts \/ p \in PlacingPuts \/ p \in AnsweredPuts
    BY DEF Puts
  <1>6. /\ \A x \in Copies : x \notin Stages \cup {"idle", "answered"}
        /\ \A x \in Stages : x \notin {"idle", "answered"}
    BY DEF Copies, Stages
  <1>7. QED BY <1>1, <1>2, <1>3, <1>4, <1>5, <1>6

\* What put p has seen and done, for the objects f and what s keeps of them.
PutOk(p, f, s) ==
    /\ p.at = "copy" => p.size <= MaxObject /\ p.size <= Size[p.content]
    /\ p.at \notin {"idle", "copy", "answered"} => Size[p.content] <= MaxObject
    /\ p.at \in {"sync shard", "sync hashes", "sync root"} => f[p.content] # "absent"
    /\ p.at \in {"sync hashes", "sync root"} => p.content \in s.entries
    /\ p.at = "sync root" => Shard[p.content] \in s.shards
    /\ p.at = "answered" /\ p.answer = "too large" => Size[p.content] > MaxObject

TreeTypes ==
    /\ objects \in [Contents -> {"absent", "whole", "damaged"}]
    /\ synced \in [entries : SUBSET Contents, shards : SUBSET Shards, top : BOOLEAN]
    /\ acked \subseteq Contents /\ failures \in 0 .. MaxFailures

\* What was acknowledged is there and synchronized up to the root; nothing there is too large.
TreeOk ==
    /\ \A c \in acked : objects[c] # "absent" /\ Objects!Kept(c)
    /\ \A c \in Contents : objects[c] # "absent" => Size[c] <= MaxObject

PutsOk == put \in [Clients -> Puts] /\ \A k \in Clients : PutOk(put[k], objects, synced)

ObjectsInv == TreeTypes /\ TreeOk /\ PutsOk

\* No object that is there goes, and what is synchronized stays so.
TreeGrows ==
    /\ \A c \in Contents : objects[c] # "absent" => objects'[c] # "absent"
    /\ synced.entries \subseteq synced'.entries /\ synced.shards \subseteq synced'.shards

LEMMA OnePut ==
    ASSUME PutsOk, NEW k \in Clients, NEW p \in Puts, put' = [put EXCEPT ![k] = p],
           PutOk(p, objects', synced'), TreeGrows
    PROVE  PutsOk'
  <1>1. put' \in [Clients -> Puts]
    BY DEF PutsOk
  <1>2. ASSUME NEW j \in Clients PROVE PutOk(put'[j], objects', synced')
    <2>1. CASE j = k
      BY <2>1 DEF PutsOk
    <2>2. CASE j # k
      <3>1. put'[j] = put[j] /\ put[j] \in Puts /\ PutOk(put[j], objects, synced)
        BY <2>2 DEF PutsOk
      <3>2. put[j].at \notin {"idle"} => put[j].content \in Contents
        BY <3>1, PutKinds
      <3>3. QED BY <3>1, <3>2 DEF PutOk, TreeGrows
    <2>3. QED BY <2>1, <2>2
  <1>3. QED BY <1>1, <1>2 DEF PutsOk

\* A step of a put that leaves the tree alone.
LEMMA PutOnly ==
    ASSUME ObjectsInv, NEW k \in Clients, NEW p \in Puts, put' = [put EXCEPT ![k] = p],
           PutOk(p, objects, synced), UNCHANGED <<objects, synced, acked>>,
           failures' \in 0 .. MaxFailures
    PROVE  ObjectsInv'
  <1>1. TreeGrows
    BY DEF TreeGrows
  <1>2. PutsOk'
    BY <1>1, OnePut DEF ObjectsInv
  <1>3. TreeTypes' /\ TreeOk'
    BY DEF ObjectsInv, TreeTypes, TreeOk, Objects!Kept
  <1>4. QED BY <1>2, <1>3 DEF ObjectsInv

LEMMA PutFacts ==
    ASSUME ObjectsInv, NEW k \in Clients
    PROVE  /\ put \in [Clients -> Puts] /\ put[k] \in Puts /\ PutOk(put[k], objects, synced)
           /\ failures \in 0 .. MaxFailures
           /\ put[k].at # "idle" => put[k].content \in Contents
           /\ put[k].at = "copy" => put[k] \in CopyingPuts /\ put[k].size \in Nat
  <1>1. put \in [Clients -> Puts] /\ put[k] \in Puts /\ PutOk(put[k], objects, synced)
    BY DEF ObjectsInv, PutsOk
  <1>2. failures \in 0 .. MaxFailures
    BY DEF ObjectsInv, TreeTypes
  <1>3. put[k].at = "copy" => put[k] \in CopyingPuts
    BY <1>1, PutKinds DEF Copies
  <1>4. put[k].at = "copy" => put[k].size \in Nat
    BY <1>3 DEF CopyingPuts
  <1>5. QED BY <1>1, <1>2, <1>3, <1>4, PutKinds

\* The put of client k after Goes.
LEMMA Going ==
    ASSUME NEW p \in Puts, NEW place
    PROVE  LET q == [p EXCEPT !.at = place] IN
           /\ p.at \in Copies /\ place \in Copies => q \in Puts /\ q.at = place /\ q.content = p.content
           /\ p.at \in Stages /\ place \in Stages => q \in Puts /\ q.at = place /\ q.content = p.content
  <1> DEFINE q == [p EXCEPT !.at = place]
  <1>1. ASSUME p \in CopyingPuts, place \in Copies
        PROVE  q \in CopyingPuts /\ q.at = place /\ q.content = p.content
    BY <1>1 DEF CopyingPuts
  <1>2. ASSUME p \in PlacingPuts, place \in Stages
        PROVE  q \in PlacingPuts /\ q.at = place /\ q.content = p.content
    BY <1>2 DEF PlacingPuts
  <1> HIDE DEF q
  <1>3. /\ p.at \in Copies /\ place \in Copies => q \in Puts /\ q.at = place /\ q.content = p.content
        /\ p.at \in Stages /\ place \in Stages => q \in Puts /\ q.at = place /\ q.content = p.content
    BY <1>1, <1>2, PutKinds DEF Puts
  <1>4. QED BY <1>3 DEF q

\* A put that ends with an answer and does nothing else.
LEMMA AnswerKept ==
    ASSUME ObjectsInv, NEW k \in Clients, put[k].at # "idle",
           NEW answer \in Replies,
           Objects!Answered(k, answer), UNCHANGED <<objects, synced, acked>>,
           failures' \in 0 .. MaxFailures, answer = "too large" => Size[put[k].content] > MaxObject
    PROVE  ObjectsInv'
  <1> DEFINE p == [at |-> "answered", content |-> put[k].content, answer |-> answer]
  <1>1. put' = [put EXCEPT ![k] = p]
    BY PutFacts DEF Objects!Answered
  <1>2. p \in AnsweredPuts /\ PutOk(p, objects, synced)
    BY PutFacts DEF AnsweredPuts, PutOk
  <1> HIDE DEF p
  <1>3. QED BY <1>1, <1>2, PutOnly DEF Puts

LEMMA CopyKept ==
    ASSUME Sizes, ObjectsInv, NEW k \in Clients, Objects!Copy(k)
    PROVE  ObjectsInv'
  <1> DEFINE p == put[k]
             left == Size[p.content] - p.size
             sizes == {Chunk, MaxObject - p.size + 1, left}
             most == Objects!LeastOf(sizes)
  <1>1. /\ p.at = "copy" /\ p.content \in Contents /\ p.size \in Nat /\ Size[p.content] \in Nat
        /\ p.size <= MaxObject /\ p.size <= Size[p.content]
    BY PutFacts DEF Objects!Copy, Objects!At, PutOk, Sizes
  <1>2. p \in Puts /\ put \in [Clients -> Puts] /\ failures' \in 0 .. MaxFailures
        /\ UNCHANGED <<objects, synced, acked>>
    BY PutFacts DEF Objects!Copy, Objects!TreeUnchanged
  <1>3. CASE left = 0
    <2> DEFINE q == [p EXCEPT !.at = "flush"]
    <2>1. put' = [put EXCEPT ![k] = q]
      BY <1>2, <1>3 DEF Objects!Copy, Objects!Goes
    <2>2. q \in Puts /\ q.at = "flush" /\ q.content = p.content
      BY <1>1, <1>2, Going DEF Copies
    <2> HIDE DEF q
    <2>3. PutOk(q, objects, synced)
      BY <1>1, <1>3, <2>2 DEF PutOk, Sizes
    <2>4. QED BY <1>2, <2>1, <2>2, <2>3, PutOnly
  <1>4. CASE left # 0
    <2>1. PICK n \in 1 .. most :
              IF Objects!TooLarge(p.size, n) THEN Objects!Answered(k, "too large")
              ELSE put' = [put EXCEPT ![k].size = @ + n]
      BY <1>4 DEF Objects!Copy
    <2>2. most \in Int /\ most <= left
      <3>1. \E m \in sizes : \A x \in sizes : m <= x
        BY <1>1 DEF Sizes
      <3>2. most \in sizes /\ \A x \in sizes : most <= x
        BY <3>1 DEF Objects!LeastOf
      <3>3. QED BY <1>1, <3>2 DEF Sizes
    <2> HIDE DEF most
    <2>3. n \in Nat /\ n >= 1 /\ p.size + n <= Size[p.content]
      BY <1>1, <2>2
    <2>4. CASE Objects!TooLarge(p.size, n)
      <3>1. Size[p.content] > MaxObject
        BY <1>1, <2>3, <2>4 DEF Objects!TooLarge, Sizes
      <3>2. Objects!Answered(k, "too large")
        BY <2>1, <2>4
      <3>3. QED BY <1>1, <1>2, <3>1, <3>2, AnswerKept DEF Replies
    <2>5. CASE ~Objects!TooLarge(p.size, n)
      <3> DEFINE q == [p EXCEPT !.size = @ + n]
      <3>1. put' = [put EXCEPT ![k] = q]
        BY <1>2, <2>1, <2>5
      <3>2. q \in Puts /\ q.at = "copy" /\ q.content = p.content /\ q.size = p.size + n
        <4>1. p \in CopyingPuts /\ p.size + n \in Nat
          BY <1>1, <2>3, PutFacts
        <4>2. q \in CopyingPuts /\ q.at = p.at /\ q.content = p.content /\ q.size = p.size + n
          BY <4>1 DEF CopyingPuts
        <4> HIDE DEF q
        <4>3. QED BY <1>1, <4>2 DEF Puts
      <3> HIDE DEF q
      <3>3. p.size + n <= MaxObject
        BY <1>1, <2>3, <2>5 DEF Objects!TooLarge, Sizes
      <3>4. PutOk(q, objects, synced)
        BY <2>3, <3>2, <3>3 DEF PutOk
      <3>5. QED BY <1>2, <3>1, <3>2, <3>4, PutOnly
    <2>6. QED BY <2>4, <2>5
  <1>5. QED BY <1>3, <1>4

\* A put in a place of Stages, with what it has.
LEMMA StageFacts ==
    ASSUME ObjectsInv, NEW k \in Clients, put[k].at \in Stages
    PROVE  /\ put[k] \in Puts /\ put[k] \in PlacingPuts /\ put[k].sure
           /\ put[k].content \in Contents /\ Size[put[k].content] <= MaxObject
           /\ PutOk(put[k], objects, synced)
  <1>1. put[k] \in Puts /\ PutOk(put[k], objects, synced)
    BY PutFacts
  <1>2. put[k] \in PlacingPuts
    BY <1>1, PutKinds
  <1>3. put[k].sure /\ put[k].content \in Contents
    BY <1>2 DEF PlacingPuts
  <1>4. Size[put[k].content] <= MaxObject
    BY <1>1 DEF PutOk, Stages
  <1>5. QED BY <1>1, <1>2, <1>3, <1>4

LEMMA PutStepKept ==
    ASSUME Sizes, ObjectsInv, NEW k \in Clients,
           \/ Objects!Take(k) \/ Objects!Begin(k) \/ Objects!Flush(k) \/ Objects!Check(k)
           \/ Objects!Found(k) \/ Objects!Missing(k)
    PROVE  ObjectsInv'
  <1> DEFINE p == put[k]
  <1>1. /\ p \in Puts /\ put \in [Clients -> Puts] /\ PutOk(p, objects, synced)
        /\ failures' \in 0 .. MaxFailures /\ UNCHANGED <<objects, synced, acked>>
    BY PutFacts DEF Objects!Take, Objects!Begin, Objects!Flush, Objects!Check, Objects!Found,
                    Objects!Missing, Objects!TreeUnchanged
  <1>2. CASE Objects!Take(k)
    <2>1. Objects!Idle \in Puts /\ PutOk(Objects!Idle, objects, synced)
      BY DEF Puts, Objects!Idle, PutOk
    <2>2. QED BY <1>1, <1>2, <2>1, PutOnly DEF Objects!Take
  <1>3. CASE Objects!Begin(k)
    <2>1. PICK c \in Contents, e \in Contents \cup {None} :
              put' = [put EXCEPT ![k] = [at |-> "copy", content |-> c, expected |-> e, size |-> 0]]
      BY <1>3 DEF Objects!Begin
    <2> DEFINE q == [at |-> "copy", content |-> c, expected |-> e, size |-> 0]
    <2>2. q \in CopyingPuts /\ q.at = "copy" /\ q.size = 0 /\ q.content = c
      BY DEF CopyingPuts, Copies
    <2>3. put' = [put EXCEPT ![k] = q]
      BY <2>1
    <2> HIDE DEF q
    <2>4. PutOk(q, objects, synced)
      BY <2>2 DEF PutOk, Sizes
    <2>5. q \in Puts
      BY <2>2 DEF Puts
    <2>6. QED BY <1>1, <2>3, <2>4, <2>5, PutOnly
  <1>4. CASE Objects!Flush(k)
    <2> DEFINE q == [p EXCEPT !.at = "check"]
    <2>1. put' = [put EXCEPT ![k] = q] /\ p.at = "flush"
      BY <1>1, <1>4 DEF Objects!Flush, Objects!Goes, Objects!At
    <2>2. q \in Puts /\ q.at = "check" /\ q.content = p.content
      BY <1>1, <2>1, Going DEF Copies
    <2> HIDE DEF q
    <2>3. PutOk(q, objects, synced)
      BY <1>1, <2>1, <2>2 DEF PutOk
    <2>4. QED BY <1>1, <2>1, <2>2, <2>3, PutOnly
  <1>5. CASE Objects!Check(k)
    <2>1. p.at = "check" /\ p.content \in Contents /\ Size[p.content] <= MaxObject
      <3>1. p.at # "check unsynced"
        BY <1>1, PutKinds DEF Copies, Stages
      <3>2. p.at = "check"
        BY <1>5, <3>1 DEF Objects!Check, Objects!Checks
      <3>3. QED BY <1>1, <3>2, PutKinds DEF PutOk
    <2>2. CASE ~Objects!Expects(k)
      <3>1. Objects!Answered(k, "mismatch")
        BY <1>5, <2>2 DEF Objects!Check
      <3>2. QED BY <1>1, <2>1, <3>1, AnswerKept DEF Replies
    <2>3. CASE Objects!Expects(k)
      <3> DEFINE q == [at |-> "place", content |-> p.content, sure |-> p.at = "check"]
      <3>1. put' = [put EXCEPT ![k] = q]
        BY <1>1, <1>5, <2>3 DEF Objects!Check
      <3>2. q \in PlacingPuts /\ q.at = "place" /\ q.content = p.content
        <4>1. (p.at = "check") = TRUE
          BY <2>1
        <4>2. q = [at |-> "place", content |-> p.content, sure |-> TRUE]
          BY <4>1
        <4>3. QED BY <2>1, <4>2 DEF PlacingPuts, Stages
      <3> HIDE DEF q
      <3>3. PutOk(q, objects, synced) /\ q \in Puts
        BY <2>1, <3>2 DEF PutOk, Puts
      <3>4. QED BY <1>1, <3>1, <3>3, PutOnly
    <2>4. QED BY <2>2, <2>3
  <1>6. CASE Objects!Found(k) \/ Objects!Missing(k)
    <2>1. p.at = "place" /\ p.at \in Stages
      BY <1>6 DEF Objects!Found, Objects!Missing, Objects!At, Stages
    <2>2. ASSUME NEW place \in {"rename", "sync shard"}, Objects!Goes(k, place),
                 place = "sync shard" => objects[p.content] # "absent"
          PROVE  ObjectsInv'
      <3> DEFINE q == [p EXCEPT !.at = place]
      <3>1. put' = [put EXCEPT ![k] = q]
        BY <1>1, <2>2 DEF Objects!Goes
      <3>2. q \in Puts /\ q.at = place /\ q.content = p.content
        <4>1. place \in Stages
          BY DEF Stages
        <4>2. QED BY <1>1, <2>1, <4>1, Going
      <3> HIDE DEF q
      <3>3. PutOk(q, objects, synced)
        BY <2>1, <2>2, <3>2, StageFacts DEF PutOk
      <3>4. QED BY <1>1, <3>1, <3>2, <3>3, PutOnly
    <2>3. CASE Objects!Found(k) /\ objects[p.content] # "whole"
      <3>1. Objects!Answered(k, "corrupt")
        BY <2>3 DEF Objects!Found
      <3>2. QED BY <1>1, <2>1, <3>1, AnswerKept DEF Replies
    <2>4. CASE Objects!Found(k) /\ objects[p.content] = "whole"
      BY <2>2, <2>4 DEF Objects!Found
    <2>5. CASE Objects!Missing(k)
      BY <2>2, <2>5 DEF Objects!Missing
    <2>6. QED BY <1>6, <2>3, <2>4, <2>5
  <1>7. QED BY <1>2, <1>3, <1>4, <1>5, <1>6

\* The file is renamed, or the tree is synchronized a level up.
LEMMA TreeStepKept ==
    ASSUME Sizes, ObjectsInv, NEW k \in Clients,
           \/ Objects!Rename(k) \/ Objects!SyncShard(k) \/ Objects!SyncHashes(k) \/ Objects!SyncRoot(k)
    PROVE  ObjectsInv'
  <1> DEFINE p == put[k]
             c == put[k].content
  <1>1. p.at \in Stages /\ failures' = failures
    BY DEF Objects!Rename, Objects!SyncShard, Objects!SyncHashes, Objects!SyncRoot, Objects!At, Stages
  <1>2. /\ p \in Puts /\ put \in [Clients -> Puts] /\ c \in Contents /\ Size[c] <= MaxObject
        /\ PutOk(p, objects, synced) /\ p.sure
    BY <1>1, StageFacts, PutFacts
  <1>3. TreeTypes /\ TreeOk /\ PutsOk
    BY DEF ObjectsInv
  <1>4. ASSUME NEW place \in {"sync shard", "sync hashes", "sync root"}, Objects!Goes(k, place),
               TreeGrows, objects'[c] # "absent",
               place \in {"sync hashes", "sync root"} => c \in synced'.entries,
               place = "sync root" => Shard[c] \in synced'.shards
        PROVE  PutsOk'
    <2> DEFINE q == [p EXCEPT !.at = place]
    <2>1. put' = [put EXCEPT ![k] = q]
      BY <1>2, <1>4 DEF Objects!Goes
    <2>2. q \in Puts /\ q.at = place /\ q.content = c
      <3>1. place \in Stages
        BY DEF Stages
      <3>2. QED BY <1>1, <1>2, <3>1, Going
    <2> HIDE DEF q
    <2>3. PutOk(q, objects', synced')
      BY <1>2, <1>4, <2>2 DEF PutOk
    <2>4. QED BY <1>3, <1>4, <2>1, <2>2, <2>3, OnePut
  <1>5. CASE Objects!Rename(k)
    <2>1. objects' = [objects EXCEPT ![c] = "whole"] /\ UNCHANGED <<synced, acked>>
      BY <1>2, <1>5 DEF Objects!Rename
    <2>2. /\ objects' \in [Contents -> {"absent", "whole", "damaged"}] /\ objects'[c] # "absent"
          /\ \A d \in Contents : objects[d] # "absent" => objects'[d] # "absent"
          /\ \A d \in Contents : d # c => objects'[d] = objects[d]
      BY <1>2, <1>3, <2>1 DEF TreeTypes
    <2>3. TreeTypes' /\ TreeOk' /\ TreeGrows
      BY <1>1, <1>2, <1>3, <2>1, <2>2 DEF TreeTypes, TreeOk, TreeGrows, Objects!Kept
    <2>4. PutsOk'
      BY <1>4, <1>5, <2>2, <2>3 DEF Objects!Rename
    <2>5. QED BY <2>3, <2>4 DEF ObjectsInv
  <1>6. ASSUME UNCHANGED <<objects, acked>>,
               synced' \in [entries : SUBSET Contents, shards : SUBSET Shards, top : BOOLEAN],
               synced.entries \subseteq synced'.entries, synced.shards \subseteq synced'.shards,
               synced.top => synced'.top
        PROVE  TreeTypes' /\ TreeOk' /\ TreeGrows
    BY <1>1, <1>3, <1>6 DEF TreeTypes, TreeOk, TreeGrows, Objects!Kept
  <1>7. CASE Objects!SyncShard(k)
    <2> DEFINE more == {d \in Contents : objects[d] # "absent" /\ Shard[d] = Shard[c]}
    <2>1. /\ synced' = [synced EXCEPT !.entries = synced.entries \cup more]
          /\ UNCHANGED <<objects, acked>> /\ objects[c] # "absent"
      BY <1>2, <1>7 DEF Objects!SyncShard, Objects!At, PutOk
    <2>2. more \subseteq Contents /\ c \in more
      BY <1>2, <2>1
    <2> HIDE DEF more
    <2>3. /\ synced' \in [entries : SUBSET Contents, shards : SUBSET Shards, top : BOOLEAN]
          /\ synced'.entries = synced.entries \cup more /\ synced'.shards = synced.shards
          /\ synced'.top = synced.top
      BY <1>3, <2>1, <2>2 DEF TreeTypes
    <2>4. TreeTypes' /\ TreeOk' /\ TreeGrows
      BY <1>6, <2>1, <2>3
    <2>5. PutsOk'
      BY <1>4, <1>7, <2>1, <2>2, <2>3, <2>4 DEF Objects!SyncShard
    <2>6. QED BY <2>4, <2>5 DEF ObjectsInv
  <1>8. CASE Objects!SyncHashes(k)
    <2> DEFINE more == {Shard[d] : d \in {e \in Contents : objects[e] # "absent"}}
    <2>1. /\ synced' = [synced EXCEPT !.shards = synced.shards \cup more]
          /\ UNCHANGED <<objects, acked>> /\ objects[c] # "absent" /\ c \in synced.entries
      BY <1>2, <1>8 DEF Objects!SyncHashes, Objects!At, PutOk
    <2>2. more \subseteq Shards /\ Shard[c] \in more
      BY <1>2, <2>1 DEF Sizes
    <2> HIDE DEF more
    <2>3. /\ synced' \in [entries : SUBSET Contents, shards : SUBSET Shards, top : BOOLEAN]
          /\ synced'.shards = synced.shards \cup more /\ synced'.entries = synced.entries
          /\ synced'.top = synced.top
      BY <1>3, <2>1, <2>2 DEF TreeTypes
    <2>4. TreeTypes' /\ TreeOk' /\ TreeGrows
      BY <1>6, <2>1, <2>3
    <2>5. PutsOk'
      BY <1>4, <1>8, <2>1, <2>2, <2>3, <2>4 DEF Objects!SyncHashes
    <2>6. QED BY <2>4, <2>5 DEF ObjectsInv
  <1>9. CASE Objects!SyncRoot(k)
    <2>1. /\ synced' = [synced EXCEPT !.top = TRUE] /\ objects' = objects
          /\ acked' = acked \cup {c} /\ objects[c] # "absent" /\ c \in synced.entries
          /\ Shard[c] \in synced.shards
      BY <1>2, <1>9 DEF Objects!SyncRoot, Objects!At, PutOk
    <2>2. /\ synced' \in [entries : SUBSET Contents, shards : SUBSET Shards, top : BOOLEAN]
          /\ synced'.shards = synced.shards /\ synced'.entries = synced.entries
          /\ synced'.top = TRUE
      BY <1>3, <2>1 DEF TreeTypes
    <2>3. TreeTypes' /\ TreeOk' /\ TreeGrows
      BY <1>1, <1>2, <1>3, <2>1, <2>2 DEF TreeTypes, TreeOk, TreeGrows, Objects!Kept
    <2> DEFINE q == [at |-> "answered", content |-> c, answer |-> "stored"]
    <2>4. put' = [put EXCEPT ![k] = q]
      BY <1>2, <1>9 DEF Objects!SyncRoot, Objects!Answered
    <2>5. q \in AnsweredPuts /\ PutOk(q, objects', synced')
      BY <1>2 DEF AnsweredPuts, Replies, PutOk
    <2> HIDE DEF q
    <2>6. PutsOk'
      BY <1>3, <2>3, <2>4, <2>5, OnePut DEF Puts
    <2>7. QED BY <2>3, <2>6 DEF ObjectsInv
  <1>10. QED BY <1>5, <1>7, <1>8, <1>9

LEMMA FailuresKept ==
    ASSUME Sizes, ObjectsInv,
           \/ \E k \in Clients : Objects!DiskFails(k) \/ Objects!Dies(k)
           \/ Objects!PowerFails \/ Objects!Damage
    PROVE  ObjectsInv'
  <1>1. TreeTypes /\ TreeOk /\ PutsOk
    BY DEF ObjectsInv
  <1>2. failures' \in 0 .. MaxFailures
    BY <1>1 DEF Objects!DiskFails, Objects!Dies, Objects!PowerFails, Objects!Damage, Objects!Fails,
                TreeTypes, Sizes
  <1>3. Objects!Idle \in Puts /\ \A f, s : PutOk(Objects!Idle, f, s)
    BY DEF Puts, Objects!Idle, PutOk
  <1>4. ASSUME NEW k \in Clients, Objects!DiskFails(k) PROVE ObjectsInv'
    <2>1. put[k].at # "idle" /\ UNCHANGED <<objects, synced, acked>> /\ Objects!Answered(k, "failed")
      BY <1>4 DEF Objects!DiskFails, Objects!Running
    <2>2. QED BY <1>2, <2>1, AnswerKept DEF Replies
  <1>5. ASSUME NEW k \in Clients, Objects!Dies(k) PROVE ObjectsInv'
    BY <1>2, <1>3, <1>5, PutOnly DEF Objects!Dies
  <1>6. CASE Objects!PowerFails
    <2>1. put' = [k \in Clients |-> Objects!Idle] /\ acked' = acked
      BY <1>6 DEF Objects!PowerFails
    <2>2. PutsOk'
      BY <1>3, <2>1 DEF PutsOk
    <2>3. \A c \in Contents : objects[c] \in {"absent", "whole", "damaged"}
      BY <1>1 DEF TreeTypes
    <2>4. /\ objects' \in [Contents -> {"absent", "whole", "torn", "damaged"}]
          /\ \A c \in Contents :
                \/ objects'[c] = "torn" /\ objects[c] \in {"torn", "unsynced"}
                \/ objects'[c] \in {"whole", "damaged"} /\ objects[c] = objects'[c]
                \/ objects'[c] = "whole" /\ objects[c] = "unsynced"
                \/ objects'[c] = "absent" /\ ~(objects[c] # "absent" /\ Objects!Kept(c))
      BY <1>6 DEF Objects!PowerFails
    <2>5. \A c \in Contents :
              \/ objects'[c] \in {"whole", "damaged"} /\ objects[c] = objects'[c]
              \/ objects'[c] = "absent" /\ ~(objects[c] # "absent" /\ Objects!Kept(c))
      BY <2>3, <2>4
    <2>6. objects' \in [Contents -> {"absent", "whole", "damaged"}]
      BY <2>4, <2>5
    <2> DEFINE there == {c \in Contents : objects'[c] # "absent"}
    <2>7. synced' = [entries |-> there, shards |-> {Shard[c] : c \in there},
                     top |-> synced.top \/ there # {}]
      BY <1>6 DEF Objects!PowerFails
    <2>8. /\ synced'.entries = there /\ synced'.shards = {Shard[c] : c \in there}
          /\ synced'.top = (synced.top \/ there # {})
      BY <2>7
    <2>9. synced' \in [entries : SUBSET Contents, shards : SUBSET Shards, top : BOOLEAN]
      <3>1. there \in SUBSET Contents /\ {Shard[c] : c \in there} \in SUBSET Shards
        BY DEF Sizes
      <3>2. (synced.top \/ there # {}) \in BOOLEAN
        OBVIOUS
      <3> HIDE DEF there
      <3>3. QED BY <2>7, <3>1, <3>2
    <2>10. TreeTypes'
      BY <1>1, <1>2, <2>1, <2>6, <2>9 DEF TreeTypes
    <2>11. ASSUME NEW c \in acked
           PROVE  objects'[c] # "absent" /\ Objects!Kept(c)'
      <3>1. c \in Contents /\ objects[c] # "absent" /\ Objects!Kept(c)
        BY <1>1 DEF TreeOk, TreeTypes
      <3>2. c \in there
        BY <2>5, <3>1
      <3>3. QED BY <2>8, <3>2 DEF Objects!Kept
    <2>12. TreeOk'
      BY <1>1, <2>1, <2>5, <2>11 DEF TreeOk
    <2>13. QED BY <2>2, <2>10, <2>12 DEF ObjectsInv
  <1>7. CASE Objects!Damage
    <2>1. PICK c \in Contents : objects[c] = "whole" /\ objects' = [objects EXCEPT ![c] = "damaged"]
      BY <1>7 DEF Objects!Damage
    <2>2. UNCHANGED <<put, synced, acked>>
      BY <1>7 DEF Objects!Damage
    <2>3. /\ objects' \in [Contents -> {"absent", "whole", "damaged"}]
          /\ \A d \in Contents : objects'[d] = "absent" <=> objects[d] = "absent"
      BY <1>1, <2>1 DEF TreeTypes
    <2>4. TreeTypes' /\ TreeOk'
      BY <1>1, <1>2, <2>2, <2>3 DEF TreeTypes, TreeOk, Objects!Kept
    <2>5. PutsOk'
      <3>1. ASSUME NEW k \in Clients PROVE PutOk(put[k], objects', synced)
        <4>1. PutOk(put[k], objects, synced) /\ put[k] \in Puts
          BY <1>1 DEF PutsOk
        <4>2. put[k].at # "idle" => put[k].content \in Contents
          BY <4>1, PutKinds
        <4>3. QED BY <2>3, <4>1, <4>2 DEF PutOk
      <3>2. QED BY <1>1, <2>2, <3>1 DEF PutsOk
    <2>6. QED BY <2>4, <2>5 DEF ObjectsInv
  <1>8. QED BY <1>4, <1>5, <1>6, <1>7

LEMMA ObjectsInit ==
    ASSUME Sizes, Objects!Init PROVE ObjectsInv
  <1>1. Objects!Idle \in Puts /\ \A f, s : PutOk(Objects!Idle, f, s)
    BY DEF Puts, Objects!Idle, PutOk
  <1>2. PutsOk
    BY <1>1 DEF Objects!Init, PutsOk
  <1>3. TreeTypes /\ TreeOk
    BY DEF Objects!Init, TreeTypes, TreeOk, Sizes
  <1>4. QED BY <1>2, <1>3 DEF ObjectsInv

LEMMA ObjectsNext ==
    ASSUME Sizes, ObjectsInv, [Objects!Next]_(Objects!vars) PROVE ObjectsInv'
  <1>1. CASE UNCHANGED Objects!vars
    BY <1>1 DEF Objects!vars, ObjectsInv, TreeTypes, TreeOk, PutsOk, Objects!Kept
  <1>2. CASE Objects!Next
    BY <1>2, PutStepKept, CopyKept, TreeStepKept, FailuresKept DEF Objects!Next, Objects!Step
  <1>3. QED BY <1>1, <1>2

\* Publication is durable and exact, for any clients, contents, shards and sizes: whoever was told
\* that an object is stored finds it after any failure of disk, process or power, a path never holds a
\* part of its object, and just the contents over the limit are refused for their size.
THEOREM ObjectsDurableAlways == Objects!Spec => []ObjectsDurable
  <1>1. Objects!Init => ObjectsInv
    BY SizesAssumption, ObjectsInit
  <1>2. ObjectsInv /\ [Objects!Next]_(Objects!vars) => ObjectsInv'
    BY SizesAssumption, ObjectsNext
  <1>3. ObjectsInv => Objects!Durable
    <2> SUFFICES ASSUME ObjectsInv PROVE Objects!Durable
      OBVIOUS
    <2>1. TreeTypes /\ TreeOk
      BY DEF ObjectsInv
    <2>2. Objects!TypeOK
      <3>1. ASSUME NEW k \in Clients
            PROVE  /\ put[k].at # "idle" => put[k].content \in Contents
                   /\ put[k].at = "copy" => put[k].size \in 0 .. MaxObject
        <4>1. put[k].at = "copy" => put[k].size \in Nat /\ put[k].size <= MaxObject
          BY PutFacts DEF PutOk
        <4>2. put[k].at # "idle" => put[k].content \in Contents
          BY PutFacts
        <4>3. QED BY <4>1, <4>2, SizesAssumption DEF Sizes
      <3>2. /\ synced.entries \subseteq Contents /\ synced.shards \subseteq Shards
            /\ synced.top \in BOOLEAN /\ acked \subseteq Contents /\ failures \in 0 .. MaxFailures
        BY <2>1 DEF TreeTypes
      <3>3. QED BY <3>1, <3>2 DEF Objects!TypeOK, Objects!At
    <2>3. Objects!AckedSurvive /\ Objects!NeverTorn
      BY <2>1 DEF Objects!AckedSurvive, Objects!NeverTorn, TreeTypes, TreeOk
    <2>4. Objects!LimitExact
      BY <2>1, PutFacts DEF Objects!LimitExact, Objects!At, TreeOk, PutOk
    <2>5. QED BY <2>2, <2>3, <2>4 DEF Objects!Durable
  <1>4. QED BY <1>1, <1>2, <1>3, PTL DEF Objects!Spec, ObjectsDurable

-----------------------------------------------------------------------------
(* The workbench and its inductive invariant *)

\* The instance's own copies of the library's operators are the library's.
LEMMA BenchLibrary ==
    /\ \A S : Bench!Cardinality(S) = Cardinality(S)
    /\ \A f : Bench!Range(f) = Range(f) /\ (Bench!IsInjective(f) <=> IsInjective(f))
    /\ \A q, e : Bench!RemoveFirst(q, e) = RemoveFirst(q, e)
    /\ \A S : Bench!Min(S) = Min(S)
  <1>1. \A S : Bench!Cardinality(S) = Cardinality(S)
    BY DEF Bench!Cardinality, Cardinality
  <1>2. \A f : Bench!Range(f) = Range(f) /\ (Bench!IsInjective(f) <=> IsInjective(f))
    BY DEF Bench!Range, Range, Bench!IsInjective, IsInjective
  <1>3. \A q, e : Bench!RemoveFirst(q, e) = RemoveFirst(q, e)
    BY Zenon DEF Bench!RemoveFirst, RemoveFirst, Bench!RemoveAt, RemoveAt, Bench!SelectInSeq, SelectInSeq,
           Bench!Min, Min
  <1>4. \A S : Bench!Min(S) = Min(S)
    BY DEF Bench!Min, Min
  <1>5. QED BY <1>1, <1>2, <1>3, <1>4

\* Ids are given in turn.
Numbered == \E n \in Nat : Bench!Known = 1 .. n

\* Every listed session once, and no more than allowed.
Listed == Range(listed)
TableInv == Queue(listed, Listed, {}) /\ Listed \subseteq Bench!Known /\ Len(listed) <= MaximumSessions

\* The leases in a table s of sessions: counted, and each once in the queue of its session.
LeasesIn(s) ==
    \A i \in Bench!Ids : s[i] # None => /\ s[i].active = Cardinality(Bench!Holders(i))
                                        /\ Queue(s[i].queue, Bench!Holders(i), {})

\* A request keeps its session in the table.
HeldInv == \A c \in Tabs : Bench!Leased(c) => request[c].id \in Listed

\* The open stores are those of the listed sessions, and their files are there.
StoresInv ==
    /\ open = {Bench!Generation(i) : i \in Listed}
    /\ open \subseteq disk
    /\ "disk" \notin Bench!Failures => disk = open

\* What a session remembers is of its generation, and true.
Remembers(s) ==
    /\ s.draft # None => s.draft.generation = s.generation
    /\ \A t \in s.traces : t.generation = s.generation
    /\ s.task \in {None, s.generation}
    /\ s.ticket \in {None, s.generation}
    /\ s.terminal => s.result \in Bench!Decided
    /\ s.ticket # None => s.result = "PASSED"
MemoryIn(s) == \A i \in Bench!Ids : s[i] # None => Remembers(s[i])

BenchInv == Bench!TypeOK /\ Numbered /\ TableInv /\ LeasesIn(sessions) /\ HeldInv /\ StoresInv /\ MemoryIn(sessions)

-----------------------------------------------------------------------------
(* Sessions *)

LEMMA Nobody == None \notin Bench!Sessions /\ None \notin Bench!Results
  BY NoSessionAssumption

\* The two differ in who holds the session at most.
Alike(s, t) ==
    /\ t.generation = s.generation /\ t.draft = s.draft /\ t.traces = s.traces /\ t.task = s.task
    /\ t.ticket = s.ticket /\ t.terminal = s.terminal /\ t.head = s.head /\ t.result = s.result
    /\ t.judged = s.judged

LEMMA AlikeRemembers ==
    ASSUME NEW s, NEW t, Alike(s, t), Remembers(s)
    PROVE  Remembers(t)
  BY DEF Alike, Remembers

LEMMA NewIsSession ==
    /\ Bench!NewSession \in Bench!Sessions /\ Bench!NewSession.active = 0 /\ Bench!NewSession.queue = <<>>
    /\ Bench!NewSession.generation = 1 /\ Bench!NewSession.draft = None /\ Remembers(Bench!NewSession)
  <1>1. 1 \in Bench!Generations /\ 0 \in 0 .. RevisionBudget /\ <<>> \in Seq(Tabs)
    BY BoundsAssumption, EmptySeq DEF Bench!Generations
  <1>2. QED BY <1>1 DEF Bench!NewSession, Bench!Sessions, Remembers

\* A lease more.
LEMMA EnteredFacts ==
    ASSUME NEW s \in Bench!Sessions, NEW c \in Tabs
    PROVE  LET t == [s EXCEPT !.active = @ + 1, !.queue = Append(@, c)] IN
           t \in Bench!Sessions /\ Alike(s, t) /\ t.active = s.active + 1 /\ t.queue = Append(s.queue, c)
  <1>1. s.active + 1 \in Nat /\ Append(s.queue, c) \in Seq(Tabs)
    BY AppendProperties DEF Bench!Sessions
  <1>2. QED BY <1>1 DEF Bench!Sessions, Alike

\* A lease less.
LEMMA ReleasedFacts ==
    ASSUME NEW s \in Bench!Sessions, NEW c, s.active > 0, RemoveFirst(s.queue, c) \in Seq(Tabs)
    PROVE  /\ Bench!Released(s, c) \in Bench!Sessions /\ Alike(s, Bench!Released(s, c))
           /\ Bench!Released(s, c).active = s.active - 1 /\ Bench!Released(s, c).queue = RemoveFirst(s.queue, c)
  <1>1. s.active - 1 \in Nat
    BY DEF Bench!Sessions
  <1>2. QED BY <1>1, BenchLibrary DEF Bench!Sessions, Alike, Bench!Released

-----------------------------------------------------------------------------
(* Leases *)

LEMMA HoldersFinite == \A i : IsFiniteSet(Bench!Holders(i)) /\ Cardinality(Bench!Holders(i)) \in Nat
  BY TabsAssumption, FS_Subset, FS_CardinalityType DEF Bench!Holders

\* A request takes a lease of i.
LEMMA HolderMore ==
    ASSUME Bench!TypeOK, NEW c \in Tabs, request[c] = Bench!NoRequest, NEW i, NEW r \in Bench!Requests, r.id = i,
           request' = [request EXCEPT ![c] = r]
    PROVE  /\ request' \in [Tabs -> Bench!Requests \cup {Bench!NoRequest}]
           /\ c \notin Bench!Holders(i) /\ Bench!Holders(i)' = Bench!Holders(i) \cup {c}
           /\ Cardinality(Bench!Holders(i)') = Cardinality(Bench!Holders(i)) + 1
           /\ \A j : j # i => Bench!Holders(j)' = Bench!Holders(j)
           /\ \A d \in Tabs : Bench!Leased(d)' => d = c \/ (Bench!Leased(d) /\ request'[d] = request[d])
  <1>1. r # Bench!NoRequest
    BY DEF Bench!Requests, Bench!NoRequest
  <1>2. request' \in [Tabs -> Bench!Requests \cup {Bench!NoRequest}]
    BY DEF Bench!TypeOK
  <1>3. request'[c] = r /\ \A d \in Tabs \ {c} : request'[d] = request[d]
    BY DEF Bench!TypeOK
  <1>4. c \notin Bench!Holders(i) /\ Bench!Holders(i)' = Bench!Holders(i) \cup {c}
    BY <1>1, <1>3 DEF Bench!Holders, Bench!Leased
  <1>5. \A j : j # i => Bench!Holders(j)' = Bench!Holders(j)
    BY <1>1, <1>3 DEF Bench!Holders, Bench!Leased
  <1>6. Cardinality(Bench!Holders(i)') = Cardinality(Bench!Holders(i)) + 1
    BY <1>4, HoldersFinite, FS_AddElement
  <1>7. \A d \in Tabs : Bench!Leased(d)' => d = c \/ (Bench!Leased(d) /\ request'[d] = request[d])
    BY <1>3 DEF Bench!Leased
  <1>8. QED BY <1>2, <1>4, <1>5, <1>6, <1>7

\* A request gives its lease back.
LEMMA HolderLess ==
    ASSUME Bench!TypeOK, NEW c \in Tabs, Bench!Leased(c), NEW i, request[c].id = i,
           request' = [request EXCEPT ![c] = Bench!NoRequest]
    PROVE  /\ request' \in [Tabs -> Bench!Requests \cup {Bench!NoRequest}]
           /\ c \in Bench!Holders(i) /\ Bench!Holders(i)' = Bench!Holders(i) \ {c}
           /\ Cardinality(Bench!Holders(i)) > 0
           /\ Cardinality(Bench!Holders(i)') = Cardinality(Bench!Holders(i)) - 1
           /\ \A j : j # i => Bench!Holders(j)' = Bench!Holders(j)
           /\ \A d \in Tabs : Bench!Leased(d)' => Bench!Leased(d) /\ request'[d] = request[d]
  <1>2. request' \in [Tabs -> Bench!Requests \cup {Bench!NoRequest}]
    BY DEF Bench!TypeOK
  <1>3. request'[c] = Bench!NoRequest /\ \A d \in Tabs \ {c} : request'[d] = request[d]
    BY DEF Bench!TypeOK
  <1>4. c \in Bench!Holders(i) /\ Bench!Holders(i)' = Bench!Holders(i) \ {c}
    BY <1>3 DEF Bench!Holders, Bench!Leased
  <1>5. \A j : j # i => Bench!Holders(j)' = Bench!Holders(j)
    BY <1>3 DEF Bench!Holders, Bench!Leased
  <1>6. Cardinality(Bench!Holders(i)') = Cardinality(Bench!Holders(i)) - 1
    BY <1>4, HoldersFinite, FS_RemoveElement
  <1>7. Cardinality(Bench!Holders(i)) > 0
    <2>1. Bench!Holders(i) # {}
      BY <1>4
    <2>2. QED BY <2>1, HoldersFinite, FS_EmptySet
  <1>8. \A d \in Tabs : Bench!Leased(d)' => Bench!Leased(d) /\ request'[d] = request[d]
    BY <1>3 DEF Bench!Leased
  <1>9. QED BY <1>2, <1>4, <1>5, <1>6, <1>7, <1>8

\* The request of c enters session i of the sessions s.
LEMMA EntersFacts ==
    ASSUME Bench!TypeOK, NEW s \in [Bench!Ids -> Bench!Sessions \cup {None}], LeasesIn(s), MemoryIn(s),
           NEW c \in Tabs, request[c] = Bench!NoRequest, NEW i \in Bench!Ids, s[i] # None,
           NEW kind \in Bench!Kinds, NEW order, Bench!Enters(c, i, kind, s, order)
    PROVE  /\ sessions' \in [Bench!Ids -> Bench!Sessions \cup {None}]
           /\ request' \in [Tabs -> Bench!Requests \cup {Bench!NoRequest}]
           /\ Bench!Known' = {j \in Bench!Ids : s[j] # None}
           /\ LeasesIn(sessions)' /\ MemoryIn(sessions)'
           /\ \A j \in Bench!Ids : s[j] # None =>
                   sessions'[j].generation = s[j].generation /\ sessions'[j].draft = s[j].draft
           /\ \A d \in Tabs : Bench!Leased(d)' => request'[d].id = i \/ (Bench!Leased(d) /\ request'[d] = request[d])
  <1> DEFINE t == [s[i] EXCEPT !.active = @ + 1, !.queue = Append(@, c)]
             r == [at |-> "waiting", id |-> i, kind |-> kind, created |-> i # Bench!Cookie(c)]
  <1>1. s[i] \in Bench!Sessions
    OBVIOUS
  <1>2. t \in Bench!Sessions /\ Alike(s[i], t) /\ t.active = s[i].active + 1 /\ t.queue = Append(s[i].queue, c)
    BY <1>1, EnteredFacts
  <1>3. sessions' = [s EXCEPT ![i] = t] /\ request' = [request EXCEPT ![c] = r]
    BY DEF Bench!Enters
  <1>4. r \in Bench!Requests /\ r.id = i
    BY DEF Bench!Requests
  <1> HIDE DEF t, r
  <1>5. /\ sessions' \in [Bench!Ids -> Bench!Sessions \cup {None}]
        /\ sessions'[i] = t /\ \A j \in Bench!Ids \ {i} : sessions'[j] = s[j]
    BY <1>2, <1>3
  <1>6. t # None
    BY <1>2, Nobody
  <1>7. /\ request' \in [Tabs -> Bench!Requests \cup {Bench!NoRequest}]
        /\ c \notin Bench!Holders(i) /\ Bench!Holders(i)' = Bench!Holders(i) \cup {c}
        /\ Cardinality(Bench!Holders(i)') = Cardinality(Bench!Holders(i)) + 1
        /\ \A j : j # i => Bench!Holders(j)' = Bench!Holders(j)
        /\ \A d \in Tabs : Bench!Leased(d)' => d = c \/ (Bench!Leased(d) /\ request'[d] = request[d])
    BY <1>3, <1>4, HolderMore
  <1>8. LeasesIn(sessions)'
    <2>1. Queue(t.queue, Bench!Holders(i)', {}) /\ t.active = Cardinality(Bench!Holders(i)')
      BY <1>2, <1>7, QueueAppend DEF LeasesIn
    <2>2. QED BY <1>5, <1>6, <1>7, <2>1 DEF LeasesIn
  <1>9. MemoryIn(sessions)'
    <2>1. Remembers(t)
      BY <1>2, AlikeRemembers DEF MemoryIn
    <2>2. QED BY <1>5, <2>1 DEF MemoryIn
  <1>10. Bench!Known' = {j \in Bench!Ids : s[j] # None}
    BY <1>5, <1>6 DEF Bench!Known
  <1>11. \A j \in Bench!Ids : s[j] # None =>
             sessions'[j].generation = s[j].generation /\ sessions'[j].draft = s[j].draft
    BY <1>2, <1>5 DEF Alike
  <1>12. request'[c].id = i
    BY <1>3, <1>4 DEF Bench!TypeOK
  <1>13. QED BY <1>5, <1>7, <1>8, <1>9, <1>10, <1>11, <1>12

\* The request of c ends, and leaves s in the place of its session.
LEMMA LeavesFacts ==
    ASSUME Bench!TypeOK, LeasesIn(sessions), MemoryIn(sessions), NEW c \in Tabs, Bench!Leased(c),
           NEW i \in Bench!Known, request[c].id = i,
           NEW s \in Bench!Sessions, s.active = sessions[i].active, s.queue = sessions[i].queue, Remembers(s),
           sessions' = [sessions EXCEPT ![request[c].id] = Bench!Released(s, c)],
           request' = [request EXCEPT ![c] = Bench!NoRequest]
    PROVE  /\ sessions' \in [Bench!Ids -> Bench!Sessions \cup {None}]
           /\ request' \in [Tabs -> Bench!Requests \cup {Bench!NoRequest}]
           /\ Bench!Known' = Bench!Known
           /\ LeasesIn(sessions)' /\ MemoryIn(sessions)'
           /\ \A j \in Bench!Ids \ {i} : sessions'[j] = sessions[j]
           /\ sessions'[i].generation = s.generation /\ sessions'[i].draft = s.draft
           /\ \A d \in Tabs : Bench!Leased(d)' => Bench!Leased(d) /\ request'[d] = request[d]
  <1> DEFINE t == Bench!Released(s, c)
  <1>1. i \in Bench!Ids /\ sessions[i] \in Bench!Sessions /\ sessions[i] # None
    BY DEF Bench!TypeOK, Bench!Known
  <1>2. /\ request' \in [Tabs -> Bench!Requests \cup {Bench!NoRequest}]
        /\ c \in Bench!Holders(i) /\ Bench!Holders(i)' = Bench!Holders(i) \ {c}
        /\ Cardinality(Bench!Holders(i)) > 0
        /\ Cardinality(Bench!Holders(i)') = Cardinality(Bench!Holders(i)) - 1
        /\ \A j : j # i => Bench!Holders(j)' = Bench!Holders(j)
        /\ \A d \in Tabs : Bench!Leased(d)' => Bench!Leased(d) /\ request'[d] = request[d]
    BY HolderLess
  <1>3. s.active = Cardinality(Bench!Holders(i)) /\ Queue(s.queue, Bench!Holders(i), {})
    BY <1>1 DEF LeasesIn
  <1>4. Queue(RemoveFirst(s.queue, c), Bench!Holders(i)', {})
    BY <1>2, <1>3, QueueRemove
  <1>5. RemoveFirst(s.queue, c) \in Seq(Tabs)
    <2>1. RemoveFirst(s.queue, c) \in Seq(Bench!Holders(i)') /\ Bench!Holders(i)' \subseteq Tabs
      BY <1>2, <1>4 DEF Queue, Bench!Holders
    <2>2. QED BY <2>1
  <1>6. /\ t \in Bench!Sessions /\ Alike(s, t)
        /\ t.active = s.active - 1 /\ t.queue = RemoveFirst(s.queue, c)
    BY <1>2, <1>3, <1>5, ReleasedFacts
  <1>7. t # None
    BY <1>6, Nobody
  <1> HIDE DEF t
  <1>8. /\ sessions' \in [Bench!Ids -> Bench!Sessions \cup {None}]
        /\ sessions'[i] = t /\ \A j \in Bench!Ids \ {i} : sessions'[j] = sessions[j]
    BY <1>1, <1>6 DEF Bench!TypeOK, t
  <1>9. LeasesIn(sessions)'
    <2>1. t.active = Cardinality(Bench!Holders(i)') /\ Queue(t.queue, Bench!Holders(i)', {})
      BY <1>2, <1>3, <1>4, <1>6
    <2>2. ASSUME NEW j \in Bench!Ids \ {i}, sessions'[j] # None
          PROVE  sessions'[j].active = Cardinality(Bench!Holders(j)')
                 /\ Queue(sessions'[j].queue, Bench!Holders(j)', {})
      BY <1>2, <1>8, <2>2 DEF LeasesIn
    <2>3. QED BY <1>8, <2>1, <2>2 DEF LeasesIn
  <1>10. MemoryIn(sessions)'
    BY <1>6, <1>8, AlikeRemembers DEF MemoryIn
  <1>11. Bench!Known' = Bench!Known
    BY <1>1, <1>7, <1>8 DEF Bench!Known
  <1>12. QED BY <1>2, <1>6, <1>8, <1>9, <1>10, <1>11 DEF Alike

-----------------------------------------------------------------------------
(* The table *)

LEMMA QueueRange ==
    ASSUME NEW q, NEW M, Queue(q, M, {})
    PROVE  Range(q) = M
  <1>1. DOMAIN q = 1 .. Len(q) /\ \A k \in 1 .. Len(q) : q[k] \in M
    BY DEF Queue
  <1>2. QED BY <1>1 DEF Queue, Range

LEMMA TableWithout ==
    ASSUME NEW q \in Seq(Bench!Ids), Queue(q, Range(q), {}), NEW e \in Range(q)
    PROVE  LET t == RemoveFirst(q, e) IN
           /\ t \in Seq(Bench!Ids) /\ Queue(t, Range(t), {})
           /\ Range(t) = Range(q) \ {e} /\ Len(t) = Len(q) - 1
  <1> DEFINE t == RemoveFirst(q, e)
  <1>1. \E k \in 1 .. Len(q) : q[k] = e
    BY DEF Range
  <1>2. PICK k \in 1 .. Len(q) : q[k] = e /\ t = RemoveAt(q, k)
    BY <1>1, RemoveFirstIsRemoveAt
  <1>3. t \in Seq(Bench!Ids) /\ Len(t) = Len(q) - 1
    BY <1>2, RemoveAtFacts
  <1>4. Queue(t, Range(q) \ {e}, {})
    BY QueueRemove
  <1> HIDE DEF t
  <1>5. QED BY <1>3, <1>4, QueueRange DEF t

LEMMA TableWith ==
    ASSUME NEW q \in Seq(Bench!Ids), Queue(q, Range(q), {}), NEW i \in Bench!Ids, i \notin Range(q)
    PROVE  LET t == Append(q, i) IN
           /\ t \in Seq(Bench!Ids) /\ Queue(t, Range(t), {})
           /\ Range(t) = Range(q) \cup {i} /\ Len(t) = Len(q) + 1
  <1> DEFINE t == Append(q, i)
  <1>1. t \in Seq(Bench!Ids) /\ Len(t) = Len(q) + 1
    BY AppendProperties
  <1>2. Queue(t, Range(q) \cup {i}, {})
    BY QueueAppend
  <1> HIDE DEF t
  <1>3. QED BY <1>1, <1>2, QueueRange DEF t

\* What a server that has to make room takes.
LEMMA EvictedIsEvictable ==
    ASSUME Bench!TypeOK, \E j \in Listed : Bench!Evictable(j)
    PROVE  Bench!Evicted \in Listed /\ Bench!Evictable(Bench!Evicted)
  <1> DEFINE I == {k \in 1 .. Len(listed) : Bench!Evictable(listed[k])}
  <1>1. listed \in Seq(Bench!Ids) /\ DOMAIN listed = 1 .. Len(listed)
    BY DEF Bench!TypeOK
  <1>2. I # {} /\ I \subseteq Nat
    BY <1>1 DEF Listed, Range
  <1>3. PICK x \in I : \A y \in I : ~(<<y, x>> \in OpToRel(<, Nat))
    BY <1>2, NatLessThanWellFounded, WFMin
  <1>4. ASSUME NEW y \in I PROVE x <= y
    <2>1. ~(<<y, x>> \in {ss \in Nat \X Nat : ss[1] < ss[2]})
      BY <1>3 DEF OpToRel
    <2>2. QED
      BY <2>1
  <1>5. Min(I) \in I
    BY <1>4 DEF Min
  <1>6. SelectInSeq(listed, Bench!Evictable) = Min(I)
    BY <1>2 DEF SelectInSeq
  <1>7. Bench!Evicted = listed[Min(I)]
    <2>1. Bench!SelectInSeq(listed, Bench!Evictable) = SelectInSeq(listed, Bench!Evictable)
      BY Zenon DEF Bench!SelectInSeq, SelectInSeq, Bench!Min, Min
    <2>2. QED BY <1>6, <2>1 DEF Bench!Evicted
  <1> DEFINE n == Min(I)
  <1>8. n \in 1 .. Len(listed) /\ Bench!Evictable(listed[n])
    BY <1>5
  <1> HIDE DEF n
  <1>9. QED BY <1>1, <1>7, <1>8 DEF Listed, Range, n

\* An eviction takes an idle session, and forgets it.
LEMMA EvictionFacts ==
    ASSUME BenchInv, \E j \in Listed : Bench!Evictable(j)
    PROVE  /\ Bench!Evicted \in Listed /\ Bench!Evicted \in Bench!Known
           /\ \A c \in Tabs : Bench!Leased(c) => request[c].id # Bench!Evicted
           /\ Bench!Forgotten \in [Bench!Ids -> Bench!Sessions \cup {None}]
           /\ {j \in Bench!Ids : Bench!Forgotten[j] # None} = Bench!Known
           /\ LeasesIn(Bench!Forgotten) /\ MemoryIn(Bench!Forgotten)
           /\ \A j \in Bench!Known : /\ Bench!Forgotten[j].generation = sessions[j].generation
                                     /\ Bench!Forgotten[j].draft \in {sessions[j].draft, None}
  <1>1. PICK e : e = Bench!Evicted
    OBVIOUS
  <1>2. Bench!TypeOK /\ TableInv /\ LeasesIn(sessions) /\ MemoryIn(sessions)
    BY DEF BenchInv
  <1>3. e \in Listed /\ Bench!Evictable(e)
    BY <1>1, <1>2, EvictedIsEvictable
  <1>4. e \in Bench!Known /\ e \in Bench!Ids /\ sessions[e] \in Bench!Sessions
    BY <1>2, <1>3 DEF TableInv, Bench!Known, Bench!TypeOK
  <1>5. Cardinality(Bench!Holders(e)) = 0
    BY <1>2, <1>3, <1>4 DEF Bench!Evictable, LeasesIn, Bench!Known
  <1>6. Bench!Holders(e) = {}
    BY <1>5, HoldersFinite, FS_EmptySet
  <1>7. \A c \in Tabs : Bench!Leased(c) => request[c].id # e
    BY <1>6 DEF Bench!Holders
  <1> DEFINE s == [Bench!NewSession EXCEPT !.generation = sessions[e].generation]
  <1>8. /\ s \in Bench!Sessions /\ s.active = 0 /\ s.queue = <<>> /\ s.draft = None
        /\ s.generation = sessions[e].generation /\ Remembers(s)
    <2>1. sessions[e].generation \in Bench!Generations
      BY <1>4 DEF Bench!Sessions
    <2>2. QED BY <2>1, NewIsSession DEF Bench!NewSession, Bench!Sessions, Remembers
  <1>9. Bench!Forgotten = [sessions EXCEPT ![e] = s]
    BY <1>1 DEF Bench!Forgotten
  <1> HIDE DEF s
  <1>10. s # None
    BY <1>8, Nobody
  <1>11. /\ Bench!Forgotten \in [Bench!Ids -> Bench!Sessions \cup {None}]
         /\ Bench!Forgotten[e] = s /\ \A j \in Bench!Ids \ {e} : Bench!Forgotten[j] = sessions[j]
    BY <1>2, <1>4, <1>8, <1>9 DEF Bench!TypeOK
  <1>12. {j \in Bench!Ids : Bench!Forgotten[j] # None} = Bench!Known
    BY <1>4, <1>10, <1>11 DEF Bench!Known
  <1>13. LeasesIn(Bench!Forgotten)
    <2>1. s.active = Cardinality(Bench!Holders(e)) /\ Queue(s.queue, Bench!Holders(e), {})
      BY <1>5, <1>6, <1>8, QueueEmpty
    <2>2. QED BY <1>2, <1>11, <2>1 DEF LeasesIn
  <1>14. MemoryIn(Bench!Forgotten)
    BY <1>2, <1>8, <1>11 DEF MemoryIn
  <1>15. \A j \in Bench!Known : /\ Bench!Forgotten[j].generation = sessions[j].generation
                                /\ Bench!Forgotten[j].draft \in {sessions[j].draft, None}
    BY <1>8, <1>11 DEF Bench!Known
  <1>16. QED BY <1>1, <1>3, <1>4, <1>7, <1>11, <1>12, <1>13, <1>14, <1>15

-----------------------------------------------------------------------------
(* What the steps have in common *)

\* A decided session keeps its draft, or has none.
DraftKept(s, t) == s.judged /\ s.result \in Bench!Decided /\ t.generation = s.generation
    => t.draft \in {s.draft, None}
DraftsKept == \A i \in Bench!Known : DraftKept(sessions[i], sessions'[i])

LEMMA HolderKnown ==
    ASSUME BenchInv, NEW c \in Tabs, Bench!Leased(c)
    PROVE  /\ request[c] \in Bench!Requests /\ request[c].id \in Bench!Known /\ request[c].id \in Listed
           /\ request[c].id \in Bench!Ids /\ Bench!Mine(c) = sessions[request[c].id]
           /\ Bench!Mine(c) \in Bench!Sessions /\ Remembers(Bench!Mine(c))
  <1>1. request[c] \in Bench!Requests
    BY DEF BenchInv, Bench!TypeOK, Bench!Leased
  <1>2. request[c].id \in Bench!Known /\ request[c].id \in Listed
    BY DEF BenchInv, HeldInv, TableInv
  <1>3. Bench!Mine(c) = sessions[request[c].id]
    BY DEF Bench!Mine
  <1>4. Bench!Mine(c) \in Bench!Sessions /\ Remembers(Bench!Mine(c)) /\ request[c].id \in Bench!Ids
    BY <1>2, <1>3 DEF BenchInv, Bench!TypeOK, Bench!Known, MemoryIn
  <1>5. QED BY <1>1, <1>2, <1>3, <1>4

\* The stores stay those of the table when neither they nor a generation change.
LEMMA StoresStay ==
    ASSUME StoresInv, UNCHANGED <<setup, disk, open>>, Listed' = Listed,
           \A j \in Listed : sessions'[j].generation = sessions[j].generation
    PROVE  StoresInv'
  <1>1. \A j \in Listed : Bench!Generation(j)' = Bench!Generation(j)
    BY DEF Bench!Generation
  <1>2. {Bench!Generation(j) : j \in Listed}' = {Bench!Generation(j) : j \in Listed}
    BY <1>1
  <1>3. Bench!Failures' = Bench!Failures
    BY DEF Bench!Failures
  <1>4. QED BY <1>2, <1>3 DEF StoresInv

\* s becomes t while a request works on it.
Becomes(s, t) ==
    /\ t \in Bench!Sessions /\ Remembers(t)
    /\ t.active = s.active /\ t.queue = s.queue /\ DraftKept(s, t)

LEMMA CookieSet ==
    ASSUME Bench!TypeOK, UNCHANGED setup, NEW c \in Tabs, NEW i \in Bench!Ids,
           cookie' = cookie \/ cookie' = [cookie EXCEPT ![Bench!Browser(c)] = i]
    PROVE  cookie' \in [Bench!Browsers' -> Bench!Ids \cup {None}]
  <1>1. Bench!Browsers' = Bench!Browsers
    BY DEF Bench!Browsers
  <1>2. cookie \in [Bench!Browsers -> Bench!Ids \cup {None}]
    BY DEF Bench!TypeOK
  <1>3. [cookie EXCEPT ![Bench!Browser(c)] = i] \in [Bench!Browsers -> Bench!Ids \cup {None}]
    BY <1>2
  <1>4. QED BY <1>1, <1>2, <1>3

\* The request of c ends: all but the stores.
LEMMA EndsKeeps ==
    ASSUME BenchInv, UNCHANGED setup, NEW c \in Tabs, Bench!Leased(c), NEW s, Becomes(Bench!Mine(c), s),
           Bench!Leaves(c, s) \/ Bench!Drops(c, s)
    PROVE  /\ Bench!TypeOK /\ UNCHANGED listed
           /\ sessions' \in [Bench!Ids -> Bench!Sessions \cup {None}]
           /\ request' \in [Tabs -> Bench!Requests \cup {Bench!NoRequest}]
           /\ cookie' \in [Bench!Browsers' -> Bench!Ids \cup {None}]
           /\ Numbered' /\ TableInv' /\ LeasesIn(sessions)' /\ HeldInv' /\ MemoryIn(sessions)'
           /\ \A j \in Bench!Ids \ {request[c].id} : sessions'[j] = sessions[j]
           /\ sessions'[request[c].id].generation = s.generation
           /\ DraftsKept
  <1> DEFINE i == request[c].id
  <1>1. Bench!TypeOK /\ LeasesIn(sessions) /\ MemoryIn(sessions) /\ Numbered /\ TableInv /\ HeldInv
    BY DEF BenchInv
  <1>2. i \in Bench!Known /\ i \in Bench!Ids /\ Bench!Mine(c) = sessions[i] /\ Bench!Mine(c) \in Bench!Sessions
    BY HolderKnown
  <1>3. /\ sessions' = [sessions EXCEPT ![i] = Bench!Released(s, c)]
        /\ request' = [request EXCEPT ![c] = Bench!NoRequest] /\ listed' = listed
    BY DEF Bench!Leaves, Bench!Drops
  <1>4. cookie' = cookie \/ cookie' = [cookie EXCEPT ![Bench!Browser(c)] = i]
    BY DEF Bench!Leaves, Bench!Drops
  <1> HIDE DEF i
  <1>5. /\ sessions' \in [Bench!Ids -> Bench!Sessions \cup {None}]
        /\ request' \in [Tabs -> Bench!Requests \cup {Bench!NoRequest}]
        /\ Bench!Known' = Bench!Known
        /\ LeasesIn(sessions)' /\ MemoryIn(sessions)'
        /\ \A j \in Bench!Ids \ {i} : sessions'[j] = sessions[j]
        /\ sessions'[i].generation = s.generation /\ sessions'[i].draft = s.draft
        /\ \A d \in Tabs : Bench!Leased(d)' => Bench!Leased(d) /\ request'[d] = request[d]
    BY <1>1, <1>2, <1>3, LeavesFacts DEF Becomes, i
  <1>6. cookie' \in [Bench!Browsers' -> Bench!Ids \cup {None}]
    BY <1>1, <1>2, <1>4, CookieSet
  <1>7. Numbered' /\ TableInv'
    BY <1>1, <1>3, <1>5 DEF Numbered, TableInv, Listed
  <1>8. HeldInv'
    BY <1>1, <1>3, <1>5 DEF HeldInv, Listed
  <1>9. DraftsKept
    <2>1. DraftKept(sessions[i], sessions'[i])
      BY <1>2, <1>5 DEF Becomes, DraftKept
    <2>2. \A j \in Bench!Known \ {i} : DraftKept(sessions[j], sessions'[j])
      BY <1>5 DEF DraftKept, Bench!Known
    <2>3. QED BY <2>1, <2>2 DEF DraftsKept
  <1>10. QED BY <1>1, <1>3, <1>5, <1>6, <1>7, <1>8, <1>9 DEF i

\* A tool ends, in the generation it began in.
LEMMA ToolEnds ==
    ASSUME BenchInv, UNCHANGED <<setup, disk, open>>, NEW c \in Tabs, Bench!Leased(c),
           NEW s, Becomes(Bench!Mine(c), s), s.generation = Bench!Mine(c).generation,
           Bench!Leaves(c, s) \/ Bench!Drops(c, s)
    PROVE  BenchInv' /\ DraftsKept
  <1>1. /\ Bench!TypeOK /\ UNCHANGED listed
        /\ sessions' \in [Bench!Ids -> Bench!Sessions \cup {None}]
        /\ request' \in [Tabs -> Bench!Requests \cup {Bench!NoRequest}]
        /\ cookie' \in [Bench!Browsers' -> Bench!Ids \cup {None}]
        /\ Numbered' /\ TableInv' /\ LeasesIn(sessions)' /\ HeldInv' /\ MemoryIn(sessions)'
        /\ \A j \in Bench!Ids \ {request[c].id} : sessions'[j] = sessions[j]
        /\ sessions'[request[c].id].generation = s.generation
        /\ DraftsKept
    BY EndsKeeps
  <1>2. \A j \in Bench!Ids : sessions'[j].generation = sessions[j].generation
    BY <1>1 DEF Bench!Mine
  <1>3. Listed \subseteq Bench!Ids /\ Listed' = Listed
    BY <1>1 DEF BenchInv, TableInv, Bench!Known, Listed
  <1>4. StoresInv'
    BY <1>2, <1>3, StoresStay DEF BenchInv
  <1>5. Bench!TypeOK'
    BY <1>1 DEF Bench!TypeOK
  <1>6. QED BY <1>1, <1>4, <1>5 DEF BenchInv

LEMMA Running ==
    ASSUME BenchInv, NEW c \in Tabs, NEW kind, Bench!Runs(c, kind)
    PROVE  /\ Bench!Leased(c) /\ Bench!Mine(c) \in Bench!Sessions /\ Remembers(Bench!Mine(c))
           /\ request[c].at = "running" /\ request[c].kind = kind
  <1>1. Bench!Leased(c) /\ request[c].at = "running" /\ request[c].kind = kind
    BY DEF Bench!Runs, Bench!Leased, Bench!NoRequest
  <1>2. QED BY <1>1, HolderKnown

-----------------------------------------------------------------------------
(* The tools *)

LEMMA StaysAsItIs ==
    ASSUME NEW s \in Bench!Sessions, Remembers(s)
    PROVE  Becomes(s, s)
  BY DEF Becomes, DraftKept

LEMMA RefreshedFacts ==
    ASSUME NEW s \in Bench!Sessions, Remembers(s)
    PROVE  LET t == Bench!Refreshed(s) IN
           /\ Becomes(s, t) /\ t.generation = s.generation /\ t.terminal = (s.result \in Bench!Decided)
           /\ t.draft = s.draft /\ t.traces = s.traces /\ t.head = s.head /\ t.result = s.result
           /\ t.judged = s.judged
  <1> DEFINE t == Bench!Refreshed(s)
  <1>1. /\ t \in Bench!Sessions /\ t.terminal = (s.result \in Bench!Decided)
        /\ t.generation = s.generation /\ t.active = s.active /\ t.queue = s.queue
        /\ t.draft = s.draft /\ t.traces = s.traces /\ t.head = s.head /\ t.result = s.result
        /\ t.judged = s.judged /\ t.task = s.task /\ t.ticket = s.ticket
    <2>1. ASSUME NEW b \in BOOLEAN
          PROVE  LET u == [s EXCEPT !.terminal = b] IN
                 /\ u \in Bench!Sessions /\ u.terminal = b
                 /\ u.generation = s.generation /\ u.active = s.active /\ u.queue = s.queue
                 /\ u.draft = s.draft /\ u.traces = s.traces /\ u.head = s.head /\ u.result = s.result
                 /\ u.judged = s.judged /\ u.task = s.task /\ u.ticket = s.ticket
      BY DEF Bench!Sessions
    <2>2. (s.result \in Bench!Decided) \in BOOLEAN
      OBVIOUS
    <2>3. QED BY <2>1, <2>2, Zenon DEF Bench!Refreshed
  <1> HIDE DEF t
  <1>2. Remembers(t)
    BY <1>1 DEF Remembers
  <1>3. QED BY <1>1, <1>2 DEF Becomes, DraftKept, t

LEMMA ContextKeeps ==
    ASSUME BenchInv, UNCHANGED setup, NEW c \in Tabs, Bench!Context(c) \/ Bench!Read(c)
    PROVE  BenchInv' /\ DraftsKept
  <1>1. PICK kind : Bench!Runs(c, kind)
    BY DEF Bench!Context, Bench!Read
  <1>2. Bench!Leased(c) /\ Bench!Mine(c) \in Bench!Sessions /\ Remembers(Bench!Mine(c))
    BY <1>1, Running
  <1>3. UNCHANGED <<disk, open>> /\ \E s \in {Bench!Mine(c), Bench!Refreshed(Bench!Mine(c))} : Bench!Leaves(c, s)
    BY DEF Bench!Context, Bench!Read
  <1>4. \A s \in {Bench!Mine(c), Bench!Refreshed(Bench!Mine(c))} :
           Becomes(Bench!Mine(c), s) /\ s.generation = Bench!Mine(c).generation
    BY <1>2, StaysAsItIs, RefreshedFacts
  <1>5. QED BY <1>2, <1>3, <1>4, ToolEnds

LEMMA TaskFacts ==
    ASSUME NEW s \in Bench!Sessions, Remembers(s)
    PROVE  LET t == [s EXCEPT !.task = s.generation] IN Becomes(s, t) /\ t.generation = s.generation
  <1> DEFINE t == [s EXCEPT !.task = s.generation]
  <1>1. /\ t \in Bench!Sessions /\ t.terminal = s.terminal
        /\ t.generation = s.generation /\ t.active = s.active /\ t.queue = s.queue
        /\ t.draft = s.draft /\ t.traces = s.traces /\ t.head = s.head /\ t.result = s.result
        /\ t.judged = s.judged /\ t.task = s.generation /\ t.ticket = s.ticket
    BY DEF Bench!Sessions
  <1> HIDE DEF t
  <1>2. QED BY <1>1 DEF Becomes, DraftKept, Remembers, t

LEMMA TraceFacts ==
    ASSUME NEW s \in Bench!Sessions, Remembers(s)
    PROVE  LET t == [s EXCEPT !.traces = @ \cup {[generation |-> s.generation, base |-> s.head]}] IN
           Becomes(s, t) /\ t.generation = s.generation
  <1> DEFINE trace == [generation |-> s.generation, base |-> s.head]
             t == [s EXCEPT !.traces = @ \cup {trace}]
  <1>1. trace \in Bench!Drafts /\ trace.generation = s.generation
    BY DEF Bench!Sessions, Bench!Drafts
  <1> HIDE DEF trace
  <1>2. /\ t \in Bench!Sessions /\ t.terminal = s.terminal
        /\ t.generation = s.generation /\ t.active = s.active /\ t.queue = s.queue
        /\ t.draft = s.draft /\ t.traces = s.traces \cup {trace} /\ t.head = s.head /\ t.result = s.result
        /\ t.judged = s.judged /\ t.task = s.task /\ t.ticket = s.ticket
    BY <1>1 DEF Bench!Sessions
  <1> HIDE DEF t
  <1>3. Becomes(s, t) /\ t.generation = s.generation
    BY <1>1, <1>2 DEF Becomes, DraftKept, Remembers
  <1>4. QED BY <1>3 DEF t, trace

LEMMA RunTaskKeeps ==
    ASSUME BenchInv, UNCHANGED setup, NEW c \in Tabs, Bench!RunTask(c) \/ Bench!RunExperiment(c)
    PROVE  BenchInv' /\ DraftsKept
  <1> DEFINE m == Bench!Mine(c)
             done == [m EXCEPT !.task = m.generation]
             seen == [m EXCEPT !.traces = @ \cup {[generation |-> m.generation, base |-> m.head]}]
  <1>1. PICK kind : Bench!Runs(c, kind)
    BY DEF Bench!RunTask, Bench!RunExperiment
  <1>2. Bench!Leased(c) /\ m \in Bench!Sessions /\ Remembers(m)
    BY <1>1, Running
  <1>3. UNCHANGED <<disk, open>> /\ \E s \in {m, done, seen} : Bench!Leaves(c, s)
    BY DEF Bench!RunTask, Bench!RunExperiment
  <1>4. Becomes(m, m) /\ Becomes(m, done) /\ done.generation = m.generation
    BY <1>2, StaysAsItIs, TaskFacts
  <1>5. Becomes(m, seen) /\ seen.generation = m.generation
    BY <1>2, TraceFacts
  <1> HIDE DEF done, seen
  <1>6. \A s \in {m, done, seen} : Becomes(m, s) /\ s.generation = m.generation
    BY <1>4, <1>5
  <1>7. QED BY <1>2, <1>3, <1>6, ToolEnds

\* A draft is accepted where editing is not locked only.
LEMMA DraftFacts ==
    ASSUME NEW s \in Bench!Sessions, Remembers(s), s.result \notin Bench!Decided
    PROVE  LET t == [s EXCEPT !.draft = [generation |-> s.generation, base |-> s.head]] IN
           Becomes(s, t) /\ t.generation = s.generation
  <1> DEFINE draft == [generation |-> s.generation, base |-> s.head]
             t == [s EXCEPT !.draft = draft]
  <1>1. draft \in Bench!Drafts /\ draft.generation = s.generation
    BY DEF Bench!Sessions, Bench!Drafts
  <1> HIDE DEF draft
  <1>2. /\ t \in Bench!Sessions /\ t.terminal = s.terminal
        /\ t.generation = s.generation /\ t.active = s.active /\ t.queue = s.queue
        /\ t.draft = draft /\ t.traces = s.traces /\ t.head = s.head /\ t.result = s.result
        /\ t.judged = s.judged /\ t.task = s.task /\ t.ticket = s.ticket
    BY <1>1 DEF Bench!Sessions
  <1> HIDE DEF t
  <1>3. Becomes(s, t) /\ t.generation = s.generation
    BY <1>1, <1>2 DEF Becomes, DraftKept, Remembers
  <1>4. QED BY <1>3 DEF t, draft

LEMMA BecomesTwice ==
    ASSUME NEW s, NEW t, NEW u, Becomes(s, t), t.draft = s.draft, t.judged = s.judged, t.result = s.result,
           t.generation = s.generation, Becomes(t, u)
    PROVE  Becomes(s, u)
  BY DEF Becomes, DraftKept

LEMMA SetDraftKeeps ==
    ASSUME BenchInv, UNCHANGED setup, NEW c \in Tabs, Bench!SetDraft(c)
    PROVE  BenchInv' /\ DraftsKept
  <1> DEFINE m == Bench!Mine(c)
             s == Bench!Refreshed(m)
             new == [s EXCEPT !.draft = [generation |-> s.generation, base |-> s.head]]
  <1>1. Bench!Leased(c) /\ m \in Bench!Sessions /\ Remembers(m)
    BY Running DEF Bench!SetDraft
  <1>2. UNCHANGED <<disk, open>> /\ Bench!Leaves(c, IF s.terminal THEN s ELSE new)
    BY DEF Bench!SetDraft
  <1> HIDE DEF m
  <1>3. /\ Becomes(m, s) /\ s.generation = m.generation /\ s.terminal = (m.result \in Bench!Decided)
        /\ s.draft = m.draft /\ s.result = m.result /\ s.judged = m.judged
    BY <1>1, RefreshedFacts
  <1> HIDE DEF s
  <1>4. s \in Bench!Sessions /\ Remembers(s)
    BY <1>3 DEF Becomes
  <1>5. CASE s.terminal
    BY <1>1, <1>2, <1>3, <1>5, ToolEnds DEF m
  <1>6. CASE ~s.terminal
    <2>1. s.result \notin Bench!Decided
      BY <1>3, <1>6
    <2>2. Becomes(s, new) /\ new.generation = s.generation
      BY <1>4, <2>1, DraftFacts
    <2>3. Bench!Leaves(c, new)
      BY <1>2, <1>6
    <2> HIDE DEF new
    <2>4. Becomes(m, new) /\ new.generation = m.generation
      BY <1>3, <2>2, BecomesTwice
    <2>5. QED BY <1>1, <1>2, <2>3, <2>4, ToolEnds DEF m
  <1>7. QED BY <1>5, <1>6

LEMMA CommittedFacts ==
    ASSUME NEW s \in Bench!Sessions, Remembers(s), s.head < RevisionBudget
    PROVE  LET t == [s EXCEPT !.head = @ + 1, !.draft = None] IN
           Becomes(s, t) /\ t.generation = s.generation
  <1> DEFINE t == [s EXCEPT !.head = @ + 1, !.draft = None]
  <1>1. s.head + 1 \in 0 .. RevisionBudget
    BY BoundsAssumption DEF Bench!Sessions
  <1>2. /\ t \in Bench!Sessions /\ t.terminal = s.terminal
        /\ t.generation = s.generation /\ t.active = s.active /\ t.queue = s.queue
        /\ t.draft = None /\ t.traces = s.traces /\ t.result = s.result
        /\ t.judged = s.judged /\ t.task = s.task /\ t.ticket = s.ticket
    BY <1>1 DEF Bench!Sessions
  <1> HIDE DEF t
  <1>3. QED BY <1>2 DEF Becomes, DraftKept, Remembers, t

LEMMA CreateKeeps ==
    ASSUME BenchInv, UNCHANGED setup, NEW c \in Tabs, Bench!CreateFromDraft(c)
    PROVE  BenchInv' /\ DraftsKept
  <1> DEFINE m == Bench!Mine(c)
             s == Bench!Refreshed(m)
             new == [s EXCEPT !.head = @ + 1, !.draft = None]
  <1>1. Bench!Leased(c) /\ m \in Bench!Sessions /\ Remembers(m)
    BY Running DEF Bench!CreateFromDraft
  <1>2. UNCHANGED <<disk, open>> /\ (Bench!Leaves(c, s) \/ (Bench!Ready(s) /\ Bench!Leaves(c, new)))
    BY DEF Bench!CreateFromDraft
  <1> HIDE DEF m
  <1>3. /\ Becomes(m, s) /\ s.generation = m.generation
        /\ s.draft = m.draft /\ s.result = m.result /\ s.judged = m.judged
    BY <1>1, RefreshedFacts
  <1> HIDE DEF s
  <1>4. s \in Bench!Sessions /\ Remembers(s)
    BY <1>3 DEF Becomes
  <1>5. CASE Bench!Leaves(c, s)
    BY <1>1, <1>2, <1>3, <1>5, ToolEnds DEF m
  <1>6. CASE Bench!Ready(s) /\ Bench!Leaves(c, new)
    <2>1. s.head < RevisionBudget
      BY <1>6 DEF Bench!Ready
    <2>2. Becomes(s, new) /\ new.generation = s.generation
      BY <1>4, <2>1, CommittedFacts
    <2>3. Bench!Leaves(c, new)
      BY <1>6
    <2> HIDE DEF new
    <2>4. Becomes(m, new) /\ new.generation = m.generation
      BY <1>3, <2>2, BecomesTwice
    <2>5. QED BY <1>1, <1>2, <2>3, <2>4, ToolEnds DEF m
  <1>7. QED BY <1>2, <1>5, <1>6

\* A verdict: none before, and then result, with or without the lock on editing.
LEMMA JudgedFacts ==
    ASSUME NEW s \in Bench!Sessions, Remembers(s), s.result = None, NEW result \in {"FAILED", "RUNNING"}
    PROVE  LET t == [s EXCEPT !.result = result, !.judged = TRUE] IN
           /\ Becomes(s, t) /\ t.generation = s.generation
           /\ t.result = result /\ t.draft = s.draft
  <1> DEFINE t == [s EXCEPT !.result = result, !.judged = TRUE]
  <1>1. None \notin Bench!Decided /\ None # "PASSED" /\ result \in Bench!Results
    BY Nobody DEF Bench!Results, Bench!Decided
  <1>2. /\ t \in Bench!Sessions /\ t.terminal = s.terminal
        /\ t.generation = s.generation /\ t.active = s.active /\ t.queue = s.queue
        /\ t.draft = s.draft /\ t.traces = s.traces /\ t.result = result
        /\ t.task = s.task /\ t.ticket = s.ticket
    BY <1>1 DEF Bench!Sessions
  <1>3. ~s.terminal /\ s.ticket = None
    BY <1>1 DEF Remembers
  <1> HIDE DEF t
  <1>4. QED BY <1>2, <1>3 DEF Becomes, DraftKept, Remembers, t

LEMMA EndedFacts ==
    ASSUME NEW s \in Bench!Sessions, Remembers(s), s.result \in Bench!Decided
    PROVE  Becomes(s, Bench!Ended(s)) /\ Bench!Ended(s).generation = s.generation
  <1> DEFINE t == Bench!Ended(s)
  <1>1. /\ t \in Bench!Sessions /\ t.terminal = TRUE
        /\ t.generation = s.generation /\ t.active = s.active /\ t.queue = s.queue
        /\ t.draft = None /\ t.traces = s.traces /\ t.result = s.result
        /\ t.judged = s.judged /\ t.task = s.task /\ t.ticket = s.ticket
    BY DEF Bench!Sessions, Bench!Ended
  <1> HIDE DEF t
  <1>2. QED BY <1>1 DEF Becomes, DraftKept, Remembers, t

LEMMA PassedFacts ==
    ASSUME NEW s \in Bench!Sessions, Remembers(s)
    PROVE  LET t == [Bench!Ended(s) EXCEPT !.result = "PASSED", !.judged = TRUE, !.ticket = s.generation] IN
           Becomes(s, t) /\ t.generation = s.generation
  <1> DEFINE t == [Bench!Ended(s) EXCEPT !.result = "PASSED", !.judged = TRUE, !.ticket = s.generation]
  <1>1. /\ t \in Bench!Sessions
        /\ t.generation = s.generation /\ t.active = s.active /\ t.queue = s.queue
        /\ t.draft = None /\ t.traces = s.traces /\ t.result = "PASSED"
        /\ t.task = s.task /\ t.ticket = s.generation
    BY DEF Bench!Sessions, Bench!Ended, Bench!Results, Bench!Decided
  <1> HIDE DEF t
  <1>2. QED BY <1>1 DEF Becomes, DraftKept, Remembers, Bench!Decided, t

LEMMA FailedFacts ==
    ASSUME NEW s \in Bench!Sessions, Remembers(s), s.result = None
    PROVE  LET t == [Bench!Ended(s) EXCEPT !.result = "FAILED", !.judged = TRUE] IN
           Becomes(s, t) /\ t.generation = s.generation
  <1> DEFINE t == [Bench!Ended(s) EXCEPT !.result = "FAILED", !.judged = TRUE]
  <1>1. None # "PASSED"
    BY Nobody DEF Bench!Results, Bench!Decided
  <1>2. /\ t \in Bench!Sessions
        /\ t.generation = s.generation /\ t.active = s.active /\ t.queue = s.queue
        /\ t.draft = None /\ t.traces = s.traces /\ t.result = "FAILED"
        /\ t.task = s.task /\ t.ticket = s.ticket
    BY DEF Bench!Sessions, Bench!Ended, Bench!Results, Bench!Decided
  <1>3. s.ticket = None
    BY <1>1 DEF Remembers
  <1> HIDE DEF t
  <1>4. QED BY <1>2, <1>3 DEF Becomes, DraftKept, Remembers, Bench!Decided, t

LEMMA VerifyKeeps ==
    ASSUME BenchInv, UNCHANGED setup, NEW c \in Tabs,
           Bench!VerifyRefused(c) \/ Bench!VerifyPassed(c) \/ Bench!VerifyFailed(c) \/ Bench!VerifyUnstored(c)
    PROVE  BenchInv' /\ DraftsKept
  <1> DEFINE m == Bench!Mine(c)
  <1>1. Bench!Runs(c, "verify_revision") /\ UNCHANGED <<disk, open>>
    BY DEF Bench!VerifyRefused, Bench!VerifyPassed, Bench!VerifyFailed, Bench!VerifyUnstored
  <1>2. Bench!Leased(c) /\ m \in Bench!Sessions /\ Remembers(m)
    BY <1>1, Running
  <1>3. SUFFICES \E s : Bench!Leaves(c, s) /\ Becomes(m, s) /\ s.generation = m.generation
    BY <1>1, <1>2, ToolEnds
  <1>4. CASE Bench!VerifyRefused(c)
    <2>1. Bench!Leaves(c, IF m.result \in Bench!Decided THEN Bench!Ended(m) ELSE m)
      BY <1>4 DEF Bench!VerifyRefused
    <2> HIDE DEF m
    <2>2. QED BY <1>2, <2>1, StaysAsItIs, EndedFacts
  <1>5. CASE Bench!VerifyPassed(c)
    <2>1. Bench!Leaves(c, [Bench!Ended(m) EXCEPT !.result = "PASSED", !.judged = TRUE, !.ticket = m.generation])
      BY <1>5 DEF Bench!VerifyPassed
    <2> HIDE DEF m
    <2>2. QED BY <1>2, <2>1, PassedFacts
  <1>6. CASE Bench!VerifyFailed(c)
    <2>1. m.result = None /\ Bench!Leaves(c, [Bench!Ended(m) EXCEPT !.result = "FAILED", !.judged = TRUE])
      BY <1>6 DEF Bench!VerifyFailed
    <2> HIDE DEF m
    <2>2. QED BY <1>2, <2>1, FailedFacts
  <1>7. CASE Bench!VerifyUnstored(c)
    <2>1. m.result = None /\ Bench!Leaves(c, [m EXCEPT !.result = "RUNNING", !.judged = TRUE])
      BY <1>7 DEF Bench!VerifyUnstored
    <2> HIDE DEF m
    <2>2. QED BY <1>2, <2>1, JudgedFacts
  <1>8. QED BY <1>4, <1>5, <1>6, <1>7

LEMMA BenchCancelKeeps ==
    ASSUME BenchInv, UNCHANGED setup, NEW c \in Tabs, Bench!Cancel(c)
    PROVE  BenchInv' /\ DraftsKept
  <1> DEFINE m == Bench!Mine(c)
  <1>1. Bench!Leased(c) /\ UNCHANGED <<disk, open>>
    BY DEF Bench!Cancel, Bench!Leased, Bench!NoRequest
  <1>2. m \in Bench!Sessions /\ Remembers(m)
    BY <1>1, HolderKnown
  <1>3. SUFFICES \E s : Bench!Drops(c, s) /\ Becomes(m, s) /\ s.generation = m.generation
    BY <1>1, <1>2, ToolEnds
  <1>4. CASE Bench!Drops(c, m)
    BY <1>2, <1>4, StaysAsItIs
  <1>5. CASE m.result = None /\ Bench!Drops(c, [m EXCEPT !.result = "FAILED", !.judged = TRUE])
    <2> HIDE DEF m
    <2>1. QED BY <1>2, <1>5, JudgedFacts
  <1>6. QED BY <1>4, <1>5 DEF Bench!Cancel

LEMMA ResetFailsKeeps ==
    ASSUME BenchInv, UNCHANGED setup, NEW c \in Tabs, Bench!ResetFails(c)
    PROVE  BenchInv' /\ DraftsKept
  <1>1. Bench!Leased(c) /\ Bench!Mine(c) \in Bench!Sessions /\ Remembers(Bench!Mine(c))
    BY Running DEF Bench!ResetFails
  <1>2. UNCHANGED <<disk, open>> /\ Bench!Drops(c, Bench!Mine(c))
    BY DEF Bench!ResetFails
  <1>3. QED BY <1>1, <1>2, StaysAsItIs, ToolEnds

-----------------------------------------------------------------------------
(* Reset *)

LEMMA FreshFacts ==
    ASSUME NEW s \in Bench!Sessions, s.generation < MaxGenerations
    PROVE  Becomes(s, Bench!Fresh(s)) /\ Bench!Fresh(s).generation = s.generation + 1
  <1> DEFINE t == Bench!Fresh(s)
  <1>1. s.generation + 1 \in Bench!Generations /\ s.generation + 1 # s.generation
    BY BoundsAssumption DEF Bench!Sessions, Bench!Generations
  <1>2. /\ t \in Bench!Sessions /\ t.generation = s.generation + 1
        /\ t.active = s.active /\ t.queue = s.queue
    <2>1. s.active \in Nat /\ s.queue \in Seq(Tabs)
      BY DEF Bench!Sessions
    <2>2. QED BY <1>1, <2>1, NewIsSession DEF Bench!Fresh, Bench!NewSession, Bench!Sessions
  <1>3. Remembers(t)
    BY DEF Bench!Fresh, Bench!NewSession, Remembers
  <1> HIDE DEF t
  <1>4. QED BY <1>1, <1>2, <1>3 DEF Becomes, DraftKept, t

LEMMA ResetKeeps ==
    ASSUME BenchInv, UNCHANGED setup, NEW c \in Tabs, Bench!Reset(c)
    PROVE  BenchInv' /\ DraftsKept
  <1>0. PICK i : i = request[c].id
    OBVIOUS
  <1> DEFINE m == Bench!Mine(c)
             old == Bench!Generation(i)
             new == <<i, m.generation + 1>>
  <1>1. Bench!Leased(c) /\ m \in Bench!Sessions
    BY Running DEF Bench!Reset
  <1>2. /\ m.generation < MaxGenerations /\ Bench!Leaves(c, Bench!Fresh(m))
        /\ open' = (open \ {old}) \cup {new}
        /\ disk' \in {(disk \ {old}) \cup {new}}
                \cup (IF "disk" \in Bench!Failures THEN {disk \cup {new}} ELSE {})
    BY <1>0 DEF Bench!Reset
  <1>3. i \in Listed /\ i \in Bench!Ids /\ m = sessions[i] /\ Listed \subseteq Bench!Ids
    BY <1>0, <1>1, HolderKnown DEF BenchInv, TableInv, Bench!Known
  <1>4. Becomes(m, Bench!Fresh(m)) /\ Bench!Fresh(m).generation = m.generation + 1
    BY <1>1, <1>2, FreshFacts
  <1> HIDE DEF m
  <1>5. /\ Bench!TypeOK /\ UNCHANGED listed
        /\ sessions' \in [Bench!Ids -> Bench!Sessions \cup {None}]
        /\ request' \in [Tabs -> Bench!Requests \cup {Bench!NoRequest}]
        /\ cookie' \in [Bench!Browsers' -> Bench!Ids \cup {None}]
        /\ Numbered' /\ TableInv' /\ LeasesIn(sessions)' /\ HeldInv' /\ MemoryIn(sessions)'
        /\ \A j \in Bench!Ids \ {i} : sessions'[j] = sessions[j]
        /\ sessions'[i].generation = m.generation + 1
        /\ DraftsKept
    BY <1>0, <1>1, <1>2, <1>4, EndsKeeps DEF m
  <1>6. old = <<i, m.generation>> /\ Listed' = Listed /\ Bench!Failures' = Bench!Failures
    BY <1>3, <1>5 DEF Bench!Generation, Listed, Bench!Failures
  <1>7. StoresInv
    BY DEF BenchInv
  <1>8. /\ Bench!Generation(i)' = new
        /\ \A j \in Listed \ {i} :
               Bench!Generation(j)' = Bench!Generation(j) /\ Bench!Generation(j) # old /\ new # old
    <2>1. Bench!Generation(i)' = new
      BY <1>5 DEF Bench!Generation
    <2>2. ASSUME NEW j \in Listed \ {i} PROVE Bench!Generation(j)' = Bench!Generation(j) /\ Bench!Generation(j) # old
      BY <1>3, <1>5, <1>6 DEF Bench!Generation
    <2>3. new # old
      BY <1>1, <1>6 DEF Bench!Sessions, Bench!Generations
    <2>4. QED BY <2>1, <2>2, <2>3
  <1> HIDE DEF old, new
  <1>9. open' = {Bench!Generation(j) : j \in Listed}'
    <2>1. open = {Bench!Generation(j) : j \in Listed} /\ old \in open /\ old = Bench!Generation(i)
      BY <1>3, <1>7 DEF StoresInv, old
    <2>2. open \ {old} = {Bench!Generation(j) : j \in Listed \ {i}}
      BY <1>8, <2>1
    <2>3. {Bench!Generation(j) : j \in Listed}' = {Bench!Generation(j) : j \in Listed \ {i}} \cup {new}
      BY <1>3, <1>6, <1>8
    <2>4. QED BY <1>2, <2>2, <2>3
  <1>10. open' \subseteq disk' /\ ("disk" \notin Bench!Failures' => disk' = open')
    BY <1>2, <1>6, <1>7 DEF StoresInv
  <1>11. StoresInv'
    BY <1>9, <1>10 DEF StoresInv
  <1>12. Bench!TypeOK'
    <2>1. new \in Bench!Ids \X Bench!Generations
      BY <1>1, <1>2, <1>3, BoundsAssumption DEF new, Bench!Sessions, Bench!Generations
    <2>2. disk' \cup open' \subseteq Bench!Ids \X Bench!Generations
      BY <1>2, <1>5, <2>1 DEF Bench!TypeOK
    <2>3. QED BY <1>5, <2>2 DEF Bench!TypeOK
  <1>13. QED BY <1>5, <1>11, <1>12 DEF BenchInv

-----------------------------------------------------------------------------
(* Leases begin *)

LEMMA BeginKeeps ==
    ASSUME BenchInv, UNCHANGED setup, NEW c \in Tabs, Bench!Begin(c)
    PROVE  BenchInv' /\ DraftsKept
  <1>1. Bench!Leased(c) /\ request[c] \in Bench!Requests
    BY HolderKnown DEF Bench!Begin, Bench!Leased, Bench!NoRequest
  <1>2. request' = [request EXCEPT ![c].at = "running"] /\ UNCHANGED <<sessions, listed, cookie, disk, open>>
    BY DEF Bench!Begin
  <1> DEFINE r == [request[c] EXCEPT !.at = "running"]
  <1>3. r \in Bench!Requests /\ r.id = request[c].id
    BY <1>1 DEF Bench!Requests
  <1>4. Bench!TypeOK
    BY DEF BenchInv
  <1>5. request' = [request EXCEPT ![c] = r] /\ r # Bench!NoRequest
    BY <1>2, <1>3 DEF Bench!Requests, Bench!NoRequest
  <1> HIDE DEF r
  <1>6. /\ request' \in [Tabs -> Bench!Requests \cup {Bench!NoRequest}]
        /\ \A d \in Tabs : Bench!Leased(d)' = Bench!Leased(d) /\ request'[d].id = request[d].id
    <2>1. request'[c] = r /\ \A d \in Tabs \ {c} : request'[d] = request[d]
      BY <1>4, <1>5 DEF Bench!TypeOK
    <2>2. QED BY <1>1, <1>3, <1>4, <1>5, <2>1 DEF Bench!TypeOK, Bench!Leased
  <1>7. \A i : Bench!Holders(i)' = Bench!Holders(i)
    BY <1>6 DEF Bench!Holders
  <1>8. Bench!Browsers' = Bench!Browsers /\ Bench!Known' = Bench!Known /\ Listed' = Listed
    BY <1>2 DEF Bench!Browsers, Bench!Known, Listed
  <1>9. Bench!TypeOK'
    BY <1>2, <1>4, <1>6, <1>8 DEF Bench!TypeOK
  <1>10. Numbered' /\ TableInv'
    BY <1>2, <1>8 DEF BenchInv, Numbered, TableInv
  <1>11. LeasesIn(sessions)' /\ MemoryIn(sessions)'
    BY <1>2, <1>7 DEF BenchInv, LeasesIn, MemoryIn
  <1>12. HeldInv'
    BY <1>6, <1>8 DEF BenchInv, HeldInv
  <1>13. StoresInv'
    BY <1>2, <1>8, StoresStay DEF BenchInv
  <1>14. DraftsKept
    BY <1>2 DEF DraftsKept, DraftKept
  <1>15. QED BY <1>9, <1>10, <1>11, <1>12, <1>13, <1>14 DEF BenchInv

LEMMA LeaseKnownKeeps ==
    ASSUME BenchInv, UNCHANGED setup, NEW c \in Tabs, NEW kind \in Bench!Kinds, Bench!LeaseKnown(c, kind)
    PROVE  BenchInv' /\ DraftsKept
  <1> DEFINE i == Bench!Cookie(c)
             order == Append(RemoveFirst(listed, i), i)
  <1>1. /\ request[c] = Bench!NoRequest /\ i \in Listed
        /\ Bench!Enters(c, i, kind, sessions, order) /\ UNCHANGED <<cookie, disk, open>>
    BY BenchLibrary DEF Bench!LeaseKnown, Listed
  <1> HIDE DEF i
  <1>2. /\ Bench!TypeOK /\ TableInv /\ LeasesIn(sessions) /\ MemoryIn(sessions) /\ HeldInv
        /\ sessions \in [Bench!Ids -> Bench!Sessions \cup {None}] /\ listed \in Seq(Bench!Ids)
    BY DEF BenchInv, Bench!TypeOK
  <1>3. i \in Bench!Ids /\ sessions[i] # None
    BY <1>1, <1>2 DEF TableInv, Bench!Known
  <1>4. listed' = order
    BY <1>1 DEF Bench!Enters
  <1>5. /\ sessions' \in [Bench!Ids -> Bench!Sessions \cup {None}]
        /\ request' \in [Tabs -> Bench!Requests \cup {Bench!NoRequest}]
        /\ Bench!Known' = {j \in Bench!Ids : sessions[j] # None}
        /\ LeasesIn(sessions)' /\ MemoryIn(sessions)'
        /\ \A j \in Bench!Ids : sessions[j] # None =>
               sessions'[j].generation = sessions[j].generation /\ sessions'[j].draft = sessions[j].draft
        /\ \A d \in Tabs : Bench!Leased(d)' => request'[d].id = i \/ (Bench!Leased(d) /\ request'[d] = request[d])
    BY <1>1, <1>2, <1>3, EntersFacts
  <1>6. /\ order \in Seq(Bench!Ids) /\ Queue(order, Range(order), {})
        /\ Range(order) = Listed /\ Len(order) = Len(listed)
    <2> DEFINE t == RemoveFirst(listed, i)
    <2>1. /\ t \in Seq(Bench!Ids) /\ Queue(t, Range(t), {})
          /\ Range(t) = Listed \ {i} /\ Len(t) = Len(listed) - 1
      BY <1>1, <1>2, TableWithout DEF TableInv, Listed
    <2> HIDE DEF t
    <2>2. PICK q : q = Append(t, i)
      OBVIOUS
    <2>3. q = order /\ Len(listed) \in Nat
      BY <1>2, <2>2 DEF t
    <2>4. /\ q \in Seq(Bench!Ids) /\ Queue(q, Range(q), {})
          /\ Range(q) = Range(t) \cup {i} /\ Len(q) = Len(t) + 1
      BY <1>3, <2>1, <2>2, TableWith
    <2> HIDE DEF order
    <2>5. Range(q) = Listed /\ Len(q) = Len(listed)
      BY <1>1, <2>1, <2>3, <2>4
    <2>6. QED BY <2>3, <2>4, <2>5
  <1> HIDE DEF order
  <1>7. Bench!Known' = Bench!Known /\ Listed' = Listed /\ Bench!Browsers' = Bench!Browsers
    BY <1>4, <1>5, <1>6 DEF Bench!Known, Listed, Bench!Browsers
  <1>8. Bench!TypeOK'
    BY <1>1, <1>2, <1>4, <1>5, <1>6, <1>7 DEF Bench!TypeOK
  <1>9. Numbered' /\ TableInv'
    <2>1. Queue(listed, Listed, {})' /\ Len(listed)' <= MaximumSessions
      BY <1>2, <1>4, <1>6 DEF TableInv, Listed
    <2>2. QED BY <1>7, <2>1 DEF BenchInv, Numbered, TableInv
  <1>10. HeldInv'
    BY <1>1, <1>2, <1>5, <1>7 DEF HeldInv
  <1>11. StoresInv'
    <2>1. \A j \in Listed : sessions'[j].generation = sessions[j].generation
      BY <1>2, <1>5 DEF TableInv, Bench!Known
    <2>2. QED BY <1>1, <1>7, <2>1, StoresStay DEF BenchInv
  <1>12. DraftsKept
    BY <1>5 DEF DraftsKept, DraftKept, Bench!Known
  <1>13. QED BY <1>5, <1>8, <1>9, <1>10, <1>11, <1>12 DEF BenchInv

\* kept is a table with room, gone the generations that went for it, rest the sessions that are left.
Room(kept, gone, rest) ==
    /\ kept \in Seq(Bench!Ids) /\ Queue(kept, Range(kept), {})
    /\ Range(kept) \subseteq Listed /\ Len(kept) < MaximumSessions
    /\ \A c \in Tabs : Bench!Leased(c) => request[c].id \in Range(kept)
    /\ gone = {Bench!Generation(j) : j \in Listed \ Range(kept)}
    /\ rest \in [Bench!Ids -> Bench!Sessions \cup {None}] /\ {j \in Bench!Ids : rest[j] # None} = Bench!Known
    /\ LeasesIn(rest) /\ MemoryIn(rest)
    /\ \A j \in Bench!Known :
           rest[j].generation = sessions[j].generation /\ rest[j].draft \in {sessions[j].draft, None}

LEMMA RoomThere ==
    ASSUME BenchInv, Len(listed) < MaximumSessions
    PROVE  Room(listed, {}, sessions)
  BY DEF BenchInv, Bench!TypeOK, TableInv, HeldInv, Listed, Bench!Known, Room

LEMMA RoomMade ==
    ASSUME BenchInv, \E j \in Listed : Bench!Evictable(j)
    PROVE  Room(RemoveFirst(listed, Bench!Evicted), Bench!Gone(Bench!Evicted), Bench!Forgotten)
  <1>1. PICK e, t, s : e = Bench!Evicted /\ t = RemoveFirst(listed, Bench!Evicted) /\ s = Bench!Forgotten
    OBVIOUS
  <1>2. /\ e \in Listed /\ e \in Bench!Known
        /\ \A c \in Tabs : Bench!Leased(c) => request[c].id # e
        /\ s \in [Bench!Ids -> Bench!Sessions \cup {None}]
        /\ {j \in Bench!Ids : s[j] # None} = Bench!Known
        /\ LeasesIn(s) /\ MemoryIn(s)
        /\ \A j \in Bench!Known : /\ s[j].generation = sessions[j].generation
                                  /\ s[j].draft \in {sessions[j].draft, None}
    BY <1>1, EvictionFacts
  <1>3. /\ t \in Seq(Bench!Ids) /\ Queue(t, Range(t), {})
        /\ Range(t) = Listed \ {e} /\ Len(t) = Len(listed) - 1
    BY <1>1, <1>2, TableWithout DEF BenchInv, Bench!TypeOK, TableInv, Listed
  <1>4. Len(t) < MaximumSessions
    <2>1. Len(listed) \in Nat /\ Len(listed) <= MaximumSessions
      BY DEF BenchInv, Bench!TypeOK, TableInv
    <2>2. QED BY <1>3, <2>1, BoundsAssumption
  <1>5. Bench!Gone(e) = {Bench!Generation(j) : j \in Listed \ Range(t)}
    BY <1>2, <1>3 DEF Bench!Gone
  <1>6. \A c \in Tabs : Bench!Leased(c) => request[c].id \in Range(t)
    BY <1>2, <1>3 DEF BenchInv, HeldInv
  <1>7. QED BY <1>1, <1>2, <1>3, <1>4, <1>5, <1>6 DEF Room

\* The stores without those that are gone.
LEMMA RoomStores ==
    ASSUME StoresInv, NEW kept, NEW gone, NEW rest, Room(kept, gone, rest)
    PROVE  open \ gone = {Bench!Generation(j) : j \in Range(kept)}
  <1>1. open = {Bench!Generation(j) : j \in Listed} /\ gone = {Bench!Generation(j) : j \in Listed \ Range(kept)}
        /\ Range(kept) \subseteq Listed
    BY DEF StoresInv, Room
  <1>2. \A j, k : Bench!Generation(j) = Bench!Generation(k) => j = k
    BY DEF Bench!Generation
  <1>3. QED BY <1>1, <1>2

LEMMA LeaseFailsKeeps ==
    ASSUME BenchInv, UNCHANGED setup, NEW c \in Tabs, Bench!LeaseFails(c)
    PROVE  BenchInv' /\ DraftsKept
  <1>1. PICK kept, gone, rest :
            /\ Room(kept, gone, rest) /\ "disk" \in Bench!Failures
            /\ listed' = kept /\ sessions' = rest /\ open' = open \ gone
            /\ disk' \in {disk, disk \ gone} /\ UNCHANGED <<request, cookie>>
    BY RoomMade, BenchLibrary DEF Bench!LeaseFails, Listed
  <1>2. Bench!TypeOK /\ Numbered /\ TableInv /\ StoresInv
    BY DEF BenchInv
  <1>3. Bench!Known' = Bench!Known /\ Listed' = Range(kept)
        /\ Bench!Browsers' = Bench!Browsers /\ Bench!Failures' = Bench!Failures
    BY <1>1 DEF Room, Bench!Known, Listed, Bench!Browsers, Bench!Failures
  <1>4. \A i : Bench!Holders(i)' = Bench!Holders(i)
    BY <1>1 DEF Bench!Holders, Bench!Leased
  <1>5. Bench!TypeOK'
    BY <1>1, <1>2, <1>3 DEF Room, Bench!TypeOK
  <1>6. Numbered' /\ TableInv'
    <2>1. Queue(kept, Range(kept), {}) /\ Range(kept) \subseteq Bench!Known /\ Len(kept) <= MaximumSessions
      <3>1. Len(kept) \in Nat /\ Len(kept) < MaximumSessions
        BY <1>1 DEF Room
      <3>2. QED BY <1>1, <1>2, <3>1, BoundsAssumption DEF Room, TableInv
    <2>2. QED BY <1>1, <1>2, <1>3, <2>1 DEF Numbered, TableInv
  <1>7. LeasesIn(sessions)' /\ MemoryIn(sessions)'
    BY <1>1, <1>4 DEF Room, LeasesIn, MemoryIn
  <1>8. HeldInv'
    BY <1>1, <1>3 DEF Room, HeldInv, Bench!Leased
  <1>9. StoresInv'
    <2>1. \A j \in Range(kept) : Bench!Generation(j)' = Bench!Generation(j)
      BY <1>1, <1>2 DEF Room, TableInv, Bench!Generation
    <2>2. open' = {Bench!Generation(j) : j \in Range(kept)}
      BY <1>1, <1>2, RoomStores
    <2>3. {Bench!Generation(j) : j \in Listed}' = {Bench!Generation(j) : j \in Range(kept)}
      BY <1>3, <2>1
    <2>4. open' \subseteq disk'
      BY <1>1, <1>2 DEF StoresInv
    <2>5. QED BY <1>1, <1>3, <2>2, <2>3, <2>4 DEF StoresInv
  <1>10. DraftsKept
    BY <1>1 DEF Room, DraftsKept, DraftKept
  <1>11. QED BY <1>5, <1>6, <1>7, <1>8, <1>9, <1>10 DEF BenchInv

\* The next id is one that no session has had.
LEMMA NextIsFresh ==
    ASSUME Numbered
    PROVE  Bench!NextId \notin Bench!Known /\ \E n \in Nat : Bench!Known \cup {Bench!NextId} = 1 .. n
  <1>1. PICK n \in Nat : Bench!Known = 1 .. n
    BY DEF Numbered
  <1>2. Cardinality(1 .. n) = n
    BY <1>1, FS_Interval
  <1>3. Bench!NextId = n + 1
    BY <1>1, <1>2, BenchLibrary DEF Bench!NextId, Bench!Known
  <1>4. Bench!Known \cup {n + 1} = 1 .. n + 1 /\ n + 1 \in Nat
    BY <1>1
  <1>5. QED BY <1>1, <1>3, <1>4

\* A session is not created beyond the bound.
LEMMA NextIsId ==
    ASSUME BenchInv, Bench!NextId \in 1 .. setup.created
    PROVE  Bench!NextId \in Bench!Ids
  <1>1. setup.created \in 0 .. MaxCreated /\ MaxCreated \in Nat
    BY SetupsAssumption, BoundsAssumption DEF BenchInv, Bench!TypeOK
  <1>2. QED BY <1>1 DEF Bench!Ids

LEMMA LeaseNewKeeps ==
    ASSUME BenchInv, UNCHANGED setup, NEW c \in Tabs, NEW kind \in Bench!Kinds, Bench!LeaseNew(c, kind)
    PROVE  BenchInv' /\ DraftsKept
  <1>1. PICK i, kept, gone, rest :
            /\ Room(kept, gone, rest) /\ i = Bench!NextId /\ i \in Bench!Ids
            /\ Bench!Enters(c, i, kind, [rest EXCEPT ![i] = Bench!NewSession], Append(kept, i))
            /\ disk' = (disk \ gone) \cup {<<i, 1>>}
            /\ open' = (open \ gone) \cup {<<i, 1>>}
    <2>1. CASE Len(listed) >= MaximumSessions
      BY <2>1, RoomMade, BenchLibrary, NextIsId DEF Bench!LeaseNew, Listed
    <2>2. CASE ~(Len(listed) >= MaximumSessions)
      <3>1. Len(listed) < MaximumSessions
        BY <2>2, BoundsAssumption DEF BenchInv, Bench!TypeOK
      <3>2. QED BY <2>2, <3>1, RoomThere, NextIsId DEF Bench!LeaseNew
    <2>3. QED BY <2>1, <2>2
  <1>2. Bench!TypeOK /\ Numbered /\ TableInv /\ StoresInv /\ HeldInv
    BY DEF BenchInv
  <1>3. request[c] = Bench!NoRequest /\ UNCHANGED cookie
    BY DEF Bench!LeaseNew
  <1>4. i \notin Bench!Known /\ i \notin Listed /\ \E n \in Nat : Bench!Known \cup {i} = 1 .. n
    BY <1>1, <1>2, NextIsFresh DEF TableInv
  <1>5. Bench!Holders(i) = {}
    BY <1>2, <1>4 DEF HeldInv, Bench!Holders
  <1>6. PICK before : before = [rest EXCEPT ![i] = Bench!NewSession]
    OBVIOUS
  <1>7. Bench!NewSession # None
    BY NewIsSession, Nobody
  <1>8. /\ before \in [Bench!Ids -> Bench!Sessions \cup {None}]
        /\ before[i] = Bench!NewSession /\ \A j \in Bench!Ids \ {i} : before[j] = rest[j]
    BY <1>1, <1>6, NewIsSession DEF Room
  <1>9. {j \in Bench!Ids : before[j] # None} = Bench!Known \cup {i}
    BY <1>1, <1>7, <1>8 DEF Room, Bench!Known
  <1>10. LeasesIn(before)
    <2>1. Cardinality(Bench!Holders(i)) = 0 /\ Queue(<<>>, Bench!Holders(i), {})
      BY <1>5, FS_EmptySet, QueueEmpty
    <2>2. Bench!NewSession.active = Cardinality(Bench!Holders(i))
          /\ Queue(Bench!NewSession.queue, Bench!Holders(i), {})
      BY <2>1, NewIsSession
    <2>3. QED BY <1>1, <1>8, <2>2 DEF Room, LeasesIn
  <1>11. MemoryIn(before)
    BY <1>1, <1>8, NewIsSession DEF Room, MemoryIn
  <1>12. /\ sessions' \in [Bench!Ids -> Bench!Sessions \cup {None}]
         /\ request' \in [Tabs -> Bench!Requests \cup {Bench!NoRequest}]
         /\ Bench!Known' = {j \in Bench!Ids : before[j] # None}
         /\ LeasesIn(sessions)' /\ MemoryIn(sessions)'
         /\ \A j \in Bench!Ids : before[j] # None =>
                sessions'[j].generation = before[j].generation /\ sessions'[j].draft = before[j].draft
         /\ \A d \in Tabs : Bench!Leased(d)' => request'[d].id = i \/ (Bench!Leased(d) /\ request'[d] = request[d])
    <2>1. Bench!Enters(c, i, kind, before, Append(kept, i)) /\ i \in Bench!Ids /\ before[i] # None
      BY <1>1, <1>6, <1>7, <1>8
    <2>2. QED BY <1>2, <1>3, <1>8, <1>10, <1>11, <2>1, EntersFacts
  <1>13. /\ listed' \in Seq(Bench!Ids) /\ Queue(listed', Range(listed'), {})
         /\ Range(listed') = Range(kept) \cup {i} /\ Len(listed') <= MaximumSessions
    <2>1. i \notin Range(kept) /\ kept \in Seq(Bench!Ids) /\ Queue(kept, Range(kept), {})
          /\ Len(kept) < MaximumSessions /\ Len(kept) \in Nat
      BY <1>1, <1>4 DEF Room
    <2>2. listed' = Append(kept, i)
      BY <1>1 DEF Bench!Enters
    <2>3. PICK q : q = Append(kept, i)
      OBVIOUS
    <2>4. /\ q \in Seq(Bench!Ids) /\ Queue(q, Range(q), {})
          /\ Range(q) = Range(kept) \cup {i} /\ Len(q) = Len(kept) + 1
      BY <1>1, <2>1, <2>3, TableWith
    <2>5. Len(q) <= MaximumSessions /\ q = listed'
      BY <2>1, <2>2, <2>3, <2>4, BoundsAssumption
    <2>6. QED BY <2>4, <2>5
  <1>14. /\ Bench!Known' = Bench!Known \cup {i} /\ Listed' = Range(kept) \cup {i} /\ Range(kept) \subseteq Bench!Known
         /\ Bench!Browsers' = Bench!Browsers /\ Bench!Failures' = Bench!Failures
    <2>1. Bench!Known' = Bench!Known \cup {i}
      BY <1>9, <1>12
    <2>2. Listed' = Range(kept) \cup {i}
      BY <1>13 DEF Listed
    <2>3. Range(kept) \subseteq Bench!Known
      BY <1>1, <1>2 DEF Room, TableInv
    <2>4. QED BY <2>1, <2>2, <2>3 DEF Bench!Browsers, Bench!Failures
  <1>15. Bench!TypeOK'
    <2>1. <<i, 1>> \in Bench!Ids \X Bench!Generations
      BY <1>1, BoundsAssumption DEF Bench!Generations
    <2>2. disk' \cup open' \subseteq Bench!Ids \X Bench!Generations
      BY <1>1, <1>2, <2>1 DEF Bench!TypeOK
    <2>3. QED BY <1>2, <1>3, <1>12, <1>13, <1>14, <2>2 DEF Bench!TypeOK
  <1>16. Numbered'
    BY <1>4, <1>14 DEF Numbered
  <1>17. TableInv'
    BY <1>13, <1>14 DEF TableInv, Listed
  <1>18. HeldInv'
    BY <1>1, <1>12, <1>14 DEF Room, HeldInv
  <1>19. StoresInv'
    <2>1. \A j \in Range(kept) : Bench!Generation(j)' = Bench!Generation(j)
      <3>1. \A j \in Range(kept) : j \in Bench!Known /\ j \in Bench!Ids /\ j # i
        BY <1>4, <1>14 DEF Bench!Known
      <3>2. \A j \in Range(kept) : before[j] = rest[j] /\ before[j] # None
        BY <1>8, <1>9, <3>1
      <3>3. QED BY <1>1, <1>12, <3>1, <3>2 DEF Room, Bench!Generation
    <2>2. Bench!Generation(i)' = <<i, 1>>
      BY <1>1, <1>7, <1>8, <1>12, NewIsSession DEF Bench!Generation
    <2>3. open \ gone = {Bench!Generation(j) : j \in Range(kept)}
      BY <1>1, <1>2, RoomStores
    <2>4. {Bench!Generation(j) : j \in Listed}' = {Bench!Generation(j) : j \in Range(kept)} \cup {<<i, 1>>}
      BY <1>14, <2>1, <2>2
    <2>5. open' = {Bench!Generation(j) : j \in Listed}'
      BY <1>1, <2>3, <2>4
    <2>6. open' \subseteq disk' /\ ("disk" \notin Bench!Failures' => disk' = open')
      BY <1>1, <1>2, <1>14 DEF StoresInv
    <2>7. QED BY <2>5, <2>6 DEF StoresInv
  <1>20. DraftsKept
    <2>1. \A j \in Bench!Known : j \in Bench!Ids /\ j # i /\ before[j] = rest[j] /\ before[j] # None
      BY <1>4, <1>8, <1>9 DEF Bench!Known
    <2>2. \A j \in Bench!Known : sessions'[j].draft \in {sessions[j].draft, None}
      BY <1>1, <1>12, <2>1 DEF Room
    <2>3. QED BY <2>2 DEF DraftsKept, DraftKept
  <1>21. QED BY <1>12, <1>15, <1>16, <1>17, <1>18, <1>19, <1>20 DEF BenchInv

-----------------------------------------------------------------------------
(* The workbench's theorems *)

LEMMA BenchInit == Bench!Init => BenchInv
  <1> SUFFICES ASSUME Bench!Init PROVE BenchInv
    OBVIOUS
  <1>1. Bench!Known = {} /\ Listed = {} /\ listed = <<>> /\ \A c \in Tabs : ~Bench!Leased(c)
    BY DEF Bench!Init, Bench!Known, Listed, Range, Bench!Leased
  <1>2. Bench!TypeOK
    BY EmptySeq DEF Bench!Init, Bench!TypeOK
  <1>3. Numbered
    <2>1. Bench!Known = 1 .. 0
      BY <1>1
    <2>2. QED BY <2>1 DEF Numbered
  <1>4. TableInv
    BY <1>1, QueueEmpty, BoundsAssumption DEF TableInv
  <1>5. LeasesIn(sessions) /\ MemoryIn(sessions)
    BY DEF Bench!Init, LeasesIn, MemoryIn
  <1>6. HeldInv
    BY <1>1 DEF HeldInv
  <1>7. StoresInv
    BY <1>1 DEF Bench!Init, StoresInv
  <1>8. QED BY <1>2, <1>3, <1>4, <1>5, <1>6, <1>7 DEF BenchInv

LEMMA BenchStutters ==
    ASSUME BenchInv, UNCHANGED Bench!vars
    PROVE  BenchInv' /\ DraftsKept
  <1>1. UNCHANGED <<setup, sessions, listed, request, cookie, disk, open>>
    BY DEF Bench!vars
  <1>2. /\ Bench!Known' = Bench!Known /\ Listed' = Listed /\ Bench!Browsers' = Bench!Browsers
        /\ \A i : Bench!Holders(i)' = Bench!Holders(i)
    BY <1>1 DEF Bench!Known, Listed, Bench!Browsers, Bench!Holders, Bench!Leased
  <1>3. Bench!TypeOK'
    BY <1>1, <1>2 DEF BenchInv, Bench!TypeOK
  <1>4. Numbered' /\ TableInv'
    BY <1>1, <1>2 DEF BenchInv, Numbered, TableInv
  <1>5. LeasesIn(sessions)' /\ MemoryIn(sessions)'
    BY <1>1, <1>2 DEF BenchInv, LeasesIn, MemoryIn
  <1>6. HeldInv'
    BY <1>1, <1>2 DEF BenchInv, HeldInv, Bench!Leased
  <1>7. StoresInv'
    BY <1>1, <1>2, StoresStay DEF BenchInv
  <1>8. DraftsKept
    BY <1>1 DEF DraftsKept, DraftKept
  <1>9. QED BY <1>3, <1>4, <1>5, <1>6, <1>7, <1>8 DEF BenchInv

LEMMA BenchNext == BenchInv /\ [Bench!Next]_(Bench!vars) => BenchInv' /\ DraftsKept
  <1> SUFFICES ASSUME BenchInv, [Bench!Next]_(Bench!vars) PROVE BenchInv' /\ DraftsKept
    OBVIOUS
  <1>1. CASE UNCHANGED Bench!vars
    BY <1>1, BenchStutters
  <1>2. CASE Bench!Next
    <2>1. UNCHANGED setup
      BY <1>2 DEF Bench!Next
    <2>2. PICK c \in Tabs :
              \/ \E kind \in Bench!Kinds : Bench!LeaseKnown(c, kind) \/ Bench!LeaseNew(c, kind)
              \/ Bench!LeaseFails(c) \/ Bench!Serve(c) \/ Bench!Cancel(c)
      BY <1>2 DEF Bench!Next
    <2>3. CASE \E kind \in Bench!Kinds : Bench!LeaseKnown(c, kind) \/ Bench!LeaseNew(c, kind)
      BY <2>1, <2>3, LeaseKnownKeeps, LeaseNewKeeps
    <2>4. CASE Bench!LeaseFails(c) \/ Bench!Cancel(c)
      BY <2>1, <2>4, LeaseFailsKeeps, BenchCancelKeeps
    <2>5. CASE Bench!Serve(c)
      <3>1. \/ Bench!Begin(c) \/ Bench!Context(c) \/ Bench!Read(c)
            \/ Bench!RunTask(c) \/ Bench!RunExperiment(c) \/ Bench!SetDraft(c) \/ Bench!CreateFromDraft(c)
            \/ Bench!VerifyRefused(c) \/ Bench!VerifyPassed(c) \/ Bench!VerifyFailed(c) \/ Bench!VerifyUnstored(c)
            \/ Bench!Reset(c) \/ Bench!ResetFails(c)
        BY <2>5 DEF Bench!Serve
      <3>2. CASE Bench!Begin(c) \/ Bench!Context(c) \/ Bench!Read(c)
        BY <2>1, <3>2, BeginKeeps, ContextKeeps
      <3>3. CASE Bench!RunTask(c) \/ Bench!RunExperiment(c)
        BY <2>1, <3>3, RunTaskKeeps
      <3>4. CASE Bench!SetDraft(c) \/ Bench!CreateFromDraft(c)
        BY <2>1, <3>4, SetDraftKeeps, CreateKeeps
      <3>5. CASE Bench!VerifyRefused(c) \/ Bench!VerifyPassed(c) \/ Bench!VerifyFailed(c) \/ Bench!VerifyUnstored(c)
        BY <2>1, <3>5, VerifyKeeps
      <3>6. CASE Bench!Reset(c) \/ Bench!ResetFails(c)
        BY <2>1, <3>6, ResetKeeps, ResetFailsKeeps
      <3>7. QED BY <3>1, <3>2, <3>3, <3>4, <3>5, <3>6
    <2>6. QED BY <2>2, <2>3, <2>4, <2>5
  <1>3. QED BY <1>1, <1>2

\* The sessions, their leases, stores and directories always fit together as BenchInv says.
THEOREM BenchInvariant == Bench!Spec => []BenchInv
  <1>1. BenchInv /\ [Bench!Next]_(Bench!vars) => BenchInv'
    BY BenchNext
  <1>2. QED BY BenchInit, <1>1, PTL DEF Bench!Spec

\* Requests hold on to live sessions, whoever is evicted, reset or cancelled (lease, _evict_one,
\* reset), for any clients, cookies, limits and faults.
THEOREM SessionsSoundAlways == Bench!Spec => []SessionsSound
  <1>1. BenchInv => SessionsSound
    <2> SUFFICES ASSUME BenchInv PROVE SessionsSound
      OBVIOUS
    <2>1. Bench!TypeOK /\ TableInv /\ LeasesIn(sessions) /\ HeldInv /\ StoresInv
      BY DEF BenchInv
    <2>2. Bench!ListedOnce
      <3>1. DOMAIN listed = 1 .. Len(listed)
        BY <2>1 DEF Bench!TypeOK
      <3>2. IsInjective(listed)
        BY <2>1, <3>1 DEF TableInv, Queue, IsInjective
      <3>3. QED BY <2>1, <3>2, BenchLibrary DEF TableInv, Listed, Bench!ListedOnce
    <2>3. Bench!LeasesCounted
      BY <2>1, QueueRange, BenchLibrary DEF LeasesIn, Bench!Known, Bench!LeasesCounted
    <2>4. Bench!NoDeadSession
      BY <2>1, BenchLibrary DEF HeldInv, StoresInv, Listed, Bench!NoDeadSession
    <2>5. Bench!NothingLeaks
      BY <2>1, BenchLibrary DEF TableInv, StoresInv, Listed, Bench!NothingLeaks
    <2>6. QED BY <2>1, <2>2, <2>3, <2>4, <2>5 DEF SessionsSound, Bench!SessionsSound
  <1>2. QED BY BenchInvariant, <1>1, PTL

\* What a session remembers is true of its present case (_call_tool, reset).
THEOREM MemoryTrueAlways == Bench!Spec => []MemoryTrue
  <1>1. BenchInv => MemoryTrue
    BY DEF BenchInv, MemoryIn, Remembers,
           Bench!Known, MemoryTrue, Bench!MemoryTrue, Bench!OneGeneration, Bench!LockIsTrue
  <1>2. QED BY BenchInvariant, <1>1, PTL

\* No draft is accepted after the hidden suite has its verdict (set_draft_patch), until Reset.
THEOREM NoDraftAfterSuiteAlways == Bench!Spec => NoDraftAfterSuite
  <1>1. BenchInv /\ [Bench!Next]_(Bench!vars) =>
            [\A i \in Bench!Known : LET s == sessions[i]
                                  t == sessions'[i] IN
                s.judged /\ s.result \in Bench!Decided /\ t.generation = s.generation
                    => t.draft \in {s.draft, None}]_(Bench!vars)
    BY BenchNext DEF DraftsKept, DraftKept
  <1>2. QED BY BenchInvariant, <1>1, PTL DEF Bench!Spec, NoDraftAfterSuite, Bench!NoDraftAfterSuite
=============================================================================
