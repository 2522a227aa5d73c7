-------------------------- MODULE StudioServerProofs --------------------------
(***************************************************************************)
(* Proofs about StudioSessions, for any finite set of requests, any         *)
(* browsers and session objects, every limit and every way a server is      *)
(* started; and, in the second part, about DownloadAdmission, for any       *)
(* finite set of downloads, any loops and every capacity.                   *)
(***************************************************************************)
EXTENDS StudioServer, FiniteSetTheorems, SequenceTheorems, WellFoundedInduction, TLAPS

-----------------------------------------------------------------------------
(* Queues that a waiter may leave from any place *)

\* The queue without its k-th member.
LEMMA RemoveAtFacts ==
    ASSUME NEW S, NEW q \in Seq(S), NEW k \in 1 .. Len(q)
    PROVE  /\ RemoveAt(q, k) \in Seq(S)
           /\ Len(RemoveAt(q, k)) = Len(q) - 1
           /\ \A i \in 1 .. Len(q) - 1 :
                  RemoveAt(q, k)[i] = IF i < k THEN q[i] ELSE q[i + 1]
  <1> DEFINE u == SubSeq(q, 1, k - 1)
             v == SubSeq(q, k + 1, Len(q))
  <1>1. /\ u \in Seq(S) /\ Len(u) = k - 1
        /\ \A i \in 1 .. k - 1 : u[i] = q[i]
    BY SubSeqProperties
  <1>2. /\ v \in Seq(S) /\ Len(v) = Len(q) - k
        /\ \A i \in 1 .. Len(q) - k : v[i] = q[i + k]
    BY SubSeqProperties
  <1>3. RemoveAt(q, k) = u \o v
    BY DEF RemoveAt
  <1> HIDE DEF u, v
  <1>4. /\ u \o v \in Seq(S) /\ Len(u \o v) = Len(u) + Len(v)
        /\ \A i \in 1 .. Len(u) + Len(v) :
               (u \o v)[i] = IF i <= Len(u) THEN u[i] ELSE v[i - Len(u)]
    BY <1>1, <1>2, ConcatProperties
  <1>5. QED
    BY <1>1, <1>2, <1>3, <1>4

\* deque.remove of a member drops the member at some position that holds it.
LEMMA RemoveFirstIsRemoveAt ==
    ASSUME NEW S, NEW q \in Seq(S), NEW e, \E i \in 1 .. Len(q) : q[i] = e
    PROVE  \E k \in 1 .. Len(q) : q[k] = e /\ RemoveFirst(q, e) = RemoveAt(q, k)
  <1> DEFINE I == {i \in 1 .. Len(q) : q[i] = e}
  <1>1. PICK x \in I : \A y \in I : ~(<<y, x>> \in OpToRel(<, Nat))
    <2>1. I \subseteq Nat /\ I # {}
      OBVIOUS
    <2>2. QED
      BY <2>1, NatLessThanWellFounded, WFMin
  <1>2. ASSUME NEW y \in I PROVE x <= y
    <2>1. ~(<<y, x>> \in {ss \in Nat \X Nat : ss[1] < ss[2]})
      BY <1>1 DEF OpToRel
    <2>2. QED
      BY <2>1
  <1>3. Min(I) \in I
    BY <1>2 DEF Min
  <1>4. SelectInSeq(q, LAMBDA v : v = e) = Min(I)
    BY <1>1 DEF SelectInSeq
  <1>5. RemoveFirst(q, e) = RemoveAt(q, Min(I))
    BY <1>4 DEF RemoveFirst
  <1>6. QED
    BY <1>3, <1>5

-----------------------------------------------------------------------------
(* The queue of a lock, and the order of the table *)

\* Just the members wait in the queue q, each once; whoever holds the lock is its head.
Queue(q, Members, Firsts) ==
    /\ q \in Seq(Members)
    /\ \A i, j \in 1 .. Len(q) : q[i] = q[j] => i = j
    /\ \A e \in Members : \E i \in 1 .. Len(q) : q[i] = e
    /\ \A e \in Firsts : q # <<>> /\ q[1] = e

LEMMA QueueEmpty == Queue(<<>>, {}, {})
  BY DEF Queue

LEMMA QueueAppend ==
    ASSUME NEW q, NEW M, NEW H, Queue(q, M, H), NEW e, e \notin M
    PROVE  Queue(Append(q, e), M \cup {e}, H)
  <1> DEFINE t == Append(q, e)
  <1>1. q \in Seq(M) /\ q \in Seq(M \cup {e})
    BY DEF Queue
  <1>2. /\ t \in Seq(M \cup {e}) /\ Len(t) = Len(q) + 1
        /\ \A i \in 1 .. Len(q) : t[i] = q[i]
        /\ t[Len(q) + 1] = e
    BY <1>1, AppendProperties
  <1>3. \A i \in 1 .. Len(q) : q[i] \in M
    BY <1>1
  <1> HIDE DEF t
  <1>4. Len(q) \in Nat
    BY <1>1
  <1>a. \A i, j \in 1 .. Len(q) : q[i] = q[j] => i = j
    BY DEF Queue
  <1>5. ASSUME NEW i \in 1 .. Len(t), NEW j \in 1 .. Len(t), t[i] = t[j]
        PROVE  i = j
    <2>1. CASE i = Len(q) + 1 /\ j # i
      BY <1>2, <1>3, <1>4, <1>5, <2>1
    <2>2. CASE j = Len(q) + 1 /\ j # i
      BY <1>2, <1>3, <1>4, <1>5, <2>2
    <2>3. CASE i # Len(q) + 1 /\ j # Len(q) + 1
      BY <1>a, <1>2, <1>4, <1>5, <2>3
    <2>4. QED BY <2>1, <2>2, <2>3
  <1>6. \A d \in M \cup {e} : \E i \in 1 .. Len(t) : t[i] = d
    BY <1>2, <1>4 DEF Queue
  <1>7. \A d \in H : t # <<>> /\ t[1] = d
    <2>1. ASSUME NEW d \in H PROVE Len(q) > 0 /\ q[1] = d
      BY <1>1, <2>1, EmptySeq DEF Queue
    <2>2. QED BY <1>2, <1>4, <2>1, EmptySeq
  <1>8. QED BY <1>2, <1>5, <1>6, <1>7 DEF Queue, t

LEMMA QueueTail ==
    ASSUME NEW q, NEW M, NEW H, Queue(q, M, H), NEW e, q # <<>>, q[1] = e
    PROVE  Queue(Tail(q), M \ {e}, {}) /\ e \in M /\ H \subseteq {e}
  <1> DEFINE t == Tail(q)
  <1>1. q \in Seq(M) /\ Len(q) \in Nat /\ Len(q) > 0
    BY EmptySeq DEF Queue
  <1>2. /\ t \in Seq(M) /\ Len(t) = Len(q) - 1
        /\ \A i \in 1 .. Len(q) - 1 : t[i] = q[i + 1]
    BY <1>1, HeadTailProperties
  <1> HIDE DEF t
  <1>a. \A i, j \in 1 .. Len(q) : q[i] = q[j] => i = j
    BY DEF Queue
  <1>b. \A i \in 1 .. Len(q) : q[i] \in M
    BY <1>1
  <1>3. ASSUME NEW i \in 1 .. Len(t)
        PROVE  t[i] \in M \ {e}
    <2>1. i + 1 \in 1 .. Len(q) /\ 1 \in 1 .. Len(q) /\ i + 1 # 1
      BY <1>1, <1>2
    <2>2. q[i + 1] # q[1]
      BY <1>a, <2>1
    <2>3. QED BY <1>b, <1>2, <2>1, <2>2
  <1>4. t \in Seq(M \ {e})
    BY <1>2, <1>3
  <1>5. ASSUME NEW i \in 1 .. Len(t), NEW j \in 1 .. Len(t), t[i] = t[j]
        PROVE  i = j
    <2>1. i + 1 \in 1 .. Len(q) /\ j + 1 \in 1 .. Len(q) /\ q[i + 1] = q[j + 1]
      BY <1>1, <1>2, <1>5
    <2>2. i + 1 = j + 1
      BY <1>a, <2>1
    <2>3. QED BY <1>2, <2>2
  <1>6. ASSUME NEW d \in M \ {e} PROVE \E i \in 1 .. Len(t) : t[i] = d
    <2>1. PICK i \in 1 .. Len(q) : q[i] = d
      BY DEF Queue
    <2>2. i # 1
      BY <2>1
    <2>3. i - 1 \in 1 .. Len(t) /\ t[i - 1] = d
      BY <1>1, <1>2, <2>1, <2>2
    <2>4. QED BY <2>3
  <1>7. e \in M /\ H \subseteq {e}
    BY <1>1 DEF Queue
  <1>8. QED BY <1>4, <1>5, <1>6, <1>7 DEF Queue, t

LEMMA QueueRemoveAt ==
    ASSUME NEW q, NEW M, NEW H, Queue(q, M, H), NEW k \in 1 .. Len(q), q[k] \notin H
    PROVE  Queue(RemoveAt(q, k), M \ {q[k]}, H)
  <1> DEFINE t == RemoveAt(q, k)
             e == q[k]
  <1>1. q \in Seq(M) /\ Len(q) \in Nat
    BY DEF Queue
  <1>2. q[k] = e /\ t = RemoveAt(q, k) /\ e \notin H
    OBVIOUS
  <1>3. /\ t \in Seq(M) /\ Len(t) = Len(q) - 1
        /\ \A i \in 1 .. Len(q) - 1 : t[i] = IF i < k THEN q[i] ELSE q[i + 1]
    BY <1>1, RemoveAtFacts
  <1> HIDE DEF t, e
  <1>a. \A i, j \in 1 .. Len(q) : q[i] = q[j] => i = j
    BY DEF Queue
  <1>b. \A i \in 1 .. Len(q) : q[i] \in M
    BY <1>1
  <1>c. ASSUME NEW i \in 1 .. Len(t)
        PROVE  \E n \in 1 .. Len(q) : n = (IF i < k THEN i ELSE i + 1) /\ n # k /\ t[i] = q[n]
    BY <1>1, <1>3
  <1>4. \A i \in 1 .. Len(t) : t[i] \in M \ {e}
    BY <1>a, <1>b, <1>c, <1>2
  <1>5. t \in Seq(M \ {e})
    BY <1>3, <1>4
  <1>6. ASSUME NEW i \in 1 .. Len(t), NEW j \in 1 .. Len(t), t[i] = t[j]
        PROVE  i = j
    <2>1. (IF i < k THEN i ELSE i + 1) = (IF j < k THEN j ELSE j + 1)
      BY <1>a, <1>c, <1>6
    <2>2. QED BY <1>1, <1>3, <2>1
  <1>7. ASSUME NEW d \in M \ {e} PROVE \E i \in 1 .. Len(t) : t[i] = d
    <2>1. PICK i \in 1 .. Len(q) : q[i] = d
      BY DEF Queue
    <2>2. i # k
      BY <1>2, <2>1
    <2>3. CASE i < k
      BY <1>1, <1>3, <2>1, <2>3
    <2>4. CASE i > k
      <3>1. i - 1 \in 1 .. Len(t) /\ t[i - 1] = d
        BY <1>1, <1>3, <2>1, <2>4
      <3>2. QED BY <3>1
    <2>5. QED BY <1>1, <2>1, <2>2, <2>3, <2>4
  <1>8. ASSUME NEW d \in H PROVE t # <<>> /\ t[1] = d
    <2>1. q[1] = d /\ d # e
      BY <1>2, <1>8 DEF Queue
    <2>2. k > 1 /\ Len(q) > 1
      BY <1>1, <1>2, <2>1
    <2>3. Len(t) > 0 /\ t[1] = d
      BY <1>1, <1>3, <2>1, <2>2
    <2>4. QED BY <2>3, EmptySeq
  <1>9. QED BY <1>5, <1>6, <1>7, <1>8 DEF Queue, t, e

LEMMA QueueRemove ==
    ASSUME NEW q, NEW M, NEW H, Queue(q, M, H), NEW e, e \in M, e \notin H
    PROVE  Queue(RemoveFirst(q, e), M \ {e}, H)
  <1>1. q \in Seq(M) /\ \E i \in 1 .. Len(q) : q[i] = e
    BY DEF Queue
  <1>2. QED BY <1>1, RemoveFirstIsRemoveAt, QueueRemoveAt

\* The lock is the head's.
LEMMA QueueHead ==
    ASSUME NEW q, NEW M, NEW H, Queue(q, M, H), q # <<>>
    PROVE  Queue(q, M, {q[1]}) /\ q[1] \in M /\ H \subseteq {q[1]} /\ Head(q) = q[1]
  BY EmptySeq DEF Queue

\* Fewer may claim it.
LEMMA QueueFewer ==
    ASSUME NEW q, NEW M, NEW H, Queue(q, M, H), NEW G, G \subseteq H
    PROVE  Queue(q, M, G)
  BY DEF Queue

-----------------------------------------------------------------------------
(* The inductive invariant *)

Entered(h) == {r \in Holders(h) : stage[r] # "queued"}
Building == {r \in Requests : stage[r] \in {"built", "published"}}
Loading == {"pinned", "streaming"}
Downloads(root) == {r \in Requests : stage[r] \in Loading /\ job[r].root = root}

\* Each loaded session is in the table once, its counter and its lock's queue have just the
\* requests that lease it, and who is past the queue is its head.
TableInv == Queue(table, Loaded, {})

LeaseInv ==
    /\ \A r \in Requests : stage[r] # "idle" => job[r] \in Jobs
    /\ \A r \in Requests : stage[r] \in Leased => job[r].handle \in Loaded
    /\ \A h \in Loaded :
           /\ session[h] \in Sessions
           /\ session[h].active = Cardinality(Holders(h))
           /\ Queue(session[h].queue, Holders(h), Entered(h))
    /\ \A h, k \in Loaded : session[h].id = session[k].id => h = k

\* A pointer names a data root of its session id, which is kept.
PointersInv ==
    \A i \in Ids : pointer[i] # None =>
        /\ Persistent
        /\ pointer[i] \in OnDisk \ doomed
        /\ disk[pointer[i]].id = i

\* One replacement at most is being installed.  Its data root is one generation on, and nobody
\* else's; when it is published the pointer names it.
BuildInv ==
    \A r \in Building : LET root == job[r].root IN
        /\ root \in OnDisk /\ pins[root] = 0
        /\ disk[root].id = Mine(r).id /\ disk[root].generation = Mine(r).generation + 1
        /\ \A h \in Loaded : session[h].root # root
        /\ stage[r] = "built" => \A i \in Ids : pointer[i] # root
        /\ stage[r] = "published" /\ Persistent => pointer[Mine(r).id] = root
        /\ \A q \in Building : q = r

RootInv ==
    /\ PointersInv /\ BuildInv
    /\ RootsAlive /\ PinsCounted /\ DoomedPinned /\ PointerCurrent /\ NoGarbage

IInv == TypeOK /\ TableInv /\ LeaseInv /\ RootInv

-----------------------------------------------------------------------------
(* Queues and the table *)

LEMMA QueueRange ==
    ASSUME NEW q, NEW M, NEW H, Queue(q, M, H)
    PROVE  Range(q) = M
  <1>1. q \in Seq(M) /\ DOMAIN q = 1 .. Len(q)
    BY DEF Queue
  <1>2. QED BY <1>1 DEF Queue, Range

LEMMA RemoveFirstType ==
    ASSUME NEW S, NEW q \in Seq(S), NEW e
    PROVE  RemoveFirst(q, e) \in Seq(S)
  <1>1. CASE \E i \in 1 .. Len(q) : q[i] = e
    <2>1. PICK k \in 1 .. Len(q) : RemoveFirst(q, e) = RemoveAt(q, k)
      BY <1>1, RemoveFirstIsRemoveAt
    <2>2. QED BY <2>1, RemoveAtFacts
  <1>2. CASE ~\E i \in 1 .. Len(q) : q[i] = e
    BY <1>2 DEF RemoveFirst
  <1>3. QED BY <1>1, <1>2

\* The session that is looked up becomes the most recently used.
LEMMA TableUsed ==
    ASSUME TableInv, NEW h \in Loaded
    PROVE  /\ Queue(Append(RemoveFirst(table, h), h), Loaded, {})
           /\ Range(Append(RemoveFirst(table, h), h)) = Loaded
  <1> DEFINE q == RemoveFirst(table, h)
  <1>1. Queue(q, Loaded \ {h}, {})
    BY QueueRemove DEF TableInv
  <1> HIDE DEF q
  <1>2. Queue(Append(q, h), (Loaded \ {h}) \cup {h}, {})
    BY <1>1, QueueAppend
  <1>3. (Loaded \ {h}) \cup {h} = Loaded
    OBVIOUS
  <1>4. QED BY <1>2, <1>3, QueueRange DEF q

\* A session that leaves the table to make room is idle.
LEMMA TableEvicted ==
    ASSUME TypeOK, TableInv,
           NEW t \in {table} \cup {RemoveAt(table, i) : i \in 1 .. Len(table)}, HasRoom(t)
    PROVE  /\ Queue(t, Range(t), {}) /\ t \in Seq(Handles)
           /\ Range(t) \subseteq Loaded
           /\ \A h \in Loaded \ Range(t) : Idle(h)
  <1>0. table \in Seq(Handles) /\ Len(table) \in Nat
    BY DEF TypeOK
  <1>1. CASE t = table
    BY <1>0, <1>1 DEF TableInv, Loaded
  <1>2. CASE t # table
    <2>1. PICK i \in 1 .. Len(table) : Idle(table[i]) /\ t = RemoveAt(table, i)
      BY <1>2 DEF HasRoom
    <2>2. t \in Seq(Handles)
      BY <1>0, <2>1, RemoveAtFacts
    <2>3. Queue(t, Loaded \ {table[i]}, {})
      BY <2>1, QueueRemoveAt DEF TableInv
    <2>4. Range(t) = Loaded \ {table[i]}
      BY <2>3, QueueRange
    <2>5. QED BY <2>1, <2>2, <2>3, <2>4
  <1>3. QED BY <1>1, <1>2

LEMMA TableMore ==
    ASSUME NEW t, Queue(t, Range(t), {}), NEW h, h \notin Range(t)
    PROVE  /\ Queue(Append(t, h), Range(t) \cup {h}, {})
           /\ Range(Append(t, h)) = Range(t) \cup {h}
  <1>1. Queue(Append(t, h), Range(t) \cup {h}, {})
    BY QueueAppend
  <1>2. QED BY <1>1, QueueRange

-----------------------------------------------------------------------------
(* Leases *)

LEMMA LeaseFacts ==
    ASSUME LeaseInv, NEW h \in Loaded
    PROVE  /\ session[h] \in Sessions
           /\ session[h].active = Cardinality(Holders(h))
           /\ Queue(session[h].queue, Holders(h), Entered(h))
           /\ IsFiniteSet(Holders(h))
           /\ \A r \in Holders(h) : r \in Requests /\ stage[r] \in Leased /\ job[r].handle = h
  <1>1. IsFiniteSet(Holders(h))
    BY RequestsAssumption, FS_Subset DEF Holders
  <1>2. QED BY <1>1 DEF LeaseInv, Holders

LEMMA MineFacts ==
    ASSUME LeaseInv, NEW r \in Requests, stage[r] \in Leased
    PROVE  /\ job[r] \in Jobs /\ job[r].handle \in Loaded
           /\ r \in Holders(job[r].handle) /\ Mine(r) \in Sessions
           /\ Queue(Mine(r).queue, Holders(job[r].handle), Entered(job[r].handle))
           /\ stage[r] # "queued" => Entered(job[r].handle) = {r}
  <1>1. /\ job[r] \in Jobs /\ job[r].handle \in Loaded
        /\ r \in Holders(job[r].handle)
    BY DEF LeaseInv, Leased, Holders
  <1>2. /\ Mine(r) \in Sessions
        /\ Queue(Mine(r).queue, Holders(job[r].handle), Entered(job[r].handle))
    BY <1>1 DEF LeaseInv, Mine
  <1>3. ASSUME stage[r] # "queued" PROVE Entered(job[r].handle) = {r}
    <2>1. r \in Entered(job[r].handle)
      BY <1>1, <1>3 DEF Entered
    <2>2. QED BY <1>2, <2>1 DEF Queue
  <1>4. QED BY <1>1, <1>2, <1>3

\* A request moves on and who leases a session stays the same: it goes on from the queue
\* only as the head.
LEMMA LeaseStays ==
    ASSUME LeaseInv, UNCHANGED setup, Loaded' = Loaded, NEW r \in Requests,
           \A h \in Loaded : /\ session'[h] \in Sessions /\ session'[h].id = session[h].id
                             /\ session'[h].active = session[h].active
                             /\ session'[h].queue = session[h].queue,
           \A q \in Requests \ {r} : stage'[q] = stage[q] /\ job'[q] = job[q],
           stage'[r] \in Leased <=> stage[r] \in Leased,
           stage'[r] # "idle" => job'[r] \in Jobs,
           stage[r] \in Leased => job'[r].handle = job[r].handle,
           stage[r] = "queued" /\ stage'[r] # "queued" => Head(Mine(r).queue) = r
    PROVE  LeaseInv'
  <1>1. \A h : Holders(h)' = Holders(h)
    BY DEF Holders
  <1>2. Sessions' = Sessions
    BY DEF Sessions, MaxGeneration
  <1>3. ASSUME NEW h \in Loaded
        PROVE  Queue(session'[h].queue, Holders(h), Entered(h)')
    <2>1. Queue(session[h].queue, Holders(h), Entered(h))
      BY DEF LeaseInv
    <2>2. CASE Entered(h)' \subseteq Entered(h)
      BY <2>1, <2>2, QueueFewer
    <2>3. CASE ~(Entered(h)' \subseteq Entered(h))
      <3>1. /\ r \in Holders(h) /\ stage[r] = "queued" /\ stage'[r] # "queued"
            /\ Entered(h)' \subseteq Entered(h) \cup {r} /\ job[r].handle = h
        BY <1>1, <2>3 DEF Entered, Holders
      <3>2. Head(session[h].queue) = r
        BY <3>1 DEF Mine
      <3>3. session[h].queue # <<>>
        BY <2>1, <3>1, EmptySeq DEF Queue
      <3>4. Queue(session[h].queue, Holders(h), {r}) /\ Entered(h) \subseteq {r}
        BY <2>1, <3>2, <3>3, QueueHead
      <3>5. QED BY <3>1, <3>4, QueueFewer
    <2>4. QED BY <2>2, <2>3
  <1>4. ASSUME NEW q \in Requests
        PROVE  /\ stage'[q] # "idle" => job'[q] \in Jobs
               /\ stage'[q] \in Leased => job'[q].handle \in Loaded
    BY DEF LeaseInv
  <1>5. /\ Jobs' = Jobs
        /\ \A h \in Loaded : session'[h].active = Cardinality(Holders(h)')
        /\ \A h, k \in Loaded : session'[h].id = session'[k].id => h = k
    BY <1>1 DEF LeaseInv, Jobs, Views, MaxGeneration
  <1>6. QED BY <1>1, <1>2, <1>3, <1>4, <1>5 DEF LeaseInv

\* A lease ends, in the queue or past it.
LEMMA LeaseEnds ==
    ASSUME TypeOK, LeaseInv, UNCHANGED <<setup, table>>, NEW r \in Requests,
           stage[r] \in Leased, Unlease(r), stage'[r] \notin Leased,
           stage'[r] # "idle" => job'[r] \in Jobs,
           \A q \in Requests \ {r} : stage'[q] = stage[q] /\ job'[q] = job[q]
    PROVE  /\ LeaseInv' /\ Loaded' = Loaded
           /\ \A h \in Loaded : /\ session'[h].id = session[h].id
                                /\ session'[h].root = session[h].root
                                /\ session'[h].generation = session[h].generation
  <1>0. PICK k : k = job[r].handle
    OBVIOUS
  <1>1. /\ k \in Loaded /\ r \in Holders(k) /\ session[k] \in Sessions
        /\ session[k].active = Cardinality(Holders(k)) /\ IsFiniteSet(Holders(k))
        /\ Queue(session[k].queue, Holders(k), Entered(k))
        /\ stage[r] # "queued" => Entered(k) = {r}
    BY <1>0, MineFacts, LeaseFacts
  <1> DEFINE s == [session[k] EXCEPT !.active = @ - 1, !.queue = RemoveFirst(@, r)]
  <1>2. table \in Seq(Handles) /\ session \in [Handles -> Sessions \cup {None}]
    BY DEF TypeOK
  <1>3. Loaded \subseteq Handles
    BY <1>2 DEF Loaded, Range
  <1>4. session'[k] = s /\ \A h \in Loaded \ {k} : session'[h] = session[h]
    BY <1>0, <1>1, <1>2, <1>3 DEF Unlease
  <1>5. Loaded' = Loaded /\ Sessions' = Sessions /\ Jobs' = Jobs
    BY DEF Loaded, Sessions, Jobs, Views, MaxGeneration
  <1>6. Holders(k)' = Holders(k) \ {r} /\ \A h : h # k => Holders(h)' = Holders(h)
    BY <1>0 DEF Holders
  <1>7. \A h : h # k => Entered(h)' = Entered(h)
    <2>1. ASSUME NEW h, h # k PROVE r \notin Holders(h)
      BY <1>0, <2>1 DEF Holders
    <2>2. QED BY <1>6, <2>1 DEF Entered, Holders
  <1>8. /\ Cardinality(Holders(k) \ {r}) = Cardinality(Holders(k)) - 1
        /\ Cardinality(Holders(k) \ {r}) \in Nat
    BY <1>1, FS_RemoveElement, FS_CardinalityType
  <1>9. Queue(RemoveFirst(session[k].queue, r), Holders(k) \ {r}, Entered(k)')
    <2>1. CASE stage[r] = "queued"
      <3>1. r \notin Entered(k) /\ Entered(k)' \subseteq Entered(k)
        BY <1>6, <2>1 DEF Entered, Holders
      <3>2. Queue(RemoveFirst(session[k].queue, r), Holders(k) \ {r}, Entered(k))
        BY <1>1, <3>1, QueueRemove
      <3>3. QED BY <3>1, <3>2, QueueFewer
    <2>2. CASE stage[r] # "queued"
      <3>1. Entered(k)' = {}
        BY <1>1, <1>6, <2>2 DEF Entered, Holders
      <3>2. Queue(session[k].queue, Holders(k), {})
        BY <1>1, QueueFewer
      <3>3. QED BY <1>1, <3>1, <3>2, QueueRemove
    <2>3. QED BY <2>1, <2>2
  <1>10. RemoveFirst(session[k].queue, r) \in Seq(Requests)
    BY <1>1, RemoveFirstType DEF Sessions
  <1>11. s \in Sessions /\ s.id = session[k].id /\ s.root = session[k].root
         /\ s.generation = session[k].generation
         /\ s.active = Cardinality(Holders(k) \ {r})
         /\ s.queue = RemoveFirst(session[k].queue, r)
    BY <1>1, <1>8, <1>10 DEF Sessions
  <1>12. \A h \in Loaded : /\ session'[h].id = session[h].id
                           /\ session'[h].root = session[h].root
                           /\ session'[h].generation = session[h].generation
    BY <1>4, <1>11
  <1>13. ASSUME NEW h \in Loaded
         PROVE  /\ session'[h] \in Sessions
                /\ session'[h].active = Cardinality(Holders(h)')
                /\ Queue(session'[h].queue, Holders(h)', Entered(h)')
    <2>1. CASE h = k
      BY <1>4, <1>6, <1>9, <1>11, <2>1
    <2>2. CASE h # k
      BY <1>4, <1>6, <1>7, <2>2 DEF LeaseInv
    <2>3. QED BY <2>1, <2>2
  <1>14. ASSUME NEW q \in Requests
         PROVE  /\ stage'[q] # "idle" => job'[q] \in Jobs
                /\ stage'[q] \in Leased => job'[q].handle \in Loaded
    BY DEF LeaseInv
  <1>15. \A h, g \in Loaded : session'[h].id = session'[g].id => h = g
    BY <1>12 DEF LeaseInv
  <1>16. QED BY <1>5, <1>12, <1>13, <1>14, <1>15 DEF LeaseInv

\* A request that is not in a session yet.
LEMMA NoLease ==
    ASSUME NEW r \in Requests, stage[r] \notin Leased
    PROVE  \A h : r \notin Holders(h)
  BY DEF Holders

\* A loaded session gets one more lease.
LEMMA LeaseJoins ==
    ASSUME TypeOK, TableInv, LeaseInv, UNCHANGED setup,
           NEW r \in Requests, NEW h \in Handles, Lookup(r, h)
    PROVE  /\ LeaseInv' /\ TableInv' /\ Loaded' = Loaded
           /\ \A g \in Loaded : /\ session'[g] \in Sessions /\ session'[g].id = session[g].id
                                /\ session'[g].root = session[g].root
                                /\ session'[g].generation = session[g].generation
  <1> DEFINE s == [session[h] EXCEPT !.active = @ + 1, !.queue = Append(@, r)]
  <1>1. h \in Loaded /\ stage[r] = "ready" /\ stage[r] \notin Leased
    BY DEF Lookup, Found, Leased
  <1>2. /\ session[h] \in Sessions /\ IsFiniteSet(Holders(h))
        /\ session[h].active = Cardinality(Holders(h))
        /\ Queue(session[h].queue, Holders(h), Entered(h))
    BY <1>1, LeaseFacts
  <1>3. Loaded' = Loaded /\ TableInv'
    BY <1>1, TableUsed DEF Lookup, TableInv, Loaded
  <1>4. table \in Seq(Handles) /\ session \in [Handles -> Sessions \cup {None}]
        /\ stage \in [Requests -> Stages] /\ job \in [Requests -> Jobs \cup {None}]
    BY DEF TypeOK
  <1>5. Loaded \subseteq Handles
    BY <1>4 DEF Loaded, Range
  <1>6. session'[h] = s /\ \A g \in Loaded \ {h} : session'[g] = session[g]
    BY <1>1, <1>4, <1>5 DEF Lookup
  <1>7. stage'[r] = "queued" /\ job[r] \in Jobs /\ job'[r] = [job[r] EXCEPT !.handle = h]
        /\ \A q \in Requests \ {r} : stage'[q] = stage[q] /\ job'[q] = job[q]
    BY <1>1, <1>4 DEF Lookup, GoTo, LeaseInv
  <1>8. job'[r] \in Jobs /\ job'[r].handle = h
    BY <1>7 DEF Jobs
  <1>9. r \notin Holders(h) /\ \A g : r \notin Holders(g)
    BY <1>1, NoLease
  <1>10. Holders(h)' = Holders(h) \cup {r} /\ \A g : g # h => Holders(g)' = Holders(g)
    <2>1. ASSUME NEW g, NEW q \in Requests
          PROVE  q \in Holders(g)' <=> q \in Holders(g) \/ (q = r /\ g = h)
      BY <1>1, <1>7, <1>8 DEF Holders, Leased
    <2>2. \A g : Holders(g)' \subseteq Requests /\ Holders(g) \subseteq Requests
      BY DEF Holders
    <2>3. QED BY <2>1, <2>2
  <1>11. \A g : Entered(g)' = Entered(g)
    BY <1>7, <1>9, <1>10 DEF Entered, Holders
  <1>12. /\ Cardinality(Holders(h) \cup {r}) = Cardinality(Holders(h)) + 1
         /\ Cardinality(Holders(h)) \in Nat
    BY <1>2, <1>9, FS_AddElement, FS_CardinalityType
  <1>13. Queue(Append(session[h].queue, r), Holders(h) \cup {r}, Entered(h))
    BY <1>2, <1>9, QueueAppend
  <1>14. s \in Sessions /\ s.id = session[h].id /\ s.root = session[h].root
         /\ s.generation = session[h].generation
         /\ s.active = Cardinality(Holders(h) \cup {r})
         /\ s.queue = Append(session[h].queue, r)
    <2>1. /\ session[h].active + 1 \in Nat
          /\ Append(session[h].queue, r) \in Seq(Requests)
      BY <1>2, <1>12 DEF Sessions
    <2>2. QED BY <1>2, <1>12, <2>1 DEF Sessions
  <1>15. \A g \in Loaded : /\ session'[g] \in Sessions /\ session'[g].id = session[g].id
                           /\ session'[g].root = session[g].root
                           /\ session'[g].generation = session[g].generation
    BY <1>6, <1>14 DEF LeaseInv
  <1>16. ASSUME NEW g \in Loaded
         PROVE  /\ session'[g].active = Cardinality(Holders(g)')
                /\ Queue(session'[g].queue, Holders(g)', Entered(g)')
    <2>1. CASE g = h
      BY <1>6, <1>10, <1>11, <1>13, <1>14, <2>1
    <2>2. CASE g # h
      BY <1>6, <1>10, <1>11, <2>2 DEF LeaseInv
    <2>3. QED BY <2>1, <2>2
  <1>17. ASSUME NEW q \in Requests
         PROVE  /\ stage'[q] # "idle" => job'[q] \in Jobs
                /\ stage'[q] \in Leased => job'[q].handle \in Loaded
    BY <1>1, <1>7, <1>8 DEF LeaseInv
  <1>18. \A g, k \in Loaded : session'[g].id = session'[k].id => g = k
    BY <1>15 DEF LeaseInv
  <1>19. Sessions' = Sessions /\ Jobs' = Jobs
    BY DEF Sessions, Jobs, Views, MaxGeneration
  <1>20. QED BY <1>3, <1>15, <1>16, <1>17, <1>18, <1>19 DEF LeaseInv

\* What makes room has no request in it: every lease is of a session that stays.
LEMMA RoomMade ==
    ASSUME TypeOK, TableInv, LeaseInv,
           NEW t \in {table} \cup {RemoveAt(table, i) : i \in 1 .. Len(table)}, HasRoom(t)
    PROVE  /\ Queue(t, Range(t), {}) /\ t \in Seq(Handles) /\ Range(t) \subseteq Loaded
           /\ \A h \in Loaded \ Range(t) : Idle(h) /\ Holders(h) = {}
           /\ \A q \in Requests : stage[q] \in Leased => job[q].handle \in Range(t)
           /\ \A h \in Range(t) : h \in Handles /\ h \notin Unused(t)
  <1>1. /\ Queue(t, Range(t), {}) /\ t \in Seq(Handles) /\ Range(t) \subseteq Loaded
        /\ \A h \in Loaded \ Range(t) : Idle(h)
    BY TableEvicted
  <1>2. ASSUME NEW h \in Loaded \ Range(t) PROVE Holders(h) = {}
    <2>1. Cardinality(Holders(h)) = 0 /\ IsFiniteSet(Holders(h))
      BY <1>1, LeaseFacts DEF Idle
    <2>2. QED BY <2>1, FS_EmptySet
  <1>3. ASSUME NEW q \in Requests, stage[q] \in Leased PROVE job[q].handle \in Range(t)
    BY <1>2, <1>3, MineFacts
  <1>4. \A h \in Range(t) : h \in Handles /\ h \notin Unused(t)
    BY <1>1 DEF Unused, Range
  <1>5. QED BY <1>1, <1>2, <1>3, <1>4

\* A session is evicted and none takes its place.
LEMMA LeaseEvicts ==
    ASSUME TypeOK, TableInv, LeaseInv, UNCHANGED setup, NEW r \in Requests,
           NEW t \in {table} \cup {RemoveAt(table, i) : i \in 1 .. Len(table)}, HasRoom(t),
           table' = t, session' = [h \in Handles |-> IF h \in Unused(t) THEN None ELSE session[h]],
           stage[r] = "ready", End(r)
    PROVE  /\ TableInv' /\ LeaseInv' /\ Loaded' = Range(t)
           /\ \A h \in Range(t) : session'[h] = session[h]
  <1>1. /\ Queue(t, Range(t), {}) /\ t \in Seq(Handles) /\ Range(t) \subseteq Loaded
        /\ \A q \in Requests : stage[q] \in Leased => job[q].handle \in Range(t)
        /\ \A h \in Range(t) : h \in Handles /\ h \notin Unused(t)
    BY RoomMade
  <1>2. TableInv' /\ Loaded' = Range(t)
    BY <1>1 DEF TableInv, Loaded
  <1>3. \A h \in Range(t) : session'[h] = session[h]
    BY <1>1
  <1>4. stage'[r] = "idle" /\ \A q \in Requests \ {r} : stage'[q] = stage[q] /\ job'[q] = job[q]
    BY DEF End, GoTo, TypeOK
  <1>5. \A h : Holders(h)' = Holders(h)
    BY <1>4 DEF Holders, Leased
  <1>6. \A h : Entered(h)' = Entered(h)
    BY <1>4, <1>5 DEF Entered, Holders, Leased
  <1>7. Sessions' = Sessions /\ Jobs' = Jobs
    BY DEF Sessions, Jobs, Views, MaxGeneration
  <1>8. ASSUME NEW q \in Requests
        PROVE  /\ stage'[q] # "idle" => job'[q] \in Jobs
               /\ stage'[q] \in Leased => job'[q].handle \in Range(t)
    BY <1>1, <1>4 DEF LeaseInv, Leased
  <1>9. ASSUME NEW h \in Range(t)
        PROVE  /\ session'[h] \in Sessions
               /\ session'[h].active = Cardinality(Holders(h)')
               /\ Queue(session'[h].queue, Holders(h)', Entered(h)')
    BY <1>1, <1>3, <1>5, <1>6 DEF LeaseInv
  <1>10. \A h, k \in Range(t) : session'[h].id = session'[k].id => h = k
    BY <1>1, <1>3 DEF LeaseInv
  <1>11. QED BY <1>2, <1>3, <1>7, <1>8, <1>9, <1>10 DEF LeaseInv

\* A new session takes a place in the table; whoever made it leases it.
LEMMA LeaseInserts ==
    ASSUME TypeOK, TableInv, LeaseInv, UNCHANGED setup, NEW r \in Requests, stage[r] = "ready",
           NEW t \in {table} \cup {RemoveAt(table, j) : j \in 1 .. Len(table)}, HasRoom(t),
           NEW h \in Unused(t), NEW i \in Ids, NEW root \in Roots,
           NEW generation \in 0 .. MaxGeneration, Insert(r, t, h, i, root, generation),
           \A k \in Range(t) : session[k].id # i
    PROVE  /\ TableInv' /\ LeaseInv' /\ Loaded' = Range(t) \cup {h} /\ h \notin Range(t)
           /\ \A k \in Range(t) : session'[k] = session[k]
           /\ session'[h] \in Sessions /\ session'[h].id = i
           /\ session'[h].root = root /\ session'[h].generation = generation
  <1>1. /\ Queue(t, Range(t), {}) /\ t \in Seq(Handles) /\ Range(t) \subseteq Loaded
        /\ \A q \in Requests : stage[q] \in Leased => job[q].handle \in Range(t)
        /\ \A k \in Range(t) : k \in Handles /\ k \notin Unused(t)
    BY RoomMade
  <1>2. h \in Handles /\ h \notin Range(t) /\ Holders(h) = {}
    BY DEF Unused
  <1>3. TableInv' /\ Loaded' = Range(t) \cup {h}
    <2>1. table' = Append(t, h)
      BY DEF Insert
    <2>2. Queue(Append(t, h), Range(t) \cup {h}, {}) /\ Range(Append(t, h)) = Range(t) \cup {h}
      BY <1>1, <1>2, TableMore
    <2>3. QED BY <2>1, <2>2 DEF TableInv, Loaded
  <1>4. \A k \in Range(t) : session'[k] = session[k]
    BY <1>1, <1>2 DEF Insert
  <1>5. session'[h] = [id |-> i, root |-> root, generation |-> generation,
                       active |-> 1, queue |-> <<r>>]
    BY <1>2 DEF Insert
  <1>6. session'[h] \in Sessions /\ session'[h].id = i /\ session'[h].active = 1
        /\ session'[h].root = root /\ session'[h].generation = generation
        /\ session'[h].queue = <<r>>
    BY <1>5 DEF Sessions
  <1>7. stage'[r] = "queued" /\ job[r] \in Jobs /\ job'[r] = [job[r] EXCEPT !.handle = h]
        /\ \A q \in Requests \ {r} : stage'[q] = stage[q] /\ job'[q] = job[q]
    BY DEF Insert, GoTo, LeaseInv, TypeOK
  <1>8. job'[r] \in Jobs /\ job'[r].handle = h
    BY <1>2, <1>7 DEF Jobs
  <1>9. \A k : r \notin Holders(k)
    BY NoLease DEF Leased
  <1>10. Holders(h)' = {r} /\ \A k : k # h => Holders(k)' = Holders(k)
    <2>1. ASSUME NEW k, NEW q \in Requests
          PROVE  q \in Holders(k)' <=> q \in Holders(k) \/ (q = r /\ k = h)
      BY <1>7, <1>8, <1>9 DEF Holders, Leased
    <2>2. \A k : Holders(k)' \subseteq Requests /\ Holders(k) \subseteq Requests
      BY DEF Holders
    <2>3. \A k : k # h => Holders(k)' = Holders(k)
      BY <2>1, <2>2
    <2>4. Holders(h)' = {r}
      BY <1>2, <2>1, <2>2
    <2>5. QED BY <2>3, <2>4
  <1>11. Entered(h)' = {} /\ \A k : k # h => Entered(k)' = Entered(k)
    BY <1>7, <1>9, <1>10 DEF Entered, Holders
  <1>12. Queue(<<r>>, {r}, {}) /\ Cardinality({r}) = 1
    <2>1. Queue(Append(<<>>, r), {} \cup {r}, {})
      BY QueueEmpty, QueueAppend
    <2>2. Append(<<>>, r) = <<r>> /\ {} \cup {r} = {r}
      OBVIOUS
    <2>3. QED BY <2>1, <2>2, FS_Singleton
  <1>13. ASSUME NEW k \in Range(t) \cup {h}
         PROVE  /\ session'[k] \in Sessions
                /\ session'[k].active = Cardinality(Holders(k)')
                /\ Queue(session'[k].queue, Holders(k)', Entered(k)')
    <2>1. CASE k = h
      BY <1>6, <1>10, <1>11, <1>12, <2>1
    <2>2. CASE k # h
      BY <1>1, <1>4, <1>10, <1>11, <2>2 DEF LeaseInv
    <2>3. QED BY <2>1, <2>2
  <1>14. ASSUME NEW q \in Requests
         PROVE  /\ stage'[q] # "idle" => job'[q] \in Jobs
                /\ stage'[q] \in Leased => job'[q].handle \in Range(t) \cup {h}
    BY <1>1, <1>7, <1>8 DEF LeaseInv
  <1>15. \A g, k \in Range(t) \cup {h} : session'[g].id = session'[k].id => g = k
    BY <1>1, <1>4, <1>6 DEF LeaseInv
  <1>16. Sessions' = Sessions /\ Jobs' = Jobs
    BY DEF Sessions, Jobs, Views, MaxGeneration
  <1>17. QED BY <1>2, <1>3, <1>4, <1>6, <1>13, <1>14, <1>15, <1>16 DEF LeaseInv

-----------------------------------------------------------------------------
(* Data roots *)

LEMMA RootFacts ==
    ASSUME TypeOK
    PROVE  /\ Made \subseteq Roots /\ OnDisk \subseteq Made
           /\ \A root \in Made : disk[root] \in [id : Ids, generation : 0 .. MaxGeneration, kept : BOOLEAN]
           /\ \A root \in OnDisk : disk[root].kept = TRUE
           /\ \A root \in Made : root \in OnDisk <=> disk[root].kept
           /\ MaxGeneration \in Nat
  <1>1. setup \in [persistent : BOOLEAN, faults : SUBSET {"crash", "storage"}, generations : Nat]
    BY SetupsAssumption DEF TypeOK
  <1>2. QED BY <1>1 DEF TypeOK, Made, OnDisk, MaxGeneration

\* The data roots gone are deleted, and nothing else happens on the disk.
Shrinks(gone) ==
    /\ disk' \in [Roots -> [id : Ids, generation : 0 .. MaxGeneration, kept : BOOLEAN] \cup {None}]
    /\ Made' = Made /\ OnDisk' = OnDisk \ gone
    /\ \A root \in Made : disk'[root].id = disk[root].id /\ disk'[root].generation = disk[root].generation

LEMMA WithoutShrinks ==
    ASSUME TypeOK, NEW gone, gone \subseteq Made, disk' = DiskWithout(gone)
    PROVE  Shrinks(gone)
  <1>1. \A root \in Made : /\ root \in Roots
                           /\ disk[root] \in [id : Ids, generation : 0 .. MaxGeneration, kept : BOOLEAN]
    BY RootFacts
  <1>2. \A root \in gone : /\ disk'[root] = [disk[root] EXCEPT !.kept = FALSE]
                           /\ disk'[root] \in [id : Ids, generation : 0 .. MaxGeneration, kept : BOOLEAN]
                           /\ disk'[root].kept = FALSE
                           /\ disk'[root].id = disk[root].id
                           /\ disk'[root].generation = disk[root].generation
    BY <1>1 DEF DiskWithout
  <1>3. \A root \in Roots \ gone : disk'[root] = disk[root]
    BY DEF DiskWithout
  <1>4. disk' \in [Roots -> [id : Ids, generation : 0 .. MaxGeneration, kept : BOOLEAN] \cup {None}]
    <2>1. \A root \in Roots :
              disk'[root] \in [id : Ids, generation : 0 .. MaxGeneration, kept : BOOLEAN] \cup {None}
      BY <1>2, <1>3 DEF TypeOK
    <2>2. QED BY <2>1 DEF DiskWithout
  <1>5. \A root \in gone : disk'[root] # None
    <2>1. Ids \subseteq Nat /\ 0 .. MaxGeneration \subseteq Nat
      BY LimitsAssumption, RootFacts DEF Ids
    <2>2. QED BY <1>2, <2>1, NoneAssumption
  <1>6. Made' = Made
    BY <1>3, <1>5 DEF Made
  <1>7. OnDisk' = OnDisk \ gone
    BY <1>1, <1>2, <1>3, <1>6 DEF OnDisk
  <1>8. QED BY <1>1, <1>2, <1>3, <1>4, <1>6, <1>7 DEF Shrinks

LEMMA DiskStays ==
    ASSUME TypeOK, UNCHANGED disk
    PROVE  Shrinks({})
  BY DEF Shrinks, Made, OnDisk, TypeOK

LEMMA QuietFacts == Quiet <=> Building = {}
  BY DEF Quiet, Building

\* While no replacement is being installed: sessions may be evicted and data roots deleted that no
\* session, download or pointer names.
LEMMA FilesShrink ==
    ASSUME TypeOK, LeaseInv, RootInv, UNCHANGED <<setup, pointer, pins, doomed>>,
           NEW gone, Shrinks(gone), Loaded' \subseteq Loaded,
           \A h \in Loaded' : /\ session'[h].id = session[h].id /\ session'[h].root = session[h].root
                              /\ session'[h].generation = session[h].generation
                              /\ session[h].root \notin gone,
           Quiet, Quiet',
           \A r \in Requests : /\ stage'[r] \in Loading <=> stage[r] \in Loading
                               /\ stage[r] \in Loading =>
                                     job'[r].root = job[r].root /\ job[r].root \notin gone,
           \A i \in Ids : pointer[i] # None => pointer[i] \notin gone,
           Faults = {} => \A h \in Loaded \ Loaded' : Persistent \/ session[h].root \in gone
    PROVE  RootInv'
  <1> USE DEF RootInv
  <1>1. Building = {} /\ Building' = {}
    BY DEF Quiet, Building
  <1>2. /\ \A x \in OnDisk : x \in Made /\ x \in Roots
        /\ OnDisk' = OnDisk \ gone
        /\ \A x \in OnDisk : disk'[x].id = disk[x].id /\ disk'[x].generation = disk[x].generation
    BY RootFacts DEF Shrinks
  <1>3. PointersInv'
    BY <1>2 DEF PointersInv, Persistent
  <1>4. BuildInv'
    BY <1>1 DEF BuildInv
  <1>5. RootsAlive'
    BY <1>2 DEF RootsAlive, Loading
  <1>6. PinsCounted'
    <2>1. \A root : {r \in Requests : stage[r] \in {"pinned", "streaming"} /\ job[r].root = root}'
                  = {r \in Requests : stage[r] \in {"pinned", "streaming"} /\ job[r].root = root}
      BY DEF Loading
    <2>2. QED BY <2>1 DEF PinsCounted
  <1>7. DoomedPinned'
    BY DEF DoomedPinned
  <1>8. PointerCurrent'
    <2> SUFFICES ASSUME Persistent, NEW h \in Loaded'
                 PROVE  /\ disk'[session'[h].root].generation = session'[h].generation
                        /\ pointer[session'[h].id] = session'[h].root
      BY DEF PointerCurrent, Persistent
    <2>1. session[h].root \in OnDisk
      BY DEF RootsAlive
    <2>2. disk[session[h].root].generation = session[h].generation
      BY DEF PointerCurrent
    <2>3. pointer[session[h].id] = session[h].root
      BY <1>1 DEF PointerCurrent, Building, Holders
    <2>4. QED BY <1>2, <2>1, <2>2, <2>3
  <1>9. NoGarbage'
    <2> SUFFICES ASSUME Faults = {}, NEW x \in OnDisk'
                 PROVE  \/ \E h \in Loaded' : session'[h].root = x
                        \/ x \in doomed
                        \/ Persistent /\ pointer[disk'[x].id] = x
      BY DEF NoGarbage, Faults, Persistent
    <2>1. x \in OnDisk /\ x \notin gone /\ disk'[x].id = disk[x].id
      BY <1>2
    <2>2. \/ \E h \in Loaded : session[h].root = x
          \/ x \in doomed
          \/ Persistent /\ pointer[disk[x].id] = x
      BY <1>1, <2>1 DEF NoGarbage, Building
    <2>3. ASSUME NEW h \in Loaded \ Loaded', session[h].root = x
          PROVE  Persistent /\ pointer[disk[x].id] = x
      <3>1. Persistent
        BY <2>1, <2>3
      <3>2. pointer[session[h].id] = session[h].root
        BY <1>1, <3>1 DEF PointerCurrent, Building, Holders
      <3>3. disk[x].id = session[h].id
        BY <2>3 DEF RootsAlive
      <3>4. QED BY <2>3, <3>1, <3>2, <3>3
    <2>4. QED BY <2>1, <2>2, <2>3
  <1>10. QED BY <1>3, <1>4, <1>5, <1>6, <1>7, <1>8, <1>9

\* The same when nothing is evicted or deleted.
LEMMA FilesStay ==
    ASSUME TypeOK, LeaseInv, RootInv, UNCHANGED <<setup, files, pins, doomed>>, Loaded' = Loaded,
           \A h \in Loaded : /\ session'[h].id = session[h].id /\ session'[h].root = session[h].root
                             /\ session'[h].generation = session[h].generation,
           Quiet, Quiet',
           \A r \in Requests : /\ stage'[r] \in Loading <=> stage[r] \in Loading
                               /\ stage[r] \in Loading => job'[r].root = job[r].root
    PROVE  RootInv'
  <1>1. Shrinks({})
    BY DiskStays DEF files
  <1>2. QED BY <1>1, FilesShrink DEF files

-----------------------------------------------------------------------------
(* The steps of a request that change no session and no file *)

LEMMA EndFacts ==
    ASSUME TypeOK, NEW r \in Requests, End(r)
    PROVE  /\ stage' = [stage EXCEPT ![r] = "idle"] /\ job' = [job EXCEPT ![r] = None]
           /\ uploads' \in Seq(Requests)
           /\ stage' \in [Requests -> Stages] /\ job' \in [Requests -> Jobs \cup {None}]
           /\ stage'[r] = "idle"
           /\ \A q \in Requests \ {r} : stage'[q] = stage[q] /\ job'[q] = job[q]
  <1>1. uploads' \in Seq(Requests)
    BY RemoveFirstType DEF End, TypeOK
  <1>2. QED BY <1>1 DEF End, GoTo, TypeOK, Stages

\* The records have no field that depends on the state.
LEMMA SameTypes ==
    ASSUME UNCHANGED setup
    PROVE  Sessions' = Sessions /\ Jobs' = Jobs /\ Views' = Views /\ MaxGeneration' = MaxGeneration
  BY DEF Sessions, Jobs, Views, MaxGeneration

LEMMA Passes ==
    ASSUME IInv, UNCHANGED <<setup, table, session, files, pins, doomed, client>>,
           NEW r \in Requests, NEW to \in Stages \ {"built", "published"}, NEW j \in Jobs \cup {None},
           stage' = [stage EXCEPT ![r] = to], job' = [job EXCEPT ![r] = j],
           uploads' \in Seq(Requests), Quiet,
           to # "idle" => j \in Jobs,
           to \in Leased <=> stage[r] \in Leased,
           to \in Leased => j.handle = job[r].handle,
           to \in Loading <=> stage[r] \in Loading,
           to \in Loading => j.root = job[r].root,
           stage[r] = "queued" /\ to # "queued" => Head(Mine(r).queue) = r
    PROVE  IInv'
  <1> USE DEF IInv
  <1>1. /\ stage' \in [Requests -> Stages] /\ job' \in [Requests -> Jobs \cup {None}]
        /\ stage'[r] = to /\ job'[r] = j
        /\ \A q \in Requests \ {r} : stage'[q] = stage[q] /\ job'[q] = job[q]
    BY DEF TypeOK
  <1>2. TypeOK'
    BY <1>1, SameTypes DEF TypeOK, files, client
  <1>3. TableInv' /\ Loaded' = Loaded
    BY DEF TableInv, Loaded
  <1>4. \A h \in Loaded : session'[h] \in Sessions
    BY DEF LeaseInv
  <1>5. LeaseInv'
    BY <1>1, <1>3, <1>4, LeaseStays
  <1>6. Quiet'
    BY <1>1 DEF Quiet
  <1>7. RootInv'
    BY <1>1, <1>3, <1>6, FilesStay
  <1>8. QED BY <1>2, <1>3, <1>5, <1>7

LEMMA SendKeeps ==
    ASSUME IInv, UNCHANGED setup, NEW r \in Requests, NEW b \in Browsers, NEW kind \in Kinds,
           Send(r, b, kind)
    PROVE  IInv'
  <1> DEFINE to == IF kind = "import" THEN "upload" ELSE "ready"
             j == [kind |-> kind, browser |-> b, cookie |-> jar[b], handle |-> None,
                   seen |-> IF kind = "import" THEN shown[b] ELSE None, root |-> None]
  <1>1. TypeOK
    BY DEF IInv
  <1>2. jar[b] \in Ids \cup {None} /\ shown[b] \in Views \cup {None} /\ uploads \in Seq(Requests)
    BY <1>1 DEF TypeOK
  <1>3. j \in Jobs
    BY <1>2 DEF Jobs
  <1>4. stage' = [stage EXCEPT ![r] = to] /\ job' = [job EXCEPT ![r] = j]
    BY DEF Send, GoTo
  <1>5. uploads' \in Seq(Requests)
    BY <1>2 DEF Send
  <1>6. UNCHANGED <<setup, table, session, files, pins, doomed, client>> /\ Quiet /\ stage[r] = "idle"
    BY DEF Send
  <1> HIDE DEF j
  <1>7. to \in Stages \ {"built", "published"} /\ to \notin Leased /\ to \notin Loading
    BY DEF Stages, Leased, Loading
  <1>8. stage[r] \notin Leased /\ stage[r] \notin Loading
    BY <1>6 DEF Leased, Loading
  <1> HIDE DEF to
  <1>9. QED BY <1>3, <1>4, <1>5, <1>6, <1>7, <1>8, Passes

\* A request goes on with its job as it is.
LEMMA GoesOn ==
    ASSUME IInv, UNCHANGED <<setup, table, session, job, uploads, files, pins, doomed, client>>,
           NEW r \in Requests, NEW to \in Stages \ {"idle", "built", "published"}, GoTo(r, to),
           Quiet, stage[r] # "idle",
           to \in Leased <=> stage[r] \in Leased, to \in Loading <=> stage[r] \in Loading,
           stage[r] = "queued" /\ to # "queued" => Head(Mine(r).queue) = r
    PROVE  IInv'
  <1>1. job[r] \in Jobs
    BY DEF IInv, LeaseInv
  <1>2. job' = [job EXCEPT ![r] = job[r]] /\ uploads' \in Seq(Requests)
    BY DEF IInv, TypeOK
  <1>3. stage' = [stage EXCEPT ![r] = to]
    BY DEF GoTo
  <1>4. QED BY <1>1, <1>2, <1>3, Passes

\* A request is over that has no lease and no pin.
LEMMA Ends ==
    ASSUME IInv, UNCHANGED <<setup, table, session, files, pins, doomed, client>>,
           NEW r \in Requests, End(r), Quiet, stage[r] \in {"upload", "ready"}
    PROVE  IInv'
  <1>1. /\ stage' = [stage EXCEPT ![r] = "idle"] /\ job' = [job EXCEPT ![r] = None]
        /\ uploads' \in Seq(Requests)
    BY EndFacts DEF IInv
  <1>2. /\ "idle" \in Stages \ {"built", "published"} /\ "idle" \notin Leased /\ "idle" \notin Loading
        /\ stage[r] \notin Leased /\ stage[r] \notin Loading
    BY DEF Stages, Leased, Loading
  <1>3. QED BY <1>1, <1>2, Passes

LEMMA WaitingKeeps ==
    ASSUME IInv, UNCHANGED setup, NEW r \in Requests,
           \/ Uploaded(r) \/ UploadEnds(r) \/ LeaseRefused(r) \/ Enter(r) \/ Answer(r)
    PROVE  IInv'
  <1> USE DEF Stages, Leased, Loading
  <1>1. CASE Uploaded(r)
    <2>1. /\ UNCHANGED <<setup, table, session, job, uploads, files, pins, doomed, client>>
          /\ GoTo(r, "ready") /\ Quiet /\ stage[r] = "upload"
      BY <1>1 DEF Uploaded
    <2>2. QED BY <2>1, GoesOn
  <1>2. CASE UploadEnds(r)
    BY <1>2, Ends DEF UploadEnds
  <1>3. CASE LeaseRefused(r)
    BY <1>3, Ends DEF LeaseRefused
  <1>4. CASE Enter(r)
    <2>1. /\ UNCHANGED <<setup, table, session, job, uploads, files, pins, doomed, client>>
          /\ GoTo(r, "inside") /\ Quiet /\ stage[r] = "queued" /\ Head(Mine(r).queue) = r
      BY <1>4 DEF Enter
    <2>2. QED BY <2>1, GoesOn
  <1>5. CASE Answer(r)
    <2>1. /\ UNCHANGED <<setup, table, session, job, uploads, files, pins, doomed, client>>
          /\ GoTo(r, "finished") /\ Quiet /\ stage[r] = "inside"
      BY <1>5 DEF Answer
    <2>2. QED BY <2>1, GoesOn
  <1>6. QED BY <1>1, <1>2, <1>3, <1>4, <1>5

-----------------------------------------------------------------------------
(* Leases begin and end *)

LEMMA HandlesLoaded ==
    ASSUME TypeOK
    PROVE  Loaded \subseteq Handles
  BY DEF TypeOK, Loaded, Range

LEMMA LookupKeeps ==
    ASSUME IInv, UNCHANGED setup, NEW r \in Requests, NEW h \in Handles, Lookup(r, h)
    PROVE  IInv'
  <1>0. TypeOK /\ TableInv /\ LeaseInv /\ RootInv
    BY DEF IInv
  <1>1. /\ LeaseInv' /\ TableInv' /\ Loaded' = Loaded
        /\ \A g \in Loaded : /\ session'[g] \in Sessions /\ session'[g].id = session[g].id
                             /\ session'[g].root = session[g].root
                             /\ session'[g].generation = session[g].generation
    BY <1>0, LeaseJoins
  <1>2. /\ h \in Loaded /\ stage[r] = "ready" /\ Quiet
        /\ UNCHANGED <<uploads, pins, doomed, files, client>>
    BY DEF Lookup, Found
  <1>3. session' \in [Handles -> Sessions \cup {None}]
    <2>1. session'[h] \in Sessions
      BY <1>1, <1>2
    <2>2. \A g \in Handles \ {h} : session'[g] = session[g]
      BY <1>0 DEF Lookup, TypeOK
    <2>3. DOMAIN session' = Handles /\ session' = [g \in Handles |-> session'[g]]
      BY <1>0 DEF Lookup, TypeOK
    <2>4. \A g \in Handles : session'[g] \in Sessions \cup {None}
      BY <1>0, <2>1, <2>2 DEF TypeOK
    <2>5. QED BY <2>3, <2>4
  <1>4. table' \in Seq(Handles)
    <2>1. RemoveFirst(table, h) \in Seq(Handles)
      BY <1>0, RemoveFirstType DEF TypeOK
    <2>2. QED BY <2>1 DEF Lookup
  <1>5. /\ stage' \in [Requests -> Stages] /\ job[r] \in Jobs
        /\ stage'[r] = "queued"
        /\ \A q \in Requests \ {r} : stage'[q] = stage[q] /\ job'[q] = job[q]
    BY <1>0, <1>2 DEF TypeOK, LeaseInv, Lookup, GoTo, Stages, Leased
  <1>6. job' \in [Requests -> Jobs \cup {None}]
    <2>1. [job[r] EXCEPT !.handle = h] \in Jobs
      BY <1>5 DEF Jobs
    <2>2. QED BY <1>0, <2>1 DEF TypeOK, Lookup
  <1>7. TypeOK'
    BY <1>0, <1>2, <1>3, <1>4, <1>5, <1>6, SameTypes DEF TypeOK, files, client
  <1>8. Quiet'
    BY <1>2, <1>5 DEF Quiet
  <1>9. \A q \in Requests : /\ stage'[q] \in Loading <=> stage[q] \in Loading
                            /\ stage[q] \in Loading => job'[q].root = job[q].root
    BY <1>2, <1>5 DEF Loading
  <1>10. RootInv'
    BY <1>0, <1>1, <1>2, <1>8, <1>9, FilesStay
  <1>11. QED BY <1>1, <1>7, <1>10 DEF IInv

\* The lock, or the place in its queue, is given back.
LEMMA UnleaseTypes ==
    ASSUME TypeOK, LeaseInv, NEW r \in Requests, stage[r] \in Leased, Unlease(r)
    PROVE  session' \in [Handles -> Sessions \cup {None}]
  <1>1. PICK k : k = job[r].handle
    OBVIOUS
  <1>2. /\ k \in Handles /\ r \in Holders(k) /\ session[k] \in Sessions
        /\ session[k].active = Cardinality(Holders(k)) /\ IsFiniteSet(Holders(k))
    BY <1>1, MineFacts, LeaseFacts, HandlesLoaded
  <1>3. session[k].active - 1 \in Nat
    <2>1. Cardinality(Holders(k) \ {r}) = Cardinality(Holders(k)) - 1
      BY <1>2, FS_RemoveElement
    <2>2. Cardinality(Holders(k) \ {r}) \in Nat
      BY <1>2, FS_RemoveElement, FS_CardinalityType
    <2>3. QED BY <1>2, <2>1, <2>2
  <1>4. RemoveFirst(session[k].queue, r) \in Seq(Requests)
    BY <1>2, RemoveFirstType DEF Sessions
  <1>5. [session[k] EXCEPT !.active = @ - 1, !.queue = RemoveFirst(@, r)] \in Sessions
    BY <1>2, <1>3, <1>4 DEF Sessions
  <1>6. \A g \in Handles : session'[g] =
            IF g = k THEN [session[k] EXCEPT !.active = @ - 1, !.queue = RemoveFirst(@, r)]
            ELSE session[g]
    BY <1>1, <1>2 DEF Unlease, TypeOK
  <1>7. session' = [g \in Handles |-> session'[g]]
    BY DEF Unlease, TypeOK
  <1>8. \A g \in Handles : session'[g] \in Sessions \cup {None}
    BY <1>5, <1>6 DEF TypeOK
  <1>9. QED BY <1>7, <1>8

LEMMA CancelQueuedKeeps ==
    ASSUME IInv, UNCHANGED setup, NEW r \in Requests, CancelQueued(r)
    PROVE  IInv'
  <1>0. TypeOK /\ TableInv /\ LeaseInv /\ RootInv
    BY DEF IInv
  <1>1. /\ stage[r] = "queued" /\ stage[r] \in Leased /\ Quiet /\ Unlease(r) /\ End(r)
        /\ UNCHANGED <<table, pins, doomed, files, client>>
    BY DEF CancelQueued, Leased
  <1>2. /\ stage' \in [Requests -> Stages] /\ job' \in [Requests -> Jobs \cup {None}]
        /\ stage'[r] = "idle" /\ stage'[r] \notin Leased /\ uploads' \in Seq(Requests)
        /\ \A q \in Requests \ {r} : stage'[q] = stage[q] /\ job'[q] = job[q]
    BY <1>0, <1>1, EndFacts DEF Leased
  <1>3. /\ LeaseInv' /\ Loaded' = Loaded
        /\ \A h \in Loaded : /\ session'[h].id = session[h].id
                             /\ session'[h].root = session[h].root
                             /\ session'[h].generation = session[h].generation
    BY <1>0, <1>1, <1>2, LeaseEnds
  <1>4. TypeOK'
    BY <1>0, <1>1, <1>2, UnleaseTypes, SameTypes DEF TypeOK, files, client
  <1>5. TableInv'
    BY <1>0, <1>1 DEF TableInv, Loaded
  <1>6. Quiet'
    BY <1>1, <1>2 DEF Quiet
  <1>7. \A q \in Requests : /\ stage'[q] \in Loading <=> stage[q] \in Loading
                            /\ stage[q] \in Loading => job'[q].root = job[q].root
    BY <1>1, <1>2 DEF Loading
  <1>8. RootInv'
    BY <1>0, <1>1, <1>3, <1>6, <1>7, FilesStay
  <1>9. QED BY <1>3, <1>4, <1>5, <1>8 DEF IInv

\* What the browser learns when it gets the answer.
LEMMA LeaveTypes ==
    ASSUME TypeOK, LeaseInv, NEW r \in Requests, Leave(r)
    PROVE  jar' \in [Browsers -> Ids \cup {None}] /\ shown' \in [Browsers -> Views \cup {None}]
  <1>1. stage[r] \in Leased
    BY DEF Leave, Leased
  <1>2. Mine(r) \in Sessions /\ job[r] \in Jobs
    BY <1>1, MineFacts
  <1>3. Mine(r).id \in Ids
    BY <1>2 DEF Sessions
  <1>4. [root |-> Mine(r).root, generation |-> Mine(r).generation] \in Views
    BY <1>2 DEF Sessions, Views
  <1>5. jar \in [Browsers -> Ids \cup {None}] /\ shown \in [Browsers -> Views \cup {None}]
    BY DEF TypeOK
  <1> DEFINE jars == [jar EXCEPT ![job[r].browser] = Mine(r).id]
             shows == [shown EXCEPT ![job[r].browser] =
                          [root |-> Mine(r).root, generation |-> Mine(r).generation]]
  <1>6. jars \in [Browsers -> Ids \cup {None}] /\ shows \in [Browsers -> Views \cup {None}]
    BY <1>3, <1>4, <1>5
  <1>7. jar' \in {jar, jars} /\ shown' \in {shown, shows}
    BY DEF Leave, client
  <1>8. QED BY <1>5, <1>6, <1>7

LEMMA LeaveKeeps ==
    ASSUME IInv, UNCHANGED setup, NEW r \in Requests, Leave(r)
    PROVE  IInv'
  <1>0. TypeOK /\ TableInv /\ LeaseInv /\ RootInv
    BY DEF IInv
  <1>1. /\ stage[r] \in {"inside", "finished", "pinned"} /\ stage[r] \in Leased /\ Quiet /\ Unlease(r)
        /\ UNCHANGED <<table, pins, doomed, files>>
    BY DEF Leave, Leased
  <1>2. job[r] \in Jobs
    BY <1>0, <1>1, MineFacts
  <1>3. /\ stage' \in [Requests -> Stages] /\ job' \in [Requests -> Jobs \cup {None}]
        /\ uploads' \in Seq(Requests) /\ stage'[r] \in {"idle", "streaming"}
        /\ stage'[r] = "streaming" <=> stage[r] = "pinned"
        /\ stage'[r] = "streaming" => job'[r] \in Jobs /\ job'[r].root = job[r].root
        /\ \A q \in Requests \ {r} : stage'[q] = stage[q] /\ job'[q] = job[q]
    <2>1. CASE stage[r] = "pinned"
      <3>1. /\ stage' = [stage EXCEPT ![r] = "streaming"] /\ UNCHANGED uploads
            /\ job' = [job EXCEPT ![r].handle = None]
        BY <2>1 DEF Leave, GoTo
      <3>2. [job[r] EXCEPT !.handle = None] \in Jobs
        BY <1>2 DEF Jobs
      <3>3. job'[r] = [job[r] EXCEPT !.handle = None]
        BY <1>0, <3>1 DEF TypeOK
      <3>4. [job[r] EXCEPT !.handle = None].root = job[r].root
        BY <1>2 DEF Jobs
      <3>5. job' \in [Requests -> Jobs \cup {None}]
        BY <1>0, <3>1, <3>2 DEF TypeOK
      <3>6. QED BY <1>0, <2>1, <3>1, <3>2, <3>3, <3>4, <3>5 DEF TypeOK, Stages
    <2>2. CASE stage[r] # "pinned"
      <3>1. End(r)
        BY <2>2 DEF Leave
      <3>2. QED BY <1>0, <2>2, <3>1, EndFacts
    <2>3. QED BY <2>1, <2>2
  <1>4. stage'[r] \notin Leased /\ (stage'[r] # "idle" => job'[r] \in Jobs)
    BY <1>3 DEF Leased
  <1>5. /\ LeaseInv' /\ Loaded' = Loaded
        /\ \A h \in Loaded : /\ session'[h].id = session[h].id
                             /\ session'[h].root = session[h].root
                             /\ session'[h].generation = session[h].generation
    BY <1>0, <1>1, <1>3, <1>4, LeaseEnds
  <1>6. TypeOK'
    BY <1>0, <1>1, <1>3, UnleaseTypes, LeaveTypes, SameTypes DEF TypeOK, files
  <1>7. TableInv'
    BY <1>0, <1>1 DEF TableInv, Loaded
  <1>8. Quiet'
    BY <1>1, <1>3 DEF Quiet
  <1>9. \A q \in Requests : /\ stage'[q] \in Loading <=> stage[q] \in Loading
                            /\ stage[q] \in Loading => job'[q].root = job[q].root
    BY <1>1, <1>3 DEF Loading
  <1>10. RootInv'
    BY <1>0, <1>1, <1>5, <1>8, <1>9, FilesStay
  <1>11. QED BY <1>5, <1>6, <1>7, <1>10 DEF IInv

-----------------------------------------------------------------------------
(* Sessions are evicted and made *)

LEMMA PinFacts ==
    ASSUME PinsCounted, NEW root \in Roots
    PROVE  /\ pins[root] = Cardinality(Downloads(root)) /\ IsFiniteSet(Downloads(root))
           /\ pins[root] = 0 <=> Downloads(root) = {}
           /\ pins[root] \in Nat
  <1>1. IsFiniteSet(Downloads(root))
    BY RequestsAssumption, FS_Subset DEF Downloads
  <1>2. pins[root] = Cardinality(Downloads(root))
    BY DEF PinsCounted, Downloads, Loading
  <1>3. QED BY <1>1, <1>2, FS_EmptySet, FS_CardinalityType

\* The data root of an evicted session has no download, and no pointer names it when it goes.
LEMMA EvictedRoots ==
    ASSUME IInv, NEW t \in {table} \cup {RemoveAt(table, i) : i \in 1 .. Len(table)}, HasRoom(t)
    PROVE  /\ Evicted(t) \subseteq Made
           /\ \A h \in Range(t) : session[h].root \notin Evicted(t)
           /\ \A i \in Ids : pointer[i] # None => pointer[i] \notin Evicted(t)
           /\ \A q \in Requests : stage[q] \in Loading => job[q].root \notin Evicted(t)
           /\ \A h \in Loaded \ Range(t) : Persistent \/ session[h].root \in Evicted(t)
           /\ \A root \in doomed : root \notin Evicted(t)
  <1> USE DEF IInv
  <1>1. /\ Range(t) \subseteq Loaded
        /\ \A h \in Loaded \ Range(t) : Idle(h)
    BY RoomMade
  <1>2. PinsCounted /\ RootsAlive /\ PointersInv /\ DoomedPinned
    BY DEF RootInv
  <1>3. ASSUME NEW root \in Evicted(t)
        PROVE  \E h \in Loaded \ Range(t) : root = session[h].root /\ root \in OnDisk /\ ~Persistent
    BY <1>2 DEF Evicted, RootsAlive
  <1>4. ASSUME NEW root \in Evicted(t) PROVE root \in Roots /\ root \in Made /\ pins[root] = 0
    BY <1>1, <1>3, RootFacts DEF Idle
  <1>5. \A h \in Range(t) : session[h].root \notin Evicted(t)
    BY <1>1, <1>2, <1>3 DEF RootsAlive
  <1>6. \A i \in Ids : pointer[i] # None => pointer[i] \notin Evicted(t)
    BY <1>2, <1>3 DEF PointersInv
  <1>7. \A q \in Requests : stage[q] \in Loading => job[q].root \notin Evicted(t)
    <2>1. ASSUME NEW q \in Requests, stage[q] \in Loading, job[q].root \in Evicted(t) PROVE FALSE
      <3>1. q \in Downloads(job[q].root)
        BY <2>1 DEF Downloads
      <3>2. QED BY <1>2, <1>4, <2>1, <3>1, PinFacts
    <2>2. QED BY <2>1
  <1>8. \A h \in Loaded \ Range(t) : Persistent \/ session[h].root \in Evicted(t)
    BY DEF Evicted
  <1>9. \A root \in doomed : root \notin Evicted(t)
    BY <1>2, <1>4 DEF DoomedPinned
  <1>10. QED BY <1>4, <1>5, <1>6, <1>7, <1>8, <1>9

LEMMA LeaseFailsKeeps ==
    ASSUME IInv, UNCHANGED setup, NEW r \in Requests, LeaseFails(r)
    PROVE  IInv'
  <1>0. TypeOK /\ TableInv /\ LeaseInv /\ RootInv
    BY DEF IInv
  <1>1. PICK t \in {table} \cup {RemoveAt(table, i) : i \in 1 .. Len(table)} :
            /\ HasRoom(t) /\ table' = t
            /\ session' = [h \in Handles |-> IF h \in Unused(t) THEN None ELSE session[h]]
            /\ disk' \in {disk, DiskWithout(Evicted(t))}
    BY DEF LeaseFails
  <1>2. /\ stage[r] = "ready" /\ Quiet /\ End(r) /\ "storage" \in Faults
        /\ UNCHANGED <<pins, doomed, pointer, client>>
    BY DEF LeaseFails
  <1>3. /\ TableInv' /\ LeaseInv' /\ Loaded' = Range(t)
        /\ \A h \in Range(t) : session'[h] = session[h]
    BY <1>0, <1>1, <1>2, LeaseEvicts
  <1>4. t \in Seq(Handles) /\ Range(t) \subseteq Loaded
    BY <1>0, <1>1, RoomMade
  <1>5. /\ stage' \in [Requests -> Stages] /\ job' \in [Requests -> Jobs \cup {None}]
        /\ stage'[r] = "idle" /\ uploads' \in Seq(Requests)
        /\ \A q \in Requests \ {r} : stage'[q] = stage[q] /\ job'[q] = job[q]
    BY <1>0, <1>2, EndFacts
  <1>6. session' \in [Handles -> Sessions \cup {None}]
    BY <1>0, <1>1 DEF TypeOK
  <1>7. PICK gone \in {{}, Evicted(t)} : Shrinks(gone)
    BY <1>0, <1>1, EvictedRoots, WithoutShrinks, DiskStays
  <1>8. TypeOK'
    BY <1>0, <1>1, <1>2, <1>4, <1>5, <1>6, <1>7, SameTypes DEF TypeOK, client, Shrinks
  <1>9. Quiet'
    BY <1>2, <1>5 DEF Quiet
  <1>10. \A q \in Requests : /\ stage'[q] \in Loading <=> stage[q] \in Loading
                             /\ stage[q] \in Loading => job'[q].root = job[q].root
    BY <1>2, <1>5 DEF Loading
  <1>11. RootInv'
    BY <1>0, <1>1, <1>2, <1>3, <1>4, <1>7, <1>9, <1>10, EvictedRoots, FilesShrink
  <1>12. QED BY <1>3, <1>8, <1>11 DEF IInv

\* The types after a session was made; the caller says what is on the disk.
LEMMA InsertTypes ==
    ASSUME TypeOK, NEW r \in Requests, NEW t \in Seq(Handles), NEW h \in Handles,
           NEW i \in Ids, NEW root \in Roots, NEW generation \in 0 .. MaxGeneration,
           Insert(r, t, h, i, root, generation), job[r] \in Jobs
    PROVE  /\ table' \in Seq(Handles) /\ session' \in [Handles -> Sessions \cup {None}]
           /\ stage' \in [Requests -> Stages] /\ job' \in [Requests -> Jobs \cup {None}]
           /\ stage'[r] = "queued"
           /\ \A q \in Requests \ {r} : stage'[q] = stage[q] /\ job'[q] = job[q]
  <1>1. [id |-> i, root |-> root, generation |-> generation, active |-> 1, queue |-> <<r>>] \in Sessions
    BY DEF Sessions
  <1>2. session' \in [Handles -> Sessions \cup {None}]
    BY <1>1 DEF Insert, TypeOK
  <1>3. [job[r] EXCEPT !.handle = h] \in Jobs
    BY DEF Jobs
  <1>4. job' \in [Requests -> Jobs \cup {None}]
    BY <1>3 DEF Insert, TypeOK
  <1>5. table' \in Seq(Handles)
    BY DEF Insert
  <1>6. /\ stage' \in [Requests -> Stages] /\ stage'[r] = "queued"
        /\ \A q \in Requests \ {r} : stage'[q] = stage[q] /\ job'[q] = job[q]
    BY DEF Insert, GoTo, TypeOK, Stages, Leased
  <1>7. QED BY <1>2, <1>4, <1>5, <1>6

LEMMA ReloadKeeps ==
    ASSUME IInv, UNCHANGED setup, NEW r \in Requests, NEW h \in Handles, Reload(r, h)
    PROVE  IInv'
  <1>0. TypeOK /\ TableInv /\ LeaseInv /\ RootInv
    BY DEF IInv
  <1>1. PICK i, root : i = job[r].cookie /\ root = pointer[job[r].cookie]
    OBVIOUS
  <1>2. PICK t \in {table} \cup {RemoveAt(table, j) : j \in 1 .. Len(table)} :
            /\ HasRoom(t) /\ h \in Unused(t)
            /\ Insert(r, t, h, i, root, disk[root].generation)
    BY <1>1 DEF Reload
  <1>3. /\ stage[r] = "ready" /\ Quiet /\ Found(r) = {} /\ Persistent /\ i # None /\ root \in OnDisk
        /\ UNCHANGED <<uploads, pins, doomed, files, client>>
    BY <1>1 DEF Reload, Reopenable
  <1>4. job[r] \in Jobs /\ i \in Ids
    BY <1>0, <1>1, <1>3 DEF LeaseInv, Jobs
  <1>5. /\ root \in Roots /\ disk[root].generation \in 0 .. MaxGeneration
        /\ disk[root].id = i /\ root \notin doomed /\ pointer[i] = root
    <2>1. root \in Roots /\ disk[root].generation \in 0 .. MaxGeneration
      BY <1>0, <1>3, RootFacts
    <2>2. root # None
      BY <2>1, NoneAssumption, LimitsAssumption DEF Roots
    <2>3. QED BY <1>0, <1>1, <1>4, <2>1, <2>2 DEF RootInv, PointersInv
  <1>6. \A k \in Loaded : session[k].id # i
    BY <1>1, <1>3 DEF Found
  <1>7. t \in Seq(Handles) /\ Range(t) \subseteq Loaded
    BY <1>0, <1>2, RoomMade
  <1>8. /\ TableInv' /\ LeaseInv' /\ Loaded' = Range(t) \cup {h} /\ h \notin Range(t)
        /\ \A k \in Range(t) : session'[k] = session[k]
        /\ session'[h] \in Sessions /\ session'[h].id = i
        /\ session'[h].root = root /\ session'[h].generation = disk[root].generation
    BY <1>0, <1>2, <1>3, <1>4, <1>5, <1>6, <1>7, LeaseInserts
  <1>9. /\ table' \in Seq(Handles) /\ session' \in [Handles -> Sessions \cup {None}]
        /\ stage' \in [Requests -> Stages] /\ job' \in [Requests -> Jobs \cup {None}]
        /\ stage'[r] = "queued"
        /\ \A q \in Requests \ {r} : stage'[q] = stage[q] /\ job'[q] = job[q]
    BY <1>0, <1>2, <1>4, <1>5, <1>7, InsertTypes
  <1>10. TypeOK'
    BY <1>0, <1>3, <1>9, SameTypes DEF TypeOK, files, client
  <1>11. Building = {} /\ Building' = {} /\ disk' = disk /\ pointer' = pointer
         /\ Made' = Made /\ OnDisk' = OnDisk /\ Persistent' = Persistent /\ Faults' = Faults
    BY <1>3, <1>9 DEF Quiet, Building, files, Made, OnDisk, Persistent, Faults
  <1>12. PointersInv' /\ BuildInv'
    BY <1>0, <1>3, <1>11 DEF RootInv, PointersInv, BuildInv
  <1>13. \A q \in Requests : /\ stage'[q] \in Loading <=> stage[q] \in Loading
                             /\ stage[q] \in Loading => job'[q].root = job[q].root
    BY <1>3, <1>9 DEF Loading
  <1>14. RootsAlive'
    <2>1. \A k \in Loaded : session[k].root # root
      BY <1>0, <1>5, <1>6 DEF RootInv, RootsAlive
    <2>2. QED BY <1>0, <1>3, <1>5, <1>7, <1>8, <1>11, <1>13, <2>1 DEF RootInv, RootsAlive, Loading
  <1>15. PinsCounted'
    <2>1. \A x : {q \in Requests : stage[q] \in {"pinned", "streaming"} /\ job[q].root = x}'
               = {q \in Requests : stage[q] \in {"pinned", "streaming"} /\ job[q].root = x}
      BY <1>13 DEF Loading
    <2>2. QED BY <1>0, <1>3, <2>1 DEF RootInv, PinsCounted
  <1>16. DoomedPinned'
    BY <1>0, <1>3, <1>5, <1>7, <1>8 DEF RootInv, DoomedPinned
  <1>17. \A k \in Loaded : pointer[session[k].id] = session[k].root
    BY <1>0, <1>3, <1>11 DEF RootInv, PointerCurrent, Building, Holders
  <1>18. PointerCurrent'
    BY <1>0, <1>5, <1>7, <1>8, <1>11, <1>17 DEF RootInv, PointerCurrent
  <1>19. NoGarbage'
    <2> SUFFICES ASSUME Faults = {}, NEW x \in OnDisk
                 PROVE  \/ \E k \in Loaded' : session'[k].root = x
                        \/ x \in doomed
                        \/ pointer[disk[x].id] = x
      BY <1>3, <1>11 DEF NoGarbage
    <2>1. \/ \E k \in Loaded : session[k].root = x
          \/ x \in doomed
          \/ pointer[disk[x].id] = x
      BY <1>0, <1>11 DEF RootInv, NoGarbage, Building
    <2>2. ASSUME NEW k \in Loaded, session[k].root = x PROVE pointer[disk[x].id] = x
      BY <1>0, <1>17, <2>2 DEF RootInv, RootsAlive
    <2>3. QED BY <2>1, <2>2
  <1>20. QED
    BY <1>8, <1>10, <1>12, <1>14, <1>15, <1>16, <1>18, <1>19 DEF IInv, RootInv

\* A data root is made while those of gone are deleted.
LEMMA RootMade ==
    ASSUME TypeOK, NEW gone, gone \subseteq Made, NEW root \in Roots \ Made, NEW i \in Ids,
           NEW g \in 0 .. MaxGeneration,
           disk' = [DiskWithout(gone) EXCEPT ![root] = [id |-> i, generation |-> g, kept |-> TRUE]]
    PROVE  /\ disk' \in [Roots -> [id : Ids, generation : 0 .. MaxGeneration, kept : BOOLEAN] \cup {None}]
           /\ Made' = Made \cup {root} /\ OnDisk' = (OnDisk \ gone) \cup {root}
           /\ disk'[root].id = i /\ disk'[root].generation = g
           /\ \A x \in Made : disk'[x].id = disk[x].id /\ disk'[x].generation = disk[x].generation
  <1> DEFINE Records == [id : Ids, generation : 0 .. MaxGeneration, kept : BOOLEAN]
             new == [id |-> i, generation |-> g, kept |-> TRUE]
  <1>1. \A x \in Made : x \in Roots /\ disk[x] \in Records
    BY RootFacts
  <1>2. new \in Records /\ new.id = i /\ new.generation = g /\ new.kept = TRUE
    OBVIOUS
  <1>3. disk'[root] = new /\ \A x \in Roots \ {root} : disk'[x] = DiskWithout(gone)[x]
    BY DEF DiskWithout
  <1>4. \A x \in gone : /\ disk'[x] = [disk[x] EXCEPT !.kept = FALSE]
                        /\ disk'[x] \in Records /\ disk'[x].kept = FALSE
                        /\ disk'[x].id = disk[x].id /\ disk'[x].generation = disk[x].generation
    BY <1>1, <1>3 DEF DiskWithout
  <1>5. \A x \in Roots \ (gone \cup {root}) : disk'[x] = disk[x]
    BY <1>3 DEF DiskWithout
  <1>6. \A x \in Roots : disk'[x] \in Records \cup {None}
    BY <1>2, <1>3, <1>4, <1>5 DEF TypeOK
  <1>7. disk' \in [Roots -> Records \cup {None}]
    BY <1>6 DEF DiskWithout
  <1>8. None \notin Records
    <2>1. Ids \subseteq Nat /\ 0 .. MaxGeneration \subseteq Nat
      BY LimitsAssumption, RootFacts DEF Ids
    <2>2. QED BY <2>1, NoneAssumption
  <1> HIDE DEF Records, new
  <1>9. \A x \in Roots : disk'[x] # None <=> x \in Made \cup {root}
    <2>1. ASSUME NEW x \in gone PROVE disk'[x] # None /\ x \in Made
      BY <1>4, <1>8
    <2>2. disk'[root] # None
      BY <1>2, <1>3, <1>8
    <2>3. ASSUME NEW x \in Roots \ (gone \cup {root})
          PROVE  disk'[x] # None <=> x \in Made
      BY <1>5 DEF Made
    <2>4. QED BY <2>1, <2>2, <2>3
  <1>10. Made' = Made \cup {root}
    BY <1>1, <1>9 DEF Made
  <1>11. \A x \in Made \cup {root} : disk'[x].kept <=> x \in (OnDisk \ gone) \cup {root}
    BY <1>1, <1>2, <1>3, <1>4, <1>5 DEF OnDisk
  <1>12. OnDisk' = (OnDisk \ gone) \cup {root}
    BY <1>10, <1>11 DEF OnDisk
  <1>13. disk'[root].id = i /\ disk'[root].generation = g
    BY <1>2, <1>3
  <1>14. \A x \in Made : disk'[x].id = disk[x].id /\ disk'[x].generation = disk[x].generation
    BY <1>1, <1>4, <1>5
  <1>15. QED BY <1>7, <1>10, <1>12, <1>13, <1>14 DEF Records

LEMMA CreateKeeps ==
    ASSUME IInv, UNCHANGED setup, NEW r \in Requests, NEW h \in Handles, NEW i \in Ids,
           NEW root \in Roots, Create(r, h, i, root)
    PROVE  IInv'
  <1>0. TypeOK /\ TableInv /\ LeaseInv /\ RootInv
    BY DEF IInv
  <1>1. PICK t \in {table} \cup {RemoveAt(table, j) : j \in 1 .. Len(table)} :
            /\ HasRoom(t) /\ h \in Unused(t) /\ Insert(r, t, h, i, root, 0)
            /\ disk' = [DiskWithout(Evicted(t)) EXCEPT
                           ![root] = [id |-> i, generation |-> 0, kept |-> TRUE]]
    BY DEF Create
  <1>2. /\ stage[r] = "ready" /\ Quiet
        /\ pointer' = IF Persistent THEN [pointer EXCEPT ![i] = root] ELSE pointer
        /\ UNCHANGED <<uploads, pins, doomed, client>>
    BY DEF Create
  <1>3. root \notin Made /\ \A x \in Made : disk[x].id # i
    BY DEF Create, NewRoot, NewId
  <1>4. job[r] \in Jobs /\ 0 \in 0 .. MaxGeneration
    BY <1>0, <1>2, RootFacts DEF LeaseInv
  <1>5. \A k \in Loaded : session[k].root \in OnDisk /\ session[k].root \in Made
                          /\ disk[session[k].root].id = session[k].id
    BY <1>0, RootFacts DEF RootInv, RootsAlive
  <1>6. \A k \in Loaded : session[k].id # i /\ session[k].root # root
    BY <1>3, <1>5
  <1>7. t \in Seq(Handles) /\ Range(t) \subseteq Loaded
    BY <1>0, <1>1, RoomMade
  <1>8. /\ TableInv' /\ LeaseInv' /\ Loaded' = Range(t) \cup {h} /\ h \notin Range(t)
        /\ \A k \in Range(t) : session'[k] = session[k]
        /\ session'[h] \in Sessions /\ session'[h].id = i
        /\ session'[h].root = root /\ session'[h].generation = 0
    BY <1>0, <1>1, <1>2, <1>4, <1>6, <1>7, LeaseInserts
  <1>9. /\ table' \in Seq(Handles) /\ session' \in [Handles -> Sessions \cup {None}]
        /\ stage' \in [Requests -> Stages] /\ job' \in [Requests -> Jobs \cup {None}]
        /\ stage'[r] = "queued"
        /\ \A q \in Requests \ {r} : stage'[q] = stage[q] /\ job'[q] = job[q]
    BY <1>0, <1>1, <1>4, <1>7, InsertTypes
  <1>10. PICK gone : gone = Evicted(t)
    OBVIOUS
  <1>11. /\ gone \subseteq Made
         /\ \A k \in Range(t) : session[k].root \notin gone
         /\ \A j \in Ids : pointer[j] # None => pointer[j] \notin gone
         /\ \A q \in Requests : stage[q] \in Loading => job[q].root \notin gone
         /\ \A k \in Loaded \ Range(t) : Persistent \/ session[k].root \in gone
         /\ \A x \in doomed : x \notin gone
    BY <1>1, <1>10, EvictedRoots
  <1>12. /\ disk' \in [Roots -> [id : Ids, generation : 0 .. MaxGeneration, kept : BOOLEAN] \cup {None}]
         /\ OnDisk' = (OnDisk \ gone) \cup {root}
         /\ disk'[root].id = i /\ disk'[root].generation = 0
         /\ \A x \in Made : disk'[x].id = disk[x].id /\ disk'[x].generation = disk[x].generation
    <2>1. gone \subseteq Made /\ root \in Roots \ Made /\ 0 \in 0 .. MaxGeneration
      BY <1>3, <1>4, <1>11
    <2>2. disk' = [DiskWithout(gone) EXCEPT ![root] = [id |-> i, generation |-> 0, kept |-> TRUE]]
      BY <1>1, <1>10
    <2>3. QED BY <1>0, <2>1, <2>2, RootMade
  <1>13. pointer' \in [Ids -> Roots \cup {None}] /\ \A j \in Ids \ {i} : pointer'[j] = pointer[j]
    BY <1>0, <1>2 DEF TypeOK
  <1>14. Persistent => pointer'[i] = root
    BY <1>0, <1>2 DEF TypeOK
  <1>15. pointer[i] = None
    BY <1>0, <1>3, RootFacts DEF RootInv, PointersInv
  <1>16. TypeOK'
    BY <1>0, <1>2, <1>9, <1>12, <1>13, SameTypes DEF TypeOK, client
  <1>17. Building = {} /\ Building' = {} /\ Persistent' = Persistent /\ Faults' = Faults
    BY <1>2, <1>9 DEF Quiet, Building, Persistent, Faults
  <1>18. root \notin doomed /\ pins[root] = 0
    <2>1. Downloads(root) = {}
      BY <1>0, <1>3, RootFacts DEF Downloads, RootInv, RootsAlive, Loading
    <2>2. QED BY <1>0, <2>1, PinFacts DEF RootInv, DoomedPinned
  <1>19. \A q \in Requests : /\ stage'[q] \in Loading <=> stage[q] \in Loading
                             /\ stage[q] \in Loading => job'[q].root = job[q].root
    BY <1>2, <1>9 DEF Loading
  <1>20. PointersInv'
    <2> SUFFICES ASSUME NEW j \in Ids, pointer'[j] # None
                 PROVE  /\ Persistent /\ pointer'[j] \in OnDisk' \ doomed
                        /\ disk'[pointer'[j]].id = j
      BY <1>2, <1>17 DEF PointersInv
    <2>1. CASE j = i
      BY <1>2, <1>12, <1>14, <1>15, <1>18, <2>1
    <2>2. CASE j # i
      <3>1. pointer'[j] = pointer[j] /\ pointer[j] # None
        BY <1>13, <2>2
      <3>2. pointer[j] \in OnDisk \ doomed /\ disk[pointer[j]].id = j /\ Persistent
        BY <1>0, <3>1 DEF RootInv, PointersInv
      <3>3. pointer[j] \in Made
        BY <1>0, <3>2, RootFacts
      <3>4. QED BY <1>11, <1>12, <3>1, <3>2, <3>3
    <2>3. QED BY <2>1, <2>2
  <1>21. BuildInv'
    BY <1>17 DEF BuildInv
  <1>22. RootsAlive'
    <2>1. \A k \in Loaded' : /\ session'[k].root \in OnDisk'
                             /\ disk'[session'[k].root].id = session'[k].id
      BY <1>5, <1>7, <1>8, <1>11, <1>12
    <2>2. \A k, l \in Loaded' : session'[k].root = session'[l].root => k = l
      BY <1>0, <1>6, <1>7, <1>8 DEF RootInv, RootsAlive
    <2>3. \A q \in Requests : stage'[q] \in Loading => job'[q].root \in OnDisk'
      BY <1>0, <1>11, <1>12, <1>19 DEF RootInv, RootsAlive, Loading
    <2>4. QED BY <2>1, <2>2, <2>3 DEF RootsAlive, Loading
  <1>23. PinsCounted'
    <2>1. \A x : {q \in Requests : stage[q] \in {"pinned", "streaming"} /\ job[q].root = x}'
               = {q \in Requests : stage[q] \in {"pinned", "streaming"} /\ job[q].root = x}
      BY <1>19 DEF Loading
    <2>2. QED BY <1>0, <1>2, <2>1 DEF RootInv, PinsCounted
  <1>24. DoomedPinned'
    BY <1>0, <1>2, <1>7, <1>8, <1>18 DEF RootInv, DoomedPinned
  <1>25. Persistent => \A k \in Loaded : pointer[session[k].id] = session[k].root
    BY <1>0, <1>17 DEF RootInv, PointerCurrent, Building, Holders
  <1>26. \A k \in Loaded : session[k].id \in Ids
    BY <1>0, LeaseFacts DEF Sessions
  <1>27. PointerCurrent'
    <2> SUFFICES ASSUME Persistent, NEW k \in Loaded'
                 PROVE  /\ disk'[session'[k].root].generation = session'[k].generation
                        /\ pointer'[session'[k].id] = session'[k].root
      BY <1>17 DEF PointerCurrent
    <2>1. CASE k = h
      BY <1>8, <1>12, <1>14, <2>1
    <2>2. CASE k # h
      <3>1. k \in Range(t) /\ k \in Loaded /\ session'[k] = session[k]
        BY <1>7, <1>8, <2>2
      <3>2. disk[session[k].root].generation = session[k].generation
        BY <1>0, <3>1 DEF RootInv, PointerCurrent
      <3>3. QED BY <1>5, <1>6, <1>12, <1>13, <1>25, <1>26, <3>1, <3>2
    <2>3. QED BY <2>1, <2>2
  <1>28. NoGarbage'
    <2> SUFFICES ASSUME Faults = {}, NEW x \in OnDisk'
                 PROVE  \/ \E k \in Loaded' : session'[k].root = x
                        \/ x \in doomed
                        \/ Persistent /\ pointer'[disk'[x].id] = x
      BY <1>2, <1>17 DEF NoGarbage
    <2>1. CASE x = root
      BY <1>8, <2>1
    <2>2. CASE x # root
      <3>1. x \in OnDisk /\ x \notin gone /\ x \in Made /\ disk'[x].id = disk[x].id
        BY <1>0, <1>12, <2>2, RootFacts
      <3>2. \/ \E k \in Loaded : session[k].root = x
            \/ x \in doomed
            \/ Persistent /\ pointer[disk[x].id] = x
        BY <1>0, <1>17, <3>1 DEF RootInv, NoGarbage, Building
      <3>3. ASSUME NEW k \in Loaded \ Range(t), session[k].root = x
            PROVE  Persistent /\ pointer[disk[x].id] = x
        BY <1>5, <1>11, <1>25, <3>1, <3>3
      <3>4. disk[x].id \in Ids /\ disk[x].id # i
        BY <1>0, <1>3, <3>1, RootFacts
      <3>5. QED BY <1>8, <1>13, <3>1, <3>2, <3>3, <3>4
    <2>3. QED BY <2>1, <2>2
  <1>29. QED
    BY <1>8, <1>16, <1>20, <1>21, <1>22, <1>23, <1>24, <1>27, <1>28 DEF IInv, RootInv

-----------------------------------------------------------------------------
(* Under the lease *)

\* The session k, its data root and its project, as the request r that is in it finds them.
LEMMA InsideFacts ==
    ASSUME IInv, NEW r \in Requests, stage[r] \in Leased
    PROVE  \E k \in Loaded : /\ k = job[r].handle /\ Mine(r) = session[k] /\ k \in Handles
                             /\ session[k] \in Sessions /\ job[r] \in Jobs
                             /\ session[k].root \in OnDisk /\ session[k].root \in Roots
                             /\ session[k].root \in Made /\ session[k].id \in Ids
                             /\ disk[session[k].root].id = session[k].id
                             /\ session[k].generation \in 0 .. MaxGeneration
                             /\ \A h \in Loaded : session[h].root = session[k].root => h = k
                             /\ \A h \in Loaded : session[h].id = session[k].id => h = k
                             /\ MaxGeneration \in Nat
  <1>1. TypeOK /\ LeaseInv /\ RootInv
    BY DEF IInv
  <1>2. /\ job[r] \in Jobs /\ job[r].handle \in Loaded /\ Mine(r) = session[job[r].handle]
        /\ Mine(r) \in Sessions /\ job[r].handle \in Handles
    BY <1>1, MineFacts, HandlesLoaded DEF Mine
  <1>3. /\ Mine(r).root \in OnDisk /\ disk[Mine(r).root].id = Mine(r).id
        /\ \A h \in Loaded : session[h].root = Mine(r).root => h = job[r].handle
    BY <1>1, <1>2 DEF RootInv, RootsAlive
  <1>4. /\ Mine(r).id \in Ids /\ Mine(r).generation \in 0 .. MaxGeneration
        /\ Mine(r).root \in Roots /\ Mine(r).root \in Made /\ MaxGeneration \in Nat
    BY <1>1, <1>2, <1>3, RootFacts DEF Sessions
  <1>5. \A h \in Loaded : session[h].id = Mine(r).id => h = job[r].handle
    BY <1>1, <1>2 DEF LeaseInv
  <1>6. QED BY <1>2, <1>3, <1>4, <1>5

\* The session k gets another data root or generation.
LEMMA SessionMoves ==
    ASSUME TypeOK, LeaseInv, NEW k \in Loaded, NEW root \in Roots, NEW g \in 0 .. MaxGeneration,
           UNCHANGED table,
           session' = [session EXCEPT ![k] = [session[k] EXCEPT !.root = root, !.generation = g]]
    PROVE  /\ session' \in [Handles -> Sessions \cup {None}]
           /\ session'[k].root = root /\ session'[k].generation = g
           /\ Loaded' = Loaded
           /\ \A h \in Loaded \ {k} : session'[h] = session[h]
           /\ \A h \in Loaded : /\ session'[h] \in Sessions /\ session'[h].id = session[h].id
                                /\ session'[h].active = session[h].active
                                /\ session'[h].queue = session[h].queue
  <1> DEFINE s == [session[k] EXCEPT !.root = root, !.generation = g]
  <1>1. k \in Handles /\ Loaded \subseteq Handles /\ session[k] \in Sessions
    BY HandlesLoaded DEF LeaseInv
  <1>2. /\ s \in Sessions /\ s.id = session[k].id /\ s.active = session[k].active
        /\ s.queue = session[k].queue /\ s.root = root /\ s.generation = g
    BY <1>1 DEF Sessions
  <1> HIDE DEF s
  <1>3. session' = [session EXCEPT ![k] = s]
    BY DEF s
  <1>4. session' \in [Handles -> Sessions \cup {None}]
    BY <1>1, <1>2, <1>3 DEF TypeOK
  <1>5. session'[k] = s /\ \A h \in Loaded \ {k} : session'[h] = session[h]
    BY <1>1, <1>3 DEF TypeOK
  <1>6. Loaded' = Loaded
    BY DEF Loaded
  <1>7. QED BY <1>2, <1>4, <1>5, <1>6 DEF LeaseInv

LEMMA SaveKeeps ==
    ASSUME IInv, UNCHANGED setup, NEW r \in Requests, Save(r)
    PROVE  IInv'
  <1>0. TypeOK /\ TableInv /\ LeaseInv /\ RootInv
    BY DEF IInv
  <1>1. /\ stage[r] = "inside" /\ stage[r] \in Leased /\ Quiet
        /\ UNCHANGED <<table, stage, job, uploads, pins, doomed, pointer, client>>
    BY DEF Save, Leased
  <1>2. PICK k \in Loaded : /\ k = job[r].handle /\ Mine(r) = session[k] /\ k \in Handles
                            /\ session[k] \in Sessions
                            /\ session[k].root \in OnDisk /\ session[k].root \in Roots
                            /\ session[k].root \in Made
                            /\ session[k].generation \in 0 .. MaxGeneration
                            /\ \A h \in Loaded : session[h].root = session[k].root => h = k
                            /\ MaxGeneration \in Nat
    BY <1>1, InsideFacts
  <1>3. PICK root, next : root = session[k].root /\ next = session[k].generation + 1
    OBVIOUS
  <1>4. next \in 0 .. MaxGeneration
    BY <1>2, <1>3 DEF Save
  <1>5. session' = [session EXCEPT ![k] = [session[k] EXCEPT !.root = root, !.generation = next]]
    <2>1. session' = [session EXCEPT ![k].generation = next]
      BY <1>2, <1>3 DEF Save
    <2>2. [session[k] EXCEPT !.root = root, !.generation = next] = [session[k] EXCEPT !.generation = next]
      BY <1>2, <1>3 DEF Sessions
    <2>3. QED BY <2>1, <2>2
  <1>6. /\ session' \in [Handles -> Sessions \cup {None}]
        /\ session'[k].root = root /\ session'[k].generation = next
        /\ Loaded' = Loaded
        /\ \A h \in Loaded \ {k} : session'[h] = session[h]
        /\ \A h \in Loaded : /\ session'[h] \in Sessions /\ session'[h].id = session[h].id
                             /\ session'[h].active = session[h].active
                             /\ session'[h].queue = session[h].queue
    <2>1. root \in Roots /\ UNCHANGED table
      BY <1>1, <1>2, <1>3
    <2>2. QED BY <1>0, <1>4, <1>5, <2>1, SessionMoves
  <1>7. disk' = [disk EXCEPT ![root].generation = next]
    BY <1>2, <1>3 DEF Save
  <1>8. /\ disk' \in [Roots -> [id : Ids, generation : 0 .. MaxGeneration, kept : BOOLEAN] \cup {None}]
        /\ Made' = Made /\ OnDisk' = OnDisk
        /\ disk'[root].generation = next
        /\ \A x \in Roots \ {root} : disk'[x] = disk[x]
        /\ \A x \in Made : disk'[x].id = disk[x].id
    <2> DEFINE Records == [id : Ids, generation : 0 .. MaxGeneration, kept : BOOLEAN]
               d == [disk[root] EXCEPT !.generation = next]
    <2>1. disk[root] \in Records /\ root \in Roots /\ root \in Made
      BY <1>0, <1>2, <1>3, RootFacts
    <2>2. d \in Records /\ d.id = disk[root].id /\ d.kept = disk[root].kept /\ d.generation = next
      BY <1>4, <2>1
    <2>3. disk'[root] = d /\ \A x \in Roots \ {root} : disk'[x] = disk[x]
      BY <1>0, <1>7, <2>1 DEF TypeOK
    <2>4. disk' \in [Roots -> Records \cup {None}]
      BY <1>0, <1>7, <2>1, <2>2 DEF TypeOK
    <2>5. None \notin Records
      <3>1. Ids \subseteq Nat /\ 0 .. MaxGeneration \subseteq Nat
        BY <1>2, LimitsAssumption DEF Ids
      <3>2. QED BY <3>1, NoneAssumption
    <2>6. Made' = Made
      <3>1. disk'[root] # None /\ disk[root] # None
        BY <2>1, <2>2, <2>3, <2>5
      <3>2. QED BY <2>3, <3>1 DEF Made
    <2>7. OnDisk' = OnDisk
      BY <1>0, <2>1, <2>2, <2>3, <2>6, RootFacts DEF OnDisk
    <2>8. QED BY <1>0, <2>2, <2>3, <2>4, <2>6, <2>7, RootFacts
  <1>9. TypeOK'
    BY <1>0, <1>1, <1>6, <1>8, SameTypes DEF TypeOK, client
  <1>10. TableInv'
    BY <1>0, <1>1, <1>6 DEF TableInv
  <1>11. LeaseInv'
    <2>1. stage'[r] # "idle" => job'[r] \in Jobs
      BY <1>0, <1>1 DEF LeaseInv
    <2>2. QED BY <1>0, <1>1, <1>6, <2>1, LeaseStays
  <1>12. Building = {} /\ Building' = {} /\ Persistent' = Persistent /\ Faults' = Faults
    BY <1>1 DEF Quiet, Building, Persistent, Faults
  <1>13. OnDisk \subseteq Made /\ Made \subseteq Roots
    BY <1>0, RootFacts
  <1>14. PointersInv' /\ BuildInv'
    BY <1>0, <1>1, <1>8, <1>12, <1>13 DEF RootInv, PointersInv, BuildInv
  <1>15. \A h \in Loaded : session'[h].root = session[h].root
    BY <1>3, <1>6
  <1>16. RootsAlive'
    BY <1>0, <1>1, <1>6, <1>8, <1>13, <1>15 DEF RootInv, RootsAlive
  <1>17. PinsCounted' /\ DoomedPinned'
    BY <1>0, <1>1, <1>6, <1>15 DEF RootInv, PinsCounted, DoomedPinned
  <1>18. PointerCurrent'
    <2> SUFFICES ASSUME Persistent, NEW h \in Loaded
                 PROVE  /\ disk'[session'[h].root].generation = session'[h].generation
                        /\ pointer[session'[h].id] = session'[h].root
      BY <1>1, <1>6, <1>12 DEF PointerCurrent
    <2>1. pointer[session[h].id] = session[h].root
      BY <1>0, <1>12 DEF RootInv, PointerCurrent, Building, Holders
    <2>2. CASE h = k
      BY <1>6, <1>8, <1>15, <2>1, <2>2
    <2>3. CASE h # k
      <3>1. session[h].root # root /\ session[h].root \in Roots
        BY <1>0, <1>2, <1>3, <1>13, <2>3 DEF RootInv, RootsAlive
      <3>2. QED BY <1>0, <1>6, <1>8, <2>1, <2>3, <3>1 DEF RootInv, PointerCurrent
    <2>4. QED BY <2>2, <2>3
  <1>19. NoGarbage'
    BY <1>0, <1>1, <1>6, <1>8, <1>12, <1>13, <1>15 DEF RootInv, NoGarbage, Building
  <1>20. QED
    BY <1>9, <1>10, <1>11, <1>14, <1>16, <1>17, <1>18, <1>19 DEF IInv, RootInv

LEMMA PinKeeps ==
    ASSUME IInv, UNCHANGED setup, NEW r \in Requests, Pin(r)
    PROVE  IInv'
  <1>0. TypeOK /\ TableInv /\ LeaseInv /\ RootInv
    BY DEF IInv
  <1>1. /\ stage[r] = "inside" /\ stage[r] \in Leased /\ Quiet
        /\ UNCHANGED <<table, session, uploads, doomed, files, client>>
    BY DEF Pin, Leased
  <1>2. PICK k \in Loaded : /\ k = job[r].handle /\ Mine(r) = session[k] /\ job[r] \in Jobs
                            /\ session[k].root \in OnDisk /\ session[k].root \in Roots
    BY <1>1, InsideFacts
  <1>3. PICK root \in Roots : root = session[k].root
    BY <1>2
  <1>4. pins' = [pins EXCEPT ![root] = @ + 1] /\ job' = [job EXCEPT ![r].root = root]
        /\ stage' = [stage EXCEPT ![r] = "pinned"]
    BY <1>2, <1>3 DEF Pin, GoTo
  <1>5. /\ pins' \in [Roots -> Nat] /\ pins'[root] = pins[root] + 1
        /\ \A x \in Roots \ {root} : pins'[x] = pins[x]
    BY <1>0, <1>4 DEF TypeOK
  <1>6. /\ job'[r] \in Jobs /\ job'[r].handle = job[r].handle /\ job'[r].root = root
        /\ job' \in [Requests -> Jobs \cup {None}]
        /\ stage' \in [Requests -> Stages] /\ stage'[r] = "pinned"
        /\ \A q \in Requests \ {r} : stage'[q] = stage[q] /\ job'[q] = job[q]
    <2>1. /\ [job[r] EXCEPT !.root = root] \in Jobs
          /\ [job[r] EXCEPT !.root = root].handle = job[r].handle
          /\ [job[r] EXCEPT !.root = root].root = root
      BY <1>2 DEF Jobs
    <2>2. QED BY <1>0, <1>4, <2>1 DEF TypeOK, Stages, Leased
  <1>7. TypeOK'
    BY <1>0, <1>1, <1>5, <1>6, SameTypes DEF TypeOK, client, files
  <1>8. TableInv' /\ Loaded' = Loaded
    BY <1>0, <1>1 DEF TableInv, Loaded
  <1>9. LeaseInv'
    <2>1. \A h \in Loaded : session'[h] \in Sessions
      BY <1>0, <1>1 DEF LeaseInv
    <2>2. stage'[r] \in Leased /\ stage[r] # "queued"
      BY <1>1, <1>6 DEF Leased
    <2>3. QED BY <1>0, <1>1, <1>6, <1>8, <2>1, <2>2, LeaseStays
  <1>10. /\ Building = {} /\ Building' = {} /\ Persistent' = Persistent /\ Faults' = Faults
         /\ Made' = Made /\ OnDisk' = OnDisk
    BY <1>1, <1>6 DEF Quiet, Building, Persistent, Faults, Made, OnDisk, files
  <1>11. PointersInv' /\ BuildInv'
    BY <1>0, <1>1, <1>10 DEF RootInv, PointersInv, BuildInv, files
  <1>12. RootsAlive'
    BY <1>0, <1>1, <1>2, <1>3, <1>6, <1>8, <1>10 DEF RootInv, RootsAlive, files
  <1>13. PinsCounted'
    <2>1. \A x : {q \in Requests : stage[q] \in {"pinned", "streaming"} /\ job[q].root = x}' =
              IF x = root THEN Downloads(x) \cup {r} ELSE Downloads(x)
      BY <1>1, <1>6 DEF Downloads, Loading
    <2>2. r \notin Downloads(root)
      BY <1>1 DEF Downloads, Loading
    <2>3. Cardinality(Downloads(root) \cup {r}) = Cardinality(Downloads(root)) + 1
      BY <1>0, <2>2, PinFacts, FS_AddElement DEF RootInv
    <2>4. \A x \in Roots : pins[x] = Cardinality(Downloads(x))
      BY <1>0, PinFacts DEF RootInv
    <2>5. \A x \in Roots : pins'[x] = Cardinality(IF x = root THEN Downloads(x) \cup {r} ELSE Downloads(x))
      BY <1>5, <2>3, <2>4
    <2>6. QED BY <2>1, <2>5 DEF PinsCounted
  <1>14. DoomedPinned'
    <2>1. \A x \in Roots : pins[x] > 0 => pins'[x] > 0
      <3>1. \A x \in Roots : pins[x] \in Nat
        BY <1>0, PinFacts DEF RootInv
      <3>2. QED BY <1>5, <3>1
    <2>2. QED BY <1>0, <1>1, <1>8, <2>1 DEF RootInv, DoomedPinned, TypeOK
  <1>15. PointerCurrent'
    BY <1>0, <1>1, <1>8, <1>10 DEF RootInv, PointerCurrent, files, Building, Holders
  <1>16. NoGarbage'
    BY <1>0, <1>1, <1>8, <1>10 DEF RootInv, NoGarbage, Building, files
  <1>17. QED
    BY <1>7, <1>8, <1>9, <1>11, <1>12, <1>13, <1>14, <1>15, <1>16 DEF IInv, RootInv

-----------------------------------------------------------------------------
(* A replacement is built, published and swapped in *)

\* What the session names stays as it is, and the request of a replacement goes on.
LEMMA ReplaceTypes ==
    ASSUME TypeOK, LeaseInv, NEW r \in Requests, job[r] \in Jobs, stage[r] \in Leased,
           NEW to \in {"built", "published", "finished"}, NEW root \in Roots \cup {None},
           stage' = [stage EXCEPT ![r] = to], job' = [job EXCEPT ![r] = [job[r] EXCEPT !.root = root]]
    PROVE  /\ stage' \in [Requests -> Stages] /\ job' \in [Requests -> Jobs \cup {None}]
           /\ stage'[r] = to /\ to \in Leased /\ to \notin Loading
           /\ job'[r] \in Jobs /\ job'[r].handle = job[r].handle /\ job'[r].root = root
           /\ job'[r].kind = job[r].kind
           /\ \A q \in Requests \ {r} : stage'[q] = stage[q] /\ job'[q] = job[q]
  <1>1. /\ [job[r] EXCEPT !.root = root] \in Jobs
        /\ [job[r] EXCEPT !.root = root].handle = job[r].handle
        /\ [job[r] EXCEPT !.root = root].root = root
        /\ [job[r] EXCEPT !.root = root].kind = job[r].kind
    BY DEF Jobs
  <1>2. QED BY <1>1 DEF TypeOK, Stages, Leased, Loading

\* The same when only its stage changes.
LEMMA StageTypes ==
    ASSUME TypeOK, LeaseInv, NEW r \in Requests, stage[r] \in Leased,
           NEW to \in {"published", "finished"},
           stage' = [stage EXCEPT ![r] = to], UNCHANGED job
    PROVE  /\ stage' \in [Requests -> Stages]
           /\ stage'[r] = to /\ to \in Leased /\ to \notin Loading
           /\ job[r] \in Jobs
           /\ \A q \in Requests \ {r} : stage'[q] = stage[q] /\ job'[q] = job[q]
  <1>1. job[r] \in Jobs
    BY MineFacts
  <1>2. QED BY <1>1 DEF TypeOK, Stages, Leased, Loading

\* Downloads that go on keep their pins.
LEMMA PinsStay ==
    ASSUME PinsCounted, UNCHANGED pins,
           \A q \in Requests : /\ stage'[q] \in Loading <=> stage[q] \in Loading
                               /\ stage[q] \in Loading => job'[q].root = job[q].root
    PROVE  PinsCounted'
  <1>1. \A x : {q \in Requests : stage[q] \in {"pinned", "streaming"} /\ job[q].root = x}'
             = {q \in Requests : stage[q] \in {"pinned", "streaming"} /\ job[q].root = x}
    BY DEF Loading
  <1>2. QED BY <1>1 DEF PinsCounted

\* A data root that is not made has no download.
LEMMA NewRootFree ==
    ASSUME IInv, NEW root \in Roots \ Made
    PROVE  pins[root] = 0 /\ root \notin doomed
  <1>0. TypeOK /\ RootInv
    BY DEF IInv
  <1>1. Downloads(root) = {}
    BY <1>0, RootFacts DEF Downloads, RootInv, RootsAlive, Loading
  <1>2. QED BY <1>0, <1>1, PinFacts DEF RootInv, DoomedPinned

LEMMA BuildKeeps ==
    ASSUME IInv, UNCHANGED setup, NEW r \in Requests, NEW root \in Roots, Build(r, root)
    PROVE  IInv'
  <1>0. TypeOK /\ TableInv /\ LeaseInv /\ RootInv
    BY DEF IInv
  <1>1. /\ stage[r] = "inside" /\ stage[r] \in Leased /\ Quiet
        /\ UNCHANGED <<table, session, uploads, pins, doomed, pointer, client>>
        /\ stage' = [stage EXCEPT ![r] = "built"]
        /\ root \notin Made
    BY DEF Build, Leased, GoTo, NewRoot
  <1>2. PICK k \in Loaded : /\ k = job[r].handle /\ Mine(r) = session[k] /\ job[r] \in Jobs
                            /\ session[k].id \in Ids
                            /\ session[k].generation \in 0 .. MaxGeneration
                            /\ MaxGeneration \in Nat
    BY <1>1, InsideFacts
  <1>3. PICK next : next = session[k].generation + 1
    OBVIOUS
  <1>4. /\ next \in 0 .. MaxGeneration
        /\ disk' = [disk EXCEPT ![root] = [id |-> session[k].id, generation |-> next, kept |-> TRUE]]
        /\ job' = [job EXCEPT ![r] = [job[r] EXCEPT !.root = root]]
    BY <1>2, <1>3 DEF Build
  <1>5. /\ stage' \in [Requests -> Stages] /\ job' \in [Requests -> Jobs \cup {None}]
        /\ stage'[r] = "built"
        /\ job'[r] \in Jobs /\ job'[r].handle = k /\ job'[r].root = root
        /\ \A q \in Requests \ {r} : stage'[q] = stage[q] /\ job'[q] = job[q]
    BY <1>0, <1>1, <1>2, <1>4, ReplaceTypes
  <1>6. /\ disk' \in [Roots -> [id : Ids, generation : 0 .. MaxGeneration, kept : BOOLEAN] \cup {None}]
        /\ OnDisk' = OnDisk \cup {root}
        /\ disk'[root].id = session[k].id /\ disk'[root].generation = next
        /\ \A x \in Made : disk'[x].id = disk[x].id /\ disk'[x].generation = disk[x].generation
    <2>1. disk = DiskWithout({})
      BY <1>0 DEF TypeOK, DiskWithout
    <2>2. QED BY <1>0, <1>1, <1>2, <1>4, <2>1, RootMade
  <1>7. TypeOK'
    BY <1>0, <1>1, <1>5, <1>6, SameTypes DEF TypeOK, client
  <1>8. TableInv' /\ Loaded' = Loaded
    BY <1>0, <1>1 DEF TableInv, Loaded
  <1>9. LeaseInv'
    <2>1. \A h \in Loaded : session'[h] \in Sessions
      BY <1>0, <1>1 DEF LeaseInv
    <2>2. stage'[r] \in Leased /\ stage[r] # "queued"
      BY <1>1, <1>5 DEF Leased
    <2>3. QED BY <1>0, <1>1, <1>2, <1>5, <1>8, <2>1, <2>2, LeaseStays
  <1>10. /\ Building = {} /\ Building' = {r} /\ Persistent' = Persistent /\ Faults' = Faults
    BY <1>1, <1>5 DEF Quiet, Building, Persistent, Faults
  <1>11. OnDisk \subseteq Made /\ Made \subseteq Roots
    BY <1>0, RootFacts
  <1>12. PointersInv'
    BY <1>0, <1>1, <1>6, <1>10, <1>11 DEF RootInv, PointersInv
  <1>13. BuildInv'
    <2>1. pins[root] = 0
      BY <1>1, NewRootFree
    <2>2. \A h \in Loaded : session[h].root # root
      BY <1>0, <1>1, <1>11 DEF RootInv, RootsAlive
    <2>3. \A i \in Ids : pointer[i] # root
      <3>1. root # None
        BY NoneAssumption, LimitsAssumption DEF Roots
      <3>2. QED BY <1>0, <1>1, <1>11, <3>1 DEF RootInv, PointersInv
    <2>4. Mine(r)' = session[k]
      BY <1>1, <1>5 DEF Mine
    <2>5. QED BY <1>1, <1>3, <1>5, <1>6, <1>8, <1>10, <2>1, <2>2, <2>3, <2>4 DEF BuildInv
  <1>14. \A q \in Requests : /\ stage'[q] \in Loading <=> stage[q] \in Loading
                             /\ stage[q] \in Loading => job'[q].root = job[q].root
    BY <1>1, <1>5 DEF Loading
  <1>15. RootsAlive'
    BY <1>0, <1>1, <1>6, <1>8, <1>11, <1>14 DEF RootInv, RootsAlive, Loading
  <1>16. PinsCounted' /\ DoomedPinned'
    BY <1>0, <1>1, <1>8, <1>14, PinsStay DEF RootInv, DoomedPinned
  <1>17. PointerCurrent'
    <2>1. \A h \in Loaded : Persistent => pointer[session[h].id] = session[h].root
      BY <1>0, <1>10 DEF RootInv, PointerCurrent, Building, Holders
    <2>2. \A h \in Loaded : session[h].root \in Made
      BY <1>0, <1>11 DEF RootInv, RootsAlive
    <2>3. QED BY <1>0, <1>1, <1>6, <1>8, <1>10, <2>1, <2>2 DEF RootInv, PointerCurrent
  <1>18. NoGarbage'
    <2> SUFFICES ASSUME Faults = {}, NEW x \in OnDisk'
                 PROVE  \/ \E h \in Loaded : session[h].root = x
                        \/ x \in doomed
                        \/ stage'[r] = "built" /\ job'[r].root = x
                        \/ Persistent /\ pointer[disk'[x].id] = x
      BY <1>1, <1>8, <1>10 DEF NoGarbage
    <2>1. CASE x = root
      BY <1>5, <2>1
    <2>2. CASE x # root
      BY <1>0, <1>6, <1>10, <1>11, <2>2 DEF RootInv, NoGarbage, Building
    <2>3. QED BY <2>1, <2>2
  <1>19. QED
    BY <1>7, <1>8, <1>9, <1>12, <1>13, <1>15, <1>16, <1>17, <1>18 DEF IInv, RootInv

\* The session and the new data root of the one replacement that is being installed.
LEMMA BuildingFacts ==
    ASSUME IInv, NEW r \in Building
    PROVE  \E k \in Loaded, root \in OnDisk :
               /\ k = job[r].handle /\ Mine(r) = session[k] /\ job[r] \in Jobs /\ root = job[r].root
               /\ root \in Made /\ root \in Roots /\ root # None
               /\ pins[root] = 0 /\ root \notin doomed
               /\ disk[root].id = session[k].id
               /\ disk[root].generation = session[k].generation + 1
               /\ disk[root].generation \in 0 .. MaxGeneration
               /\ \A h \in Loaded : session[h].root # root
               /\ \A q \in Requests : stage[q] \in Loading => job[q].root # root
               /\ Building = {r} /\ r \in Requests /\ stage[r] \in Leased
  <1>0. TypeOK /\ TableInv /\ LeaseInv /\ RootInv
    BY DEF IInv
  <1>1. r \in Requests /\ stage[r] \in {"built", "published"} /\ stage[r] \in Leased
    BY DEF Building, Leased
  <1>2. PICK k \in Loaded : k = job[r].handle /\ Mine(r) = session[k] /\ job[r] \in Jobs
    BY <1>1, InsideFacts
  <1>3. PICK root : root = job[r].root
    OBVIOUS
  <1>4. /\ root \in OnDisk /\ pins[root] = 0
        /\ disk[root].id = session[k].id /\ disk[root].generation = session[k].generation + 1
        /\ \A h \in Loaded : session[h].root # root
        /\ Building = {r}
    BY <1>0, <1>2, <1>3 DEF RootInv, BuildInv
  <1>5. root \in Made /\ root \in Roots /\ disk[root].generation \in 0 .. MaxGeneration
    BY <1>0, <1>4, RootFacts
  <1>6. root # None
    BY <1>5, NoneAssumption, LimitsAssumption DEF Roots
  <1>7. root \notin doomed
    BY <1>0, <1>4 DEF RootInv, DoomedPinned
  <1>8. \A q \in Requests : stage[q] \in Loading => job[q].root # root
    <2>1. Downloads(root) = {}
      BY <1>0, <1>4, <1>5, PinFacts DEF RootInv
    <2>2. QED BY <2>1 DEF Downloads
  <1>9. QED BY <1>1, <1>2, <1>3, <1>4, <1>5, <1>6, <1>7, <1>8

LEMMA PublishKeeps ==
    ASSUME IInv, UNCHANGED setup, NEW r \in Requests, Publish(r)
    PROVE  IInv'
  <1>0. TypeOK /\ TableInv /\ LeaseInv /\ RootInv
    BY DEF IInv
  <1>1. /\ stage[r] = "built" /\ r \in Building /\ stage' = [stage EXCEPT ![r] = "published"]
        /\ UNCHANGED <<table, session, job, uploads, disk, pins, doomed, client>>
    BY DEF Publish, Building, GoTo
  <1>2. PICK k \in Loaded, root \in OnDisk :
               /\ k = job[r].handle /\ Mine(r) = session[k] /\ root = job[r].root
               /\ root \in Roots /\ root # None /\ pins[root] = 0 /\ root \notin doomed
               /\ disk[root].id = session[k].id
               /\ disk[root].generation = session[k].generation + 1
               /\ \A h \in Loaded : session[h].root # root
               /\ Building = {r} /\ stage[r] \in Leased
    BY <1>1, BuildingFacts
  <1>3. PICK i \in Ids : i = session[k].id
    BY <1>0, LeaseFacts DEF Sessions
  <1>4. /\ pointer' = IF Persistent THEN [pointer EXCEPT ![i] = root] ELSE pointer
        /\ pointer' \in [Ids -> Roots \cup {None}]
        /\ Persistent => pointer'[i] = root
        /\ \A j \in Ids \ {i} : pointer'[j] = pointer[j]
        /\ ~Persistent => pointer' = pointer
    BY <1>0, <1>2, <1>3 DEF Publish, TypeOK
  <1>5. /\ stage' \in [Requests -> Stages] /\ stage'[r] = "published" /\ job[r] \in Jobs
        /\ "published" \in Leased /\ "published" \notin Loading
        /\ \A q \in Requests \ {r} : stage'[q] = stage[q] /\ job'[q] = job[q]
    BY <1>0, <1>1, <1>2, StageTypes
  <1>6. TypeOK'
    BY <1>0, <1>1, <1>4, <1>5, SameTypes DEF TypeOK, client
  <1>7. TableInv' /\ Loaded' = Loaded
    BY <1>0, <1>1 DEF TableInv, Loaded
  <1>8. LeaseInv'
    <2>1. \A h \in Loaded : session'[h] \in Sessions
      BY <1>0, <1>1 DEF LeaseInv
    <2>2. QED BY <1>0, <1>1, <1>2, <1>5, <1>7, <2>1, LeaseStays
  <1>9. /\ Building' = {r} /\ Persistent' = Persistent /\ Faults' = Faults
        /\ Made' = Made /\ OnDisk' = OnDisk
    BY <1>1, <1>2, <1>5 DEF Building, Persistent, Faults, Made, OnDisk
  <1>10. PointersInv'
    <2> SUFFICES ASSUME NEW j \in Ids, pointer'[j] # None
                 PROVE  Persistent /\ pointer'[j] \in OnDisk \ doomed /\ disk[pointer'[j]].id = j
      BY <1>1, <1>9 DEF PointersInv
    <2>1. CASE j = i /\ Persistent
      BY <1>2, <1>3, <1>4, <2>1
    <2>2. CASE j # i \/ ~Persistent
      BY <1>0, <1>4, <2>2 DEF RootInv, PointersInv
    <2>3. QED BY <2>1, <2>2
  <1>11. BuildInv'
    <2>1. Mine(r)' = session[k] /\ job'[r].root = root
      BY <1>1, <1>2 DEF Mine
    <2>2. QED BY <1>1, <1>2, <1>3, <1>4, <1>5, <1>7, <1>9, <2>1 DEF BuildInv
  <1>12. \A q \in Requests : /\ stage'[q] \in Loading <=> stage[q] \in Loading
                             /\ stage[q] \in Loading => job'[q].root = job[q].root
    BY <1>1, <1>5 DEF Loading
  <1>13. RootsAlive'
    BY <1>0, <1>1, <1>7, <1>9, <1>12 DEF RootInv, RootsAlive, Loading
  <1>14. PinsCounted' /\ DoomedPinned'
    BY <1>0, <1>1, <1>7, <1>12, PinsStay DEF RootInv, DoomedPinned
  <1>15. \A h \in Loaded : Persistent => pointer[session[h].id] = session[h].root
    BY <1>0, <1>1, <1>2 DEF RootInv, PointerCurrent, Building, Holders
  <1>16. PointerCurrent'
    <2> SUFFICES ASSUME Persistent, NEW h \in Loaded
                 PROVE  \/ pointer'[session[h].id] = session[h].root
                        \/ \E q \in Holders(h)' :
                              stage'[q] = "published" /\ pointer'[session[h].id] = job'[q].root
      BY <1>0, <1>1, <1>7, <1>9 DEF PointerCurrent, RootInv
    <2>1. CASE h = k
      <3>1. r \in Holders(h)'
        BY <1>1, <1>2, <1>5, <2>1 DEF Holders
      <3>2. QED BY <1>1, <1>2, <1>3, <1>4, <1>5, <2>1, <3>1
    <2>2. CASE h # k
      <3>1. session[h].id \in Ids /\ session[h].id # i
        BY <1>0, <1>3, <2>2 DEF LeaseInv, Sessions
      <3>2. QED BY <1>4, <1>15, <3>1
    <2>3. QED BY <2>1, <2>2
  <1>17. NoGarbage'
    <2> SUFFICES ASSUME Faults = {}, NEW x \in OnDisk
                 PROVE  \/ \E h \in Loaded : session[h].root = x
                        \/ x \in doomed
                        \/ stage'[r] = "published" /\ job[r].root = x
                        \/ Persistent /\ pointer'[disk[x].id] = x
      BY <1>1, <1>7, <1>9 DEF NoGarbage
    <2>1. \/ \E h \in Loaded : session[h].root = x
          \/ x \in doomed
          \/ job[r].root = x
          \/ Persistent /\ pointer[disk[x].id] = x
      BY <1>0, <1>2 DEF RootInv, NoGarbage, Building
    <2>2. ASSUME Persistent, pointer[disk[x].id] = x
          PROVE  pointer'[disk[x].id] = x \/ session[k].root = x
      <3>1. disk[x].id \in Ids
        BY <1>0, RootFacts
      <3>2. CASE disk[x].id = i
        BY <1>3, <1>15, <2>2, <3>2
      <3>3. CASE disk[x].id # i
        BY <1>4, <2>2, <3>1, <3>3
      <3>4. QED BY <3>2, <3>3
    <2>3. QED BY <1>5, <2>1, <2>2
  <1>18. QED
    BY <1>6, <1>7, <1>8, <1>10, <1>11, <1>13, <1>14, <1>16, <1>17 DEF IInv, RootInv

LEMMA PublishFailsKeeps ==
    ASSUME IInv, UNCHANGED setup, NEW r \in Requests, PublishFails(r)
    PROVE  IInv'
  <1>0. TypeOK /\ TableInv /\ LeaseInv /\ RootInv
    BY DEF IInv
  <1>1. /\ stage[r] = "built" /\ r \in Building /\ stage' = [stage EXCEPT ![r] = "finished"]
        /\ UNCHANGED <<table, session, job, uploads, pointer, pins, doomed, client>>
        /\ "storage" \in Faults
    BY DEF PublishFails, Building, GoTo
  <1>2. PICK k \in Loaded, root \in OnDisk :
               /\ k = job[r].handle /\ root = job[r].root /\ root \in Made
               /\ \A h \in Loaded : session[h].root # root
               /\ \A q \in Requests : stage[q] \in Loading => job[q].root # root
               /\ Building = {r} /\ stage[r] \in Leased
    BY <1>1, BuildingFacts
  <1>3. PICK gone \in SUBSET {root} : Shrinks(gone)
    BY <1>0, <1>2, WithoutShrinks, DiskStays DEF PublishFails
  <1>4. /\ stage' \in [Requests -> Stages] /\ stage'[r] = "finished" /\ job[r] \in Jobs
        /\ "finished" \in Leased /\ "finished" \notin Loading
        /\ \A q \in Requests \ {r} : stage'[q] = stage[q] /\ job'[q] = job[q]
    BY <1>0, <1>1, <1>2, StageTypes
  <1>5. TypeOK'
    BY <1>0, <1>1, <1>3, <1>4, SameTypes DEF TypeOK, client, Shrinks
  <1>6. TableInv' /\ Loaded' = Loaded
    BY <1>0, <1>1 DEF TableInv, Loaded
  <1>7. LeaseInv'
    <2>1. \A h \in Loaded : session'[h] \in Sessions
      BY <1>0, <1>1 DEF LeaseInv
    <2>2. QED BY <1>0, <1>1, <1>2, <1>4, <1>6, <2>1, LeaseStays
  <1>8. /\ Building' = {} /\ Persistent' = Persistent /\ "storage" \in Faults'
        /\ OnDisk' = OnDisk \ gone
        /\ \A x \in OnDisk : disk'[x].id = disk[x].id /\ disk'[x].generation = disk[x].generation
    <2>1. Building' = {}
      BY <1>1, <1>2, <1>4 DEF Building
    <2>2. OnDisk \subseteq Made
      BY <1>0, RootFacts
    <2>3. QED BY <1>1, <1>3, <2>1, <2>2 DEF Persistent, Faults, Shrinks
  <1>9. \A i \in Ids : pointer[i] # root
    BY <1>0, <1>1, <1>2 DEF RootInv, BuildInv
  <1>10. PointersInv' /\ BuildInv'
    BY <1>0, <1>1, <1>8, <1>9 DEF RootInv, PointersInv, BuildInv
  <1>11. \A q \in Requests : /\ stage'[q] \in Loading <=> stage[q] \in Loading
                             /\ stage[q] \in Loading => job'[q].root = job[q].root
    BY <1>1, <1>4 DEF Loading
  <1>12. RootsAlive'
    BY <1>0, <1>1, <1>2, <1>6, <1>8, <1>11 DEF RootInv, RootsAlive, Loading
  <1>13. PinsCounted' /\ DoomedPinned'
    BY <1>0, <1>1, <1>6, <1>11, PinsStay DEF RootInv, DoomedPinned
  <1>14. PointerCurrent'
    <2>1. \A h \in Loaded : Persistent => pointer[session[h].id] = session[h].root
      BY <1>0, <1>1, <1>2 DEF RootInv, PointerCurrent, Building, Holders
    <2>2. \A h \in Loaded : session[h].root \in OnDisk
      BY <1>0 DEF RootInv, RootsAlive
    <2>3. QED BY <1>0, <1>1, <1>6, <1>8, <2>1, <2>2 DEF RootInv, PointerCurrent
  <1>15. NoGarbage'
    BY <1>8 DEF NoGarbage
  <1>16. QED
    BY <1>5, <1>6, <1>7, <1>10, <1>12, <1>13, <1>14, <1>15 DEF IInv, RootInv

\* A superseded data root is deleted or waits for its downloads.
LEMMA DeleteFacts ==
    ASSUME TypeOK, NEW x \in Made, Delete(x), pins' \in [Roots -> Nat]
    PROVE  /\ doomed' \subseteq doomed \cup {x} /\ doomed \subseteq doomed' \cup {x}
           /\ doomed' \subseteq Roots
           /\ x \in doomed' => pins'[x] > 0
           /\ \E gone \in SUBSET {x} : /\ Shrinks(gone)
                                       /\ x \in gone => pins'[x] = 0
                                       /\ Faults = {} => x \in gone \cup doomed'
  <1>1. x \in Roots /\ pins'[x] \in Nat /\ doomed \subseteq Roots
    BY RootFacts DEF TypeOK
  <1>2. CASE pins'[x] > 0
    <2>1. doomed' = doomed \cup {x} /\ disk' = disk
      BY <1>2 DEF Delete
    <2>2. Shrinks({})
      BY <2>1, DiskStays
    <2>3. QED BY <1>1, <1>2, <2>1, <2>2
  <1>3. CASE ~(pins'[x] > 0)
    <2>1. doomed' = doomed \ {x} /\ pins'[x] = 0
      BY <1>1, <1>3 DEF Delete
    <2>2. CASE disk' = DiskWithout({x})
      <3>1. Shrinks({x})
        BY <2>2, WithoutShrinks
      <3>2. QED BY <1>1, <2>1, <3>1
    <2>3. CASE disk' = disk /\ "storage" \in Faults
      <3>1. Shrinks({})
        BY <2>3, DiskStays
      <3>2. QED BY <1>1, <2>1, <2>3, <3>1
    <2>4. QED BY <1>3, <2>2, <2>3 DEF Delete
  <1>4. QED BY <1>2, <1>3

LEMMA SwapKeeps ==
    ASSUME IInv, UNCHANGED setup, NEW r \in Requests, Swap(r)
    PROVE  IInv'
  <1>0. TypeOK /\ TableInv /\ LeaseInv /\ RootInv
    BY DEF IInv
  <1>1. /\ stage[r] = "published" /\ r \in Building /\ stage' = [stage EXCEPT ![r] = "finished"]
        /\ UNCHANGED <<table, job, uploads, pointer, pins, client>>
    BY DEF Swap, Building, GoTo
  <1>2. PICK k \in Loaded, root \in OnDisk :
               /\ k = job[r].handle /\ Mine(r) = session[k] /\ root = job[r].root
               /\ root \in Made /\ root \in Roots /\ root # None
               /\ pins[root] = 0 /\ root \notin doomed
               /\ disk[root].id = session[k].id
               /\ disk[root].generation \in 0 .. MaxGeneration
               /\ \A h \in Loaded : session[h].root # root
               /\ Building = {r} /\ stage[r] \in Leased
    BY <1>1, BuildingFacts
  <1>3. PICK i \in Ids : i = session[k].id
    BY <1>0, LeaseFacts DEF Sessions
  <1>4. PICK old \in OnDisk : old = session[k].root /\ old \in Made /\ old # root
                              /\ disk[old].id = i
    BY <1>0, <1>2, <1>3, RootFacts DEF RootInv, RootsAlive
  <1>5. PICK g \in 0 .. MaxGeneration : g = disk[root].generation
    BY <1>2
  <1>6. /\ session' = [session EXCEPT ![k] = [session[k] EXCEPT !.root = root, !.generation = g]]
        /\ Delete(old)
    BY <1>2, <1>4, <1>5 DEF Swap
  <1>7. /\ session' \in [Handles -> Sessions \cup {None}]
        /\ session'[k].root = root /\ session'[k].generation = g
        /\ Loaded' = Loaded
        /\ \A h \in Loaded \ {k} : session'[h] = session[h]
        /\ \A h \in Loaded : /\ session'[h] \in Sessions /\ session'[h].id = session[h].id
                             /\ session'[h].active = session[h].active
                             /\ session'[h].queue = session[h].queue
    <2>1. /\ table' = table /\ root \in Roots
          /\ session' = [session EXCEPT ![k] = [session[k] EXCEPT !.root = root, !.generation = g]]
      BY <1>1, <1>2, <1>6
    <2>2. QED BY <1>0, <2>1, SessionMoves
  <1>8. pins' = pins /\ pins' \in [Roots -> Nat]
    BY <1>0, <1>1 DEF TypeOK
  <1>9. /\ doomed' \subseteq doomed \cup {old} /\ doomed \subseteq doomed' \cup {old}
        /\ doomed' \subseteq Roots
        /\ old \in doomed' => pins[old] > 0
    BY <1>0, <1>4, <1>6, <1>8, DeleteFacts
  <1>10. PICK gone \in SUBSET {old} : /\ Shrinks(gone)
                                      /\ old \in gone => pins[old] = 0
                                      /\ Faults = {} => old \in gone \cup doomed'
    BY <1>0, <1>4, <1>6, <1>8, DeleteFacts
  <1>11. /\ OnDisk' = OnDisk \ gone
         /\ \A x \in OnDisk : disk'[x].id = disk[x].id /\ disk'[x].generation = disk[x].generation
    BY <1>0, <1>10, RootFacts DEF Shrinks
  <1>12. /\ stage' \in [Requests -> Stages] /\ stage'[r] = "finished" /\ job[r] \in Jobs
         /\ "finished" \in Leased /\ "finished" \notin Loading
         /\ \A q \in Requests \ {r} : stage'[q] = stage[q] /\ job'[q] = job[q]
    BY <1>0, <1>1, <1>2, StageTypes
  <1>13. TypeOK'
    BY <1>0, <1>1, <1>7, <1>8, <1>9, <1>10, <1>12, SameTypes DEF TypeOK, client, Shrinks
  <1>14. TableInv'
    BY <1>0, <1>1, <1>7 DEF TableInv
  <1>15. LeaseInv'
    BY <1>0, <1>1, <1>2, <1>7, <1>12, LeaseStays
  <1>16. Building' = {} /\ Persistent' = Persistent /\ Faults' = Faults
    BY <1>1, <1>2, <1>12 DEF Building, Persistent, Faults
  <1>17. Persistent => pointer[i] = root
    BY <1>0, <1>1, <1>2, <1>3 DEF RootInv, BuildInv
  <1>18. \A j \in Ids : pointer[j] # None => pointer[j] # old
    <2>1. ASSUME NEW j \in Ids, pointer[j] # None, pointer[j] = old PROVE FALSE
      <3>1. Persistent /\ disk[old].id = j
        BY <1>0, <2>1 DEF RootInv, PointersInv
      <3>2. QED BY <1>4, <1>17, <2>1, <3>1
    <2>2. QED BY <2>1
  <1>19. PointersInv' /\ BuildInv'
    BY <1>0, <1>1, <1>9, <1>11, <1>16, <1>18 DEF RootInv, PointersInv, BuildInv
  <1>20. \A q \in Requests : /\ stage'[q] \in Loading <=> stage[q] \in Loading
                             /\ stage[q] \in Loading => job'[q].root = job[q].root
    BY <1>1, <1>12 DEF Loading
  <1>21. \A h \in Loaded \ {k} : session[h].root \in OnDisk /\ session[h].root # old
                                 /\ disk[session[h].root].id = session[h].id
    BY <1>0, <1>4 DEF RootInv, RootsAlive
  <1>22. \A h \in Loaded : session'[h].root \in OnDisk' /\ session'[h].root # old
    BY <1>2, <1>4, <1>7, <1>11, <1>21
  <1>23. RootsAlive'
    <2>1. \A h \in Loaded : disk'[session'[h].root].id = session'[h].id
      BY <1>2, <1>7, <1>11, <1>21
    <2>2. \A h, l \in Loaded : session'[h].root = session'[l].root => h = l
      BY <1>0, <1>2, <1>7 DEF RootInv, RootsAlive
    <2>3. ASSUME NEW q \in Requests, stage[q] \in Loading PROVE job[q].root \in OnDisk'
      <3>1. job[q].root \in OnDisk
        BY <1>0, <2>3 DEF RootInv, RootsAlive, Loading
      <3>2. job[q].root = old => pins[old] # 0
        <4>1. job[q].root = old => q \in Downloads(old)
          BY <2>3 DEF Downloads
        <4>2. old \in Roots
          BY <1>0, <1>4, RootFacts
        <4>3. QED BY <1>0, <4>1, <4>2, PinFacts DEF RootInv
      <3>3. QED BY <1>10, <1>11, <3>1, <3>2
    <2>4. QED BY <1>7, <1>20, <1>22, <2>1, <2>2, <2>3 DEF RootsAlive, Loading
  <1>24. PinsCounted'
    BY <1>0, <1>1, <1>20, PinsStay DEF RootInv
  <1>25. DoomedPinned'
    <2> SUFFICES ASSUME NEW x \in doomed' PROVE pins[x] > 0 /\ \A h \in Loaded : session'[h].root # x
      BY <1>7, <1>8 DEF DoomedPinned
    <2>1. CASE x = old
      BY <1>9, <1>22, <2>1
    <2>2. CASE x # old
      BY <1>0, <1>2, <1>7, <1>9, <2>2 DEF RootInv, DoomedPinned
    <2>3. QED BY <2>1, <2>2
  <1>26. PointerCurrent'
    <2> SUFFICES ASSUME Persistent, NEW h \in Loaded
                 PROVE  /\ disk'[session'[h].root].generation = session'[h].generation
                        /\ pointer[session'[h].id] = session'[h].root
      BY <1>1, <1>7, <1>16 DEF PointerCurrent
    <2>1. CASE h = k
      BY <1>2, <1>3, <1>5, <1>7, <1>11, <1>17, <2>1
    <2>2. CASE h # k
      <3>1. disk[session[h].root].generation = session[h].generation
        BY <1>0 DEF RootInv, PointerCurrent
      <3>2. pointer[session[h].id] = session[h].root
        BY <1>0, <1>1, <1>2, <2>2 DEF RootInv, PointerCurrent, Building, Holders
      <3>3. QED BY <1>7, <1>11, <1>21, <2>2, <3>1, <3>2
    <2>3. QED BY <2>1, <2>2
  <1>27. NoGarbage'
    <2> SUFFICES ASSUME Faults = {}, NEW x \in OnDisk'
                 PROVE  \/ \E h \in Loaded : session'[h].root = x
                        \/ x \in doomed'
                        \/ Persistent /\ pointer[disk'[x].id] = x
      BY <1>1, <1>7, <1>16 DEF NoGarbage
    <2>1. x \in OnDisk /\ x \notin gone /\ disk'[x].id = disk[x].id
      BY <1>11
    <2>2. CASE x = root
      BY <1>7, <2>2
    <2>3. CASE x = old
      BY <1>10, <2>1, <2>3
    <2>4. CASE x # root /\ x # old
      <3>1. \/ \E h \in Loaded : session[h].root = x
            \/ x \in doomed
            \/ job[r].root = x
            \/ Persistent /\ pointer[disk[x].id] = x
        BY <1>0, <1>2, <2>1 DEF RootInv, NoGarbage, Building
      <3>2. ASSUME NEW h \in Loaded, session[h].root = x PROVE session'[h].root = x
        BY <1>4, <1>7, <2>4, <3>2
      <3>3. QED BY <1>2, <1>9, <2>1, <2>4, <3>1, <3>2
    <2>5. QED BY <2>2, <2>3, <2>4
  <1>28. QED
    BY <1>13, <1>14, <1>15, <1>19, <1>23, <1>24, <1>25, <1>26, <1>27 DEF IInv, RootInv

LEMMA EndDownloadKeeps ==
    ASSUME IInv, UNCHANGED setup, NEW r \in Requests, EndDownload(r)
    PROVE  IInv'
  <1>0. TypeOK /\ TableInv /\ LeaseInv /\ RootInv
    BY DEF IInv
  <1>1. /\ stage[r] = "streaming" /\ stage[r] \in Loading /\ stage[r] \notin Leased /\ Quiet /\ End(r)
        /\ UNCHANGED <<table, session, pointer, client>>
    BY DEF EndDownload, Loading, Leased
  <1>2. PICK root \in OnDisk : root = job[r].root /\ root \in Made /\ root \in Roots
    BY <1>0, <1>1, RootFacts DEF RootInv, RootsAlive
  <1>3. /\ pins' = [pins EXCEPT ![root] = @ - 1]
        /\ IF root \in doomed /\ pins[root] = 1 THEN Delete(root) ELSE UNCHANGED <<disk, doomed>>
    BY <1>2 DEF EndDownload
  <1>4. /\ r \in Downloads(root) /\ pins[root] = Cardinality(Downloads(root)) /\ pins[root] \in Nat
        /\ Cardinality(Downloads(root) \ {r}) = pins[root] - 1
        /\ Cardinality(Downloads(root) \ {r}) \in Nat
        /\ IsFiniteSet(Downloads(root) \ {r})
    <2>1. r \in Downloads(root)
      BY <1>1, <1>2 DEF Downloads
    <2>2. IsFiniteSet(Downloads(root)) /\ pins[root] = Cardinality(Downloads(root)) /\ pins[root] \in Nat
      BY <1>0, <1>2, PinFacts DEF RootInv
    <2>3. IsFiniteSet(Downloads(root) \ {r})
      BY <2>2, FS_Subset
    <2>4. QED BY <2>1, <2>2, <2>3, FS_RemoveElement, FS_CardinalityType
  <1>5. /\ pins' \in [Roots -> Nat] /\ pins'[root] = pins[root] - 1
        /\ \A x \in Roots \ {root} : pins'[x] = pins[x]
    <2>1. pins \in [Roots -> Nat] /\ pins[root] - 1 \in Nat
      BY <1>0, <1>4 DEF TypeOK
    <2>2. QED BY <1>2, <1>3, <2>1
  <1>6. /\ doomed' \subseteq doomed /\ doomed \subseteq doomed' \cup {root}
        /\ root \in doomed' => pins'[root] > 0
    <2>1. CASE root \in doomed /\ pins[root] = 1
      BY <1>0, <1>2, <1>3, <1>5, <2>1, DeleteFacts
    <2>2. CASE ~(root \in doomed /\ pins[root] = 1)
      <3>1. root \in doomed => pins[root] > 0
        BY <1>0 DEF RootInv, DoomedPinned
      <3>2. QED BY <1>3, <1>4, <1>5, <2>2, <3>1
    <2>3. QED BY <2>1, <2>2
  <1>7. PICK gone \in SUBSET {root} : /\ Shrinks(gone)
                                      /\ root \in gone => root \in doomed /\ pins'[root] = 0
                                      /\ Faults = {} => doomed \subseteq doomed' \cup gone
    <2>1. CASE root \in doomed /\ pins[root] = 1
      <3>1. PICK gone \in SUBSET {root} : /\ Shrinks(gone)
                                          /\ root \in gone => pins'[root] = 0
                                          /\ Faults = {} => root \in gone \cup doomed'
        BY <1>0, <1>2, <1>3, <1>5, <2>1, DeleteFacts
      <3>2. QED BY <1>6, <2>1, <3>1
    <2>2. CASE ~(root \in doomed /\ pins[root] = 1)
      <3>1. Shrinks({}) /\ doomed' = doomed
        BY <1>0, <1>3, <2>2, DiskStays
      <3>2. QED BY <3>1
    <2>3. QED BY <2>1, <2>2
  <1>8. /\ OnDisk' = OnDisk \ gone
        /\ \A x \in OnDisk : disk'[x].id = disk[x].id /\ disk'[x].generation = disk[x].generation
    BY <1>0, <1>7, RootFacts DEF Shrinks
  <1>9. /\ stage' \in [Requests -> Stages] /\ job' \in [Requests -> Jobs \cup {None}]
        /\ stage'[r] = "idle" /\ uploads' \in Seq(Requests)
        /\ \A q \in Requests \ {r} : stage'[q] = stage[q] /\ job'[q] = job[q]
    BY <1>0, <1>1, EndFacts
  <1>10. doomed' \subseteq Roots
    BY <1>0, <1>6 DEF TypeOK
  <1>11. TypeOK'
    BY <1>0, <1>1, <1>5, <1>7, <1>9, <1>10, SameTypes DEF TypeOK, client, Shrinks
  <1>12. TableInv' /\ Loaded' = Loaded
    BY <1>0, <1>1 DEF TableInv, Loaded
  <1>13. LeaseInv'
    <2>1. \A h \in Loaded : session'[h] \in Sessions
      BY <1>0, <1>1 DEF LeaseInv
    <2>2. stage'[r] \notin Leased
      BY <1>9 DEF Leased
    <2>3. QED BY <1>0, <1>1, <1>9, <1>12, <2>1, <2>2, LeaseStays
  <1>14. Building = {} /\ Building' = {} /\ Persistent' = Persistent /\ Faults' = Faults
    BY <1>1, <1>9 DEF Quiet, Building, Persistent, Faults
  <1>15. PointersInv' /\ BuildInv'
    BY <1>0, <1>1, <1>6, <1>7, <1>8, <1>14 DEF RootInv, PointersInv, BuildInv
  <1>16. \A x : {q \in Requests : stage[q] \in {"pinned", "streaming"} /\ job[q].root = x}' =
             IF x = root THEN Downloads(x) \ {r} ELSE Downloads(x)
    BY <1>2, <1>9 DEF Downloads, Loading
  <1>17. PinsCounted'
    <2>1. \A x \in Roots \ {root} : pins[x] = Cardinality(Downloads(x))
      BY <1>0, PinFacts DEF RootInv
    <2>2. \A x \in Roots : pins'[x] =
              Cardinality(IF x = root THEN Downloads(x) \ {r} ELSE Downloads(x))
      <3>1. ASSUME NEW x \in Roots, x # root
            PROVE  pins'[x] = Cardinality(IF x = root THEN Downloads(x) \ {r} ELSE Downloads(x))
        BY <1>5, <2>1, <3>1
      <3>2. QED BY <1>4, <1>5, <3>1
    <2>3. QED BY <1>16, <2>2 DEF PinsCounted
  <1>18. RootsAlive'
    <2>1. \A h \in Loaded : session[h].root \notin gone
      BY <1>0, <1>7 DEF RootInv, DoomedPinned
    <2>2. ASSUME NEW q \in Requests, stage'[q] \in Loading PROVE job'[q].root \in OnDisk'
      <3>1. q # r /\ stage[q] \in Loading /\ job'[q] = job[q]
        BY <1>9, <2>2 DEF Loading
      <3>2. job[q].root \in OnDisk
        BY <1>0, <3>1 DEF RootInv, RootsAlive, Loading
      <3>3. job[q].root = root => pins'[root] # 0
        <4>1. job[q].root = root => q \in Downloads(root) \ {r}
          BY <3>1 DEF Downloads
        <4>2. QED BY <1>4, <1>5, <4>1, FS_EmptySet
      <3>4. QED BY <1>7, <1>8, <3>1, <3>2, <3>3
    <2>3. QED BY <1>0, <1>1, <1>8, <1>12, <2>1, <2>2 DEF RootInv, RootsAlive, Loading
  <1>19. DoomedPinned'
    <2>1. ASSUME NEW x \in doomed' PROVE pins'[x] > 0
      <3>1. x \in Roots /\ pins[x] > 0
        BY <1>0, <1>6, <1>10 DEF RootInv, DoomedPinned
      <3>2. QED BY <1>5, <1>6, <3>1
    <2>2. QED BY <1>0, <1>1, <1>6, <1>12, <2>1 DEF RootInv, DoomedPinned
  <1>20. PointerCurrent'
    <2>1. \A h \in Loaded : Persistent => pointer[session[h].id] = session[h].root
      BY <1>0, <1>14 DEF RootInv, PointerCurrent, Building, Holders
    <2>2. \A h \in Loaded : session[h].root \in OnDisk
      BY <1>0 DEF RootInv, RootsAlive
    <2>3. QED BY <1>0, <1>1, <1>8, <1>12, <1>14, <2>1, <2>2 DEF RootInv, PointerCurrent
  <1>21. NoGarbage'
    BY <1>0, <1>1, <1>7, <1>8, <1>12, <1>14 DEF RootInv, NoGarbage, Building
  <1>22. QED
    BY <1>11, <1>12, <1>13, <1>15, <1>17, <1>18, <1>19, <1>20, <1>21 DEF IInv, RootInv

\* No session is loaded and no request runs: what is left is the disk and its pointers.
Still ==
    /\ table = <<>> /\ \A r \in Requests : stage[r] = "idle"
    /\ doomed = {} /\ \A root \in Roots : pins[root] = 0

MemoryInv ==
    /\ TableInv /\ LeaseInv /\ BuildInv
    /\ RootsAlive /\ PinsCounted /\ DoomedPinned /\ PointerCurrent

LEMMA StillFacts == Still => MemoryInv
  <1> SUFFICES ASSUME Still PROVE MemoryInv
    OBVIOUS
  <1> USE DEF Still
  <1>1. Loaded = {}
    BY DEF Loaded, Range
  <1>2. TableInv
    BY <1>1, QueueEmpty DEF TableInv
  <1>3. LeaseInv
    BY <1>1 DEF LeaseInv, Leased
  <1>4. BuildInv
    BY DEF BuildInv, Building
  <1>5. RootsAlive /\ DoomedPinned /\ PointerCurrent
    BY <1>1 DEF RootsAlive, DoomedPinned, PointerCurrent
  <1>6. PinsCounted
    <2>1. \A root : {r \in Requests : stage[r] \in {"pinned", "streaming"} /\ job[r].root = root} = {}
      OBVIOUS
    <2>2. QED BY <2>1, FS_EmptySet DEF PinsCounted
  <1>7. QED BY <1>2, <1>3, <1>4, <1>5, <1>6 DEF MemoryInv

LEMMA CrashKeeps ==
    ASSUME IInv, UNCHANGED setup, Crash
    PROVE  IInv'
  <1>0. TypeOK /\ RootInv
    BY DEF IInv
  <1>1. /\ table' = <<>> /\ (\A r \in Requests : stage'[r] = "idle")
        /\ (\A root \in Roots : pins'[root] = 0) /\ doomed' = {}
        /\ pointer' = pointer /\ "crash" \in Faults
    BY DEF Crash
  <1>2. /\ Persistent' = Persistent /\ Faults' = Faults /\ Roots' = Roots
    BY DEF Persistent, Faults, Roots
  <1>3. PICK gone \in SUBSET OnDisk : Shrinks(gone) /\ (Persistent => gone = {})
    <2>1. CASE Persistent
      <3>1. Shrinks({})
        BY <1>0, <2>1, DiskStays DEF Crash
      <3>2. QED BY <3>1
    <2>2. CASE ~Persistent
      <3>1. Shrinks(OnDisk)
        BY <1>0, <2>2, WithoutShrinks, RootFacts DEF Crash
      <3>2. QED BY <2>2, <3>1
    <2>3. QED BY <2>1, <2>2
  <1>4. TypeOK'
    <2>1. /\ table' \in Seq(Handles) /\ session' \in [Handles -> Sessions \cup {None}]
          /\ stage' \in [Requests -> Stages] /\ job' \in [Requests -> Jobs \cup {None}]
          /\ uploads' \in Seq(Requests) /\ pins' \in [Roots -> Nat] /\ doomed' \subseteq Roots
      BY EmptySeq DEF Crash, Stages
    <2>2. QED BY <1>0, <1>1, <1>3, <2>1, SameTypes DEF TypeOK, Crash, client, Shrinks
  <1>5. MemoryInv'
    <2>1. Still'
      BY <1>1, <1>2 DEF Still
    <2>2. QED BY <2>1, StillFacts, PTL
  <1>6. PointersInv'
    <2> SUFFICES ASSUME NEW i \in Ids, pointer[i] # None
                 PROVE  Persistent /\ pointer[i] \in OnDisk' /\ disk'[pointer[i]].id = i
      BY <1>1, <1>2 DEF PointersInv, Ids
    <2>1. Persistent /\ pointer[i] \in OnDisk /\ disk[pointer[i]].id = i
      BY <1>0 DEF RootInv, PointersInv
    <2>2. pointer[i] \in Made
      BY <1>0, <2>1, RootFacts
    <2>3. QED BY <1>3, <2>1, <2>2 DEF Shrinks
  <1>7. NoGarbage'
    BY <1>1, <1>2 DEF NoGarbage
  <1>8. QED BY <1>4, <1>5, <1>6, <1>7 DEF IInv, RootInv, MemoryInv

-----------------------------------------------------------------------------
(* The inductive invariant holds *)

LEMMA InitInv == Init => IInv
  <1> SUFFICES ASSUME Init PROVE IInv
    OBVIOUS
  <1>1. TypeOK
    <2>1. table \in Seq(Handles) /\ uploads \in Seq(Requests)
      BY EmptySeq DEF Init
    <2>2. QED BY <2>1 DEF Init, TypeOK, Stages
  <1>2. MemoryInv
    BY StillFacts DEF Init, Still
  <1>3. PointersInv
    BY DEF Init, PointersInv
  <1>4. NoGarbage
    BY DEF Init, NoGarbage, OnDisk, Made
  <1>5. QED BY <1>1, <1>2, <1>3, <1>4 DEF IInv, RootInv, MemoryInv

LEMMA StutterKeeps == IInv /\ UNCHANGED vars => IInv'
  <1> SUFFICES ASSUME IInv, UNCHANGED vars PROVE IInv'
    OBVIOUS
  <1>1. UNCHANGED <<setup, table, session, stage, job, uploads, disk, pointer, pins, doomed, jar, shown>>
    BY DEF vars, moving
  <1>2. /\ Loaded' = Loaded
        /\ \A h : Holders(h)' = Holders(h) /\ Entered(h)' = Entered(h)
    BY <1>1 DEF Loaded, Holders, Entered
  <1>3. TypeOK'
    BY <1>1, SameTypes DEF IInv, TypeOK
  <1>4. TableInv'
    BY <1>1, <1>2 DEF IInv, TableInv
  <1>5. LeaseInv'
    <2>1. LeaseInv /\ Sessions' = Sessions /\ Jobs' = Jobs
      BY <1>1, SameTypes DEF IInv
    <2>2. QED BY <1>1, <1>2, <2>1 DEF LeaseInv
  <1>6. RootInv'
    BY <1>1 DEF IInv, RootInv, PointersInv, BuildInv, RootsAlive, PinsCounted, DoomedPinned, PointerCurrent,
                NoGarbage, Loaded, Holders, Building, OnDisk, Made, Persistent, Faults, Mine
  <1>7. QED BY <1>3, <1>4, <1>5, <1>6 DEF IInv

LEMMA NextInv == IInv /\ [Next]_vars => IInv'
  <1> SUFFICES ASSUME IInv, [Next]_vars PROVE IInv'
    OBVIOUS
  <1>1. CASE UNCHANGED vars
    BY <1>1, StutterKeeps
  <1>2. CASE Next
    <2> USE <1>2
    <2>1. UNCHANGED setup
      BY DEF Next
    <2>2. CASE Crash
      BY <2>1, <2>2, CrashKeeps
    <2>3. ASSUME NEW r \in Requests, NEW b \in Browsers, NEW kind \in Kinds, Send(r, b, kind)
          PROVE  IInv'
      BY <2>1, <2>3, SendKeeps
    <2>4. ASSUME NEW r \in Requests,
                 Uploaded(r) \/ UploadEnds(r) \/ LeaseRefused(r) \/ Enter(r) \/ Answer(r)
          PROVE  IInv'
      BY <2>1, <2>4, WaitingKeeps
    <2>5. ASSUME NEW r \in Requests, NEW h \in Handles, Lookup(r, h) \/ Reload(r, h)
          PROVE  IInv'
      BY <2>1, <2>5, LookupKeeps, ReloadKeeps
    <2>6. ASSUME NEW r \in Requests, NEW h \in Handles, NEW i \in Ids, NEW root \in Roots,
                 Create(r, h, i, root)
          PROVE  IInv'
      BY <2>1, <2>6, CreateKeeps
    <2>7. ASSUME NEW r \in Requests, NEW root \in Roots, Build(r, root)
          PROVE  IInv'
      BY <2>1, <2>7, BuildKeeps
    <2>8. ASSUME NEW r \in Requests, LeaseFails(r) \/ CancelQueued(r) \/ Leave(r)
          PROVE  IInv'
      BY <2>1, <2>8, LeaseFailsKeeps, CancelQueuedKeeps, LeaveKeeps
    <2>9. ASSUME NEW r \in Requests, Save(r) \/ Pin(r) \/ EndDownload(r)
          PROVE  IInv'
      BY <2>1, <2>9, SaveKeeps, PinKeeps, EndDownloadKeeps
    <2>10. ASSUME NEW r \in Requests, Publish(r) \/ PublishFails(r) \/ Swap(r)
           PROVE  IInv'
      BY <2>1, <2>10, PublishKeeps, PublishFailsKeeps, SwapKeeps
    <2>11. QED
      BY <2>2, <2>3, <2>4, <2>5, <2>6, <2>7, <2>8, <2>9, <2>10 DEF Next, Lease, Replace
  <1>3. QED BY <1>1, <1>2

\* The sessions of a server, their files and the requests that use them always fit together as IInv
\* says: table, leases, data roots, pins, and a replacement that is being installed.
THEOREM Invariant == Spec => []IInv
  BY InitInv, NextInv, PTL DEF Spec

-----------------------------------------------------------------------------
(* What a restart would find *)

\* No data root goes back to an earlier generation, in a server whose data roots outlive it.
GenerationsRise ==
    Persistent => \A root \in Made : disk'[root].generation >= disk[root].generation

\* What DurableForward says of one step.
Forward ==
    \A i \in Ids : pointer[i] # None =>
        /\ pointer'[i] # None /\ disk'[pointer'[i]].kept
        /\ disk'[pointer'[i]].generation >= disk[pointer[i]].generation

LEMMA GenerationTypes ==
    ASSUME TypeOK
    PROVE  \A root \in Made : disk[root].generation \in Nat
  <1>1. \A root \in Made : disk[root].generation \in 0 .. MaxGeneration
    BY RootFacts
  <1>2. QED BY <1>1

LEMMA SameRises == ASSUME TypeOK, UNCHANGED disk PROVE GenerationsRise
  BY GenerationTypes DEF GenerationsRise

LEMMA WithoutRises ==
    ASSUME TypeOK, NEW gone, disk' = DiskWithout(gone)
    PROVE  GenerationsRise
  <1> SUFFICES ASSUME NEW root \in Made PROVE disk'[root].generation >= disk[root].generation
    BY DEF GenerationsRise
  <1>1. /\ root \in Roots /\ disk[root].generation \in Nat
        /\ disk[root] \in [id : Ids, generation : 0 .. MaxGeneration, kept : BOOLEAN]
    BY RootFacts, GenerationTypes
  <1>2. disk'[root].generation = disk[root].generation
    BY <1>1 DEF DiskWithout
  <1>3. QED BY <1>1, <1>2

LEMMA DeleteRises ==
    ASSUME TypeOK, NEW root, Delete(root)
    PROVE  GenerationsRise
  BY SameRises, WithoutRises DEF Delete

\* The pointers stay where they are.
LEMMA PointersForward ==
    ASSUME IInv, IInv', UNCHANGED <<setup, pointer>>, GenerationsRise
    PROVE  Forward
  <1> SUFFICES ASSUME NEW i \in Ids, pointer[i] # None
               PROVE  disk'[pointer[i]].kept /\ disk'[pointer[i]].generation >= disk[pointer[i]].generation
    BY DEF Forward
  <1>1. Persistent /\ pointer[i] \in OnDisk /\ pointer[i] \in Made
    BY RootFacts DEF IInv, RootInv, PointersInv
  <1>2. pointer[i] \in OnDisk'
    BY DEF IInv, RootInv, PointersInv, Ids
  <1>3. QED BY <1>1, <1>2 DEF OnDisk, GenerationsRise

\* A tool saves one generation on.
LEMMA SaveRises ==
    ASSUME IInv, NEW r \in Requests, Save(r)
    PROVE  GenerationsRise
  <1> SUFFICES ASSUME Persistent, NEW x \in Made
               PROVE  disk'[x].generation >= disk[x].generation
    BY DEF GenerationsRise
  <1>0. TypeOK /\ RootInv /\ stage[r] \in Leased
    BY DEF IInv, Save, Leased
  <1>1. PICK k \in Loaded : /\ Mine(r) = session[k] /\ session[k].root \in Made
                            /\ session[k].generation \in 0 .. MaxGeneration
    BY <1>0, InsideFacts
  <1>2. /\ disk[x].generation \in Nat /\ x \in Roots
        /\ disk[x] \in [id : Ids, generation : 0 .. MaxGeneration, kept : BOOLEAN]
        /\ disk \in [Roots -> [id : Ids, generation : 0 .. MaxGeneration, kept : BOOLEAN] \cup {None}]
    BY <1>0, RootFacts, GenerationTypes DEF TypeOK
  <1>3. disk[session[k].root].generation = session[k].generation
    BY <1>0 DEF RootInv, PointerCurrent
  <1>4. disk' = [disk EXCEPT ![session[k].root].generation = session[k].generation + 1]
    BY <1>1 DEF Save
  <1>5. CASE x = session[k].root
    <2>1. disk'[x].generation = session[k].generation + 1
      BY <1>2, <1>4, <1>5
    <2>2. QED BY <1>1, <1>2, <1>3, <1>5, <2>1
  <1>6. CASE x # session[k].root
    BY <1>2, <1>4, <1>6
  <1>7. QED BY <1>5, <1>6

LEMMA BuildRises ==
    ASSUME IInv, NEW r \in Requests, NEW root \in Roots, Build(r, root)
    PROVE  GenerationsRise
  <1>1. TypeOK /\ root \notin Made
    BY DEF IInv, Build, NewRoot
  <1>2. \A x \in Made : disk'[x] = disk[x]
    BY <1>1 DEF Build, TypeOK, Made
  <1>3. QED BY <1>1, <1>2, GenerationTypes DEF GenerationsRise

\* The pointer moves to the replacement, which is one generation on.
LEMMA PublishForward ==
    ASSUME IInv, IInv', UNCHANGED setup, NEW r \in Requests, Publish(r)
    PROVE  Forward
  <1>0. TypeOK /\ RootInv /\ stage[r] = "built" /\ r \in Building /\ disk' = disk
    BY DEF IInv, Publish, Building
  <1>1. PICK k \in Loaded, root \in OnDisk :
               /\ k = job[r].handle /\ Mine(r) = session[k] /\ root = job[r].root /\ root \in Made
               /\ root # None /\ disk[root].generation = session[k].generation + 1
               /\ disk[root].generation \in 0 .. MaxGeneration
               /\ Building = {r}
    BY <1>0, BuildingFacts
  <1>2. CASE ~Persistent
    <2>1. UNCHANGED pointer
      BY <1>2 DEF Publish
    <2>2. QED BY <1>0, <2>1, SameRises, PointersForward
  <1>3. CASE Persistent
    <2>1. pointer' = [pointer EXCEPT ![session[k].id] = root]
      BY <1>1, <1>3 DEF Publish
    <2>2. /\ disk[session[k].root].generation = session[k].generation
          /\ pointer[session[k].id] = session[k].root
      BY <1>0, <1>1, <1>3 DEF RootInv, PointerCurrent, Building, Holders
    <2>3. session[k].root \in Made /\ session[k].generation \in Nat
      <3>1. session[k].root \in Made
        BY <1>0, RootFacts DEF RootInv, RootsAlive
      <3>2. QED BY <1>0, <2>2, <3>1, GenerationTypes
    <2> SUFFICES ASSUME NEW i \in Ids, pointer[i] # None
                 PROVE  /\ pointer'[i] # None /\ disk[pointer'[i]].kept
                        /\ disk[pointer'[i]].generation >= disk[pointer[i]].generation
      BY <1>0 DEF Forward
    <2>4. pointer \in [Ids -> Roots \cup {None}]
      BY <1>0 DEF TypeOK
    <2>5. CASE i = session[k].id
      <3>1. pointer'[i] = root /\ pointer[i] = session[k].root
        BY <2>1, <2>2, <2>4, <2>5
      <3>2. disk[root].kept
        BY DEF OnDisk
      <3>3. QED BY <1>1, <2>2, <2>3, <3>1, <3>2
    <2>6. CASE i # session[k].id
      <3>1. pointer'[i] = pointer[i]
        BY <2>1, <2>4, <2>6
      <3>2. pointer[i] \in OnDisk /\ pointer[i] \in Made
        BY <1>0, RootFacts DEF RootInv, PointersInv
      <3>3. disk[pointer[i]].kept /\ disk[pointer[i]].generation \in Nat
        BY <1>0, <3>2, GenerationTypes DEF OnDisk
      <3>4. QED BY <3>1, <3>3
    <2>7. QED BY <2>5, <2>6
  <1>4. QED BY <1>2, <1>3

\* A new session's id has no pointer yet.
LEMMA CreateForward ==
    ASSUME IInv, IInv', UNCHANGED setup, NEW r \in Requests, NEW h \in Handles,
           NEW i \in Ids, NEW root \in Roots, Create(r, h, i, root)
    PROVE  Forward
  <1>0. TypeOK /\ RootInv /\ root \notin Made
    BY DEF IInv, Create, NewRoot
  <1>1. PICK t : disk' = [DiskWithout(Evicted(t)) EXCEPT
                             ![root] = [id |-> i, generation |-> 0, kept |-> TRUE]]
    BY DEF Create
  <1>2. pointer' = IF Persistent THEN [pointer EXCEPT ![i] = root] ELSE pointer
    BY DEF Create
  <1> SUFFICES ASSUME NEW j \in Ids, pointer[j] # None
               PROVE  /\ pointer'[j] # None /\ disk'[pointer'[j]].kept
                      /\ disk'[pointer'[j]].generation >= disk[pointer[j]].generation
    BY DEF Forward
  <1>3. /\ Persistent /\ pointer[j] \in OnDisk /\ pointer[j] \in Made /\ disk[pointer[j]].id = j
        /\ pointer[j] \in Roots
    BY <1>0, RootFacts DEF RootInv, PointersInv
  <1>4. j # i
    BY <1>3 DEF Create, NewId
  <1>5. pointer'[j] = pointer[j]
    BY <1>0, <1>2, <1>4 DEF TypeOK
  <1>6. disk'[pointer[j]] = disk[pointer[j]]
    BY <1>0, <1>1, <1>3 DEF DiskWithout, Evicted
  <1>7. disk[pointer[j]].kept /\ disk[pointer[j]].generation \in Nat
    BY <1>0, <1>3, GenerationTypes DEF OnDisk
  <1>8. QED BY <1>5, <1>6, <1>7

LEMMA StepForward ==
    ASSUME IInv, IInv', [Next]_vars
    PROVE  Forward
  <1>0. TypeOK
    BY DEF IInv
  <1>1. CASE UNCHANGED vars
    BY <1>0, <1>1, SameRises, PointersForward DEF vars, moving
  <1>2. CASE Next
    <2> USE <1>2
    <2>1. UNCHANGED setup
      BY DEF Next
    <2>2. CASE Crash
      <3>1. pointer' = pointer /\ (Persistent => disk' = disk)
        BY <2>2 DEF Crash
      <3>2. GenerationsRise
        BY <1>0, <3>1, GenerationTypes DEF GenerationsRise
      <3>3. QED BY <2>1, <3>1, <3>2, PointersForward
    <2>3. ASSUME NEW r \in Requests,
                 \/ \E b \in Browsers, kind \in Kinds : Send(r, b, kind)
                 \/ Uploaded(r) \/ UploadEnds(r) \/ LeaseRefused(r) \/ Enter(r) \/ Answer(r)
                 \/ \E h \in Handles : Lookup(r, h) \/ Reload(r, h)
                 \/ CancelQueued(r) \/ Leave(r) \/ Pin(r)
          PROVE  Forward
      <3>1. UNCHANGED <<disk, pointer>>
        BY <2>3 DEF Send, Uploaded, UploadEnds, LeaseRefused, Enter, Answer, Lookup, Reload, CancelQueued,
                    Leave, Pin, files
      <3>2. QED BY <1>0, <2>1, <3>1, SameRises, PointersForward
    <2>4. ASSUME NEW r \in Requests, NEW h \in Handles, NEW i \in Ids, NEW root \in Roots,
                 Create(r, h, i, root)
          PROVE  Forward
      BY <2>1, <2>4, CreateForward
    <2>5. ASSUME NEW r \in Requests, LeaseFails(r) \/ PublishFails(r) PROVE Forward
      <3>1. pointer' = pointer /\ (disk' = disk \/ \E gone : disk' = DiskWithout(gone))
        BY <2>5 DEF LeaseFails, PublishFails
      <3>2. QED BY <1>0, <2>1, <3>1, SameRises, WithoutRises, PointersForward
    <2>6. ASSUME NEW r \in Requests, Save(r) PROVE Forward
      <3>1. pointer' = pointer
        BY <2>6 DEF Save
      <3>2. QED BY <2>1, <2>6, <3>1, SaveRises, PointersForward
    <2>7. ASSUME NEW r \in Requests, NEW root \in Roots, Build(r, root) PROVE Forward
      <3>1. pointer' = pointer
        BY <2>7 DEF Build
      <3>2. QED BY <2>1, <2>7, <3>1, BuildRises, PointersForward
    <2>8. ASSUME NEW r \in Requests, Publish(r) PROVE Forward
      BY <2>1, <2>8, PublishForward
    <2>9. ASSUME NEW r \in Requests, Swap(r) \/ EndDownload(r) PROVE Forward
      <3>1. pointer' = pointer /\ (disk' = disk \/ \E root : Delete(root))
        BY <2>9 DEF Swap, EndDownload
      <3>2. QED BY <1>0, <2>1, <3>1, SameRises, DeleteRises, PointersForward
    <2>10. QED
      BY <2>2, <2>3, <2>4, <2>5, <2>6, <2>7, <2>8, <2>9 DEF Next, Lease, Replace
  <1>3. QED BY <1>1, <1>2

-----------------------------------------------------------------------------
(* The properties *)

\* Leases, lock queues, download pins and deferred deletions are counted exactly after any
\* cancellation, eviction, replacement, failure or crash (lease, _release_lease, _release_download
\* and _delete_generation of StudioSessionManager).
THEOREM CountsExactAlways == Spec => []CountsExact
  <1>1. IInv => CountsExact
    BY DEF IInv, LeaseInv, RootInv, CountsExact, LeasesCounted
  <1>2. QED BY <1>1, Invariant, PTL

\* No data root is deleted under a loaded session or a running download, and none is shared.
THEOREM RootsAliveAlways == Spec => []RootsAlive
  <1>1. IInv => RootsAlive
    BY DEF IInv, RootInv
  <1>2. QED BY <1>1, Invariant, PTL

\* The pointer file of each loaded session names its data root, and while nothing fails no data
\* root is left behind (_publish_generation, the swap after it, and both ways of deletion).
THEOREM FilesCurrentAlways == Spec => []FilesCurrent
  <1>1. IInv => FilesCurrent
    BY DEF IInv, RootInv, FilesCurrent
  <1>2. QED BY <1>1, Invariant, PTL

\* The project that a restart would load is never lost and never goes back to an earlier generation,
\* wherever a reset or an import is interrupted.
THEOREM DurableForwardAlways == Spec => DurableForward
  <1>1. IInv /\ IInv' /\ [Next]_vars => [Forward]_vars
    BY StepForward
  <1>2. [][Forward]_vars <=> DurableForward
    BY PTL DEF Forward, DurableForward
  <1>3. QED BY <1>1, <1>2, Invariant, PTL DEF Spec

-----------------------------------------------------------------------------
(* The admission of downloads: nobody waits in its queue twice *)

\* The admission's own copies of the library's operators are the library's.
LEMMA SlotsCardinality == \A S : Slots!Cardinality(S) = Cardinality(S)
  BY DEF Slots!Cardinality, Cardinality

LEMMA SlotsRemoveFirst == \A q, e : Slots!RemoveFirst(q, e) = RemoveFirst(q, e)
  BY DEF Slots!RemoveFirst, RemoveFirst, Slots!RemoveAt, RemoveAt, Slots!SelectInSeq, SelectInSeq,
         Slots!Min, Min

\* What deque.remove leaves of a queue without repetitions is the other members, each once.
LEMMA RemoveFirstOnce ==
    ASSUME NEW S, NEW q \in Seq(S), NEW e,
           \A i, j \in 1 .. Len(q) : q[i] = q[j] => i = j
    PROVE  LET t == RemoveFirst(q, e) IN
           /\ \A i, j \in 1 .. Len(t) : t[i] = t[j] => i = j
           /\ \A i \in 1 .. Len(t) : t[i] # e /\ \E j \in 1 .. Len(q) : t[i] = q[j]
  <1>1. CASE \E i \in 1 .. Len(q) : q[i] = e
    <2>1. PICK k \in 1 .. Len(q) : q[k] = e /\ RemoveFirst(q, e) = RemoveAt(q, k)
      BY <1>1, RemoveFirstIsRemoveAt
    <2> DEFINE t == RemoveAt(q, k)
    <2>2. /\ Len(t) = Len(q) - 1
          /\ \A i \in 1 .. Len(q) - 1 : t[i] = IF i < k THEN q[i] ELSE q[i + 1]
      BY RemoveAtFacts
    <2> HIDE DEF t
    <2>3. Len(q) \in Nat
      OBVIOUS
    <2>4. ASSUME NEW i \in 1 .. Len(t), NEW j \in 1 .. Len(t), t[i] = t[j]
          PROVE  i = j
      BY <2>2, <2>3, <2>4
    <2>5. ASSUME NEW i \in 1 .. Len(t)
          PROVE  t[i] # e /\ \E j \in 1 .. Len(q) : t[i] = q[j]
      BY <2>1, <2>2, <2>3
    <2>6. RemoveFirst(q, e) = t
      BY <2>1 DEF t
    <2>7. QED
      BY <2>4, <2>5, <2>6
  <1>2. CASE ~\E i \in 1 .. Len(q) : q[i] = e
    BY <1>2 DEF RemoveFirst
  <1>3. QED
    BY <1>1, <1>2

-----------------------------------------------------------------------------
(* The actors *)

\* Tasks and wake callbacks are finitely many and pairwise different.
LEMMA ActorsFacts ==
    /\ IsFiniteSet(Slots!Actors)
    /\ \A r \in Downloaders : Slots!Task(r) \in Slots!Actors /\ Slots!Wake(r) \in Slots!Actors
    /\ \A r \in Downloaders : Slots!Task(r)[2] = r /\ Slots!Wake(r)[2] = r
    /\ \A r \in Downloaders, q \in Downloaders : Slots!Task(r) # Slots!Wake(q)
    /\ \A a \in Slots!Actors : \E r \in Downloaders : a = Slots!Task(r) \/ a = Slots!Wake(r)
  <1>1. IsFiniteSet({"task", "wake"})
    <2>1. IsFiniteSet({"task"})
      BY FS_Singleton
    <2>2. IsFiniteSet({"task"} \cup {"wake"})
      BY <2>1, FS_AddElement
    <2>3. {"task", "wake"} = {"task"} \cup {"wake"}
      OBVIOUS
    <2>4. QED
      BY <2>2, <2>3
  <1>2. IsFiniteSet(Slots!Actors)
    BY <1>1, DownloadersAssumption, FS_Product DEF Slots!Actors
  <1>3. QED
    BY <1>2 DEF Slots!Task, Slots!Wake, Slots!Actors

-----------------------------------------------------------------------------
\* A step keeps the types.
LEMMA AdmissionTypeStep ==
    ASSUME Slots!TypeOK, [Slots!Next]_(Slots!vars)
    PROVE  Slots!TypeOK'
  <1> USE CapacityAssumption, ActorsFacts DEF Slots!TypeOK, Slots!TaskPC, Slots!WakePC
  <1>1. ASSUME NEW r \in Downloaders, Slots!AcquireFree(r) PROVE Slots!TypeOK'
    BY <1>1 DEF Slots!AcquireFree
  <1>2. ASSUME NEW r \in Downloaders, Slots!AcquireWait(r) PROVE Slots!TypeOK'
    BY <1>2 DEF Slots!AcquireWait
  <1>3. ASSUME NEW r \in Downloaders, Slots!Resume(r) PROVE Slots!TypeOK'
    BY <1>3 DEF Slots!Resume
  <1>4. ASSUME NEW r \in Downloaders, Slots!CancelGranted(r) PROVE Slots!TypeOK'
    BY <1>4 DEF Slots!CancelGranted
  <1>5. ASSUME NEW r \in Downloaders, Slots!CancelQueued(r) PROVE Slots!TypeOK'
    BY <1>5, RemoveFirstType, SlotsRemoveFirst DEF Slots!CancelQueued
  <1>6. ASSUME NEW r \in Downloaders, Slots!Finish(r) PROVE Slots!TypeOK'
    BY <1>6 DEF Slots!Finish
  <1>7. ASSUME NEW r \in Downloaders, Slots!RunWake(r) PROVE Slots!TypeOK'
    BY <1>7 DEF Slots!RunWake
  <1>8. ASSUME NEW a \in Slots!Actors, Slots!HandOver(a) PROVE Slots!TypeOK'
    BY <1>8 DEF Slots!HandOver, Slots!Candidates
  <1>9. ASSUME NEW a \in Slots!Actors, Slots!FreeSlot(a) PROVE Slots!TypeOK'
    BY <1>9 DEF Slots!FreeSlot
  <1>10. ASSUME NEW a \in Slots!Actors, Slots!OverRelease(a) PROVE Slots!TypeOK'
    BY <1>10 DEF Slots!OverRelease
  <1>11. ASSUME NEW a \in Slots!Actors, Slots!Notify(a) PROVE Slots!TypeOK'
    <2>1. \A r \in Downloaders : Slots!Task(r) # Slots!Wake(target[a])
      BY DEF Slots!Task, Slots!Wake
    <2>2. QED
      BY <1>11, <2>1 DEF Slots!Notify
  <1>12. ASSUME NEW a \in Slots!Actors, Slots!NotifyClosed(a) PROVE Slots!TypeOK'
    BY <1>12 DEF Slots!NotifyClosed
  <1>13. ASSUME NEW l \in Loops, Slots!CloseLoop(l) PROVE Slots!TypeOK'
    BY <1>13 DEF Slots!CloseLoop
  <1>14. CASE UNCHANGED Slots!vars
    BY <1>14 DEF Slots!vars
  <1>15. QED
    BY <1>1, <1>2, <1>3, <1>4, <1>5, <1>6, <1>7, <1>8, <1>9, <1>10, <1>11, <1>12,
         <1>13, <1>14 DEF Slots!Next, Slots!Release

\* Type correctness, whatever loops are closed while others run.
THEOREM AdmissionTypeCorrect == Slots!Spec => []Slots!TypeOK
  <1>1. Slots!Init => Slots!TypeOK
    BY CapacityAssumption, ActorsFacts DEF Slots!Init, Slots!TypeOK, Slots!Actors, Slots!Task, Slots!Wake,
        Slots!TaskPC, Slots!WakePC
  <1>2. Slots!TypeOK /\ [Slots!Next]_(Slots!vars) => Slots!TypeOK'
    BY AdmissionTypeStep
  <1>3. QED
    BY <1>1, <1>2, PTL DEF Slots!Spec

-----------------------------------------------------------------------------
\* Every step keeps the waiters' protocol, whatever loops are closed.
LEMMA DisciplineStep ==
    ASSUME Slots!TypeOK, Slots!WaiterDiscipline, [Slots!Next]_(Slots!vars)
    PROVE  Slots!WaiterDiscipline'
  <1> USE ActorsFacts DEF Slots!TypeOK, Slots!TaskPC, Slots!WakePC
  <1>1. ASSUME NEW r \in Downloaders, Slots!AcquireFree(r) PROVE Slots!WaiterDiscipline'
    BY <1>1 DEF Slots!AcquireFree, Slots!WaiterDiscipline
  <1>2. ASSUME NEW r \in Downloaders, Slots!AcquireWait(r) PROVE Slots!WaiterDiscipline'
    BY <1>2 DEF Slots!AcquireWait, Slots!WaiterDiscipline
  <1>3. ASSUME NEW r \in Downloaders, Slots!Resume(r) PROVE Slots!WaiterDiscipline'
    BY <1>3 DEF Slots!Resume, Slots!WaiterDiscipline
  <1>4. ASSUME NEW r \in Downloaders, Slots!CancelGranted(r) PROVE Slots!WaiterDiscipline'
    BY <1>4 DEF Slots!CancelGranted, Slots!WaiterDiscipline
  <1>5. ASSUME NEW r \in Downloaders, Slots!CancelQueued(r) PROVE Slots!WaiterDiscipline'
    <2>1. \A i, j \in 1 .. Len(waiters) : waiters[i] = waiters[j] => i = j
      BY DEF Slots!WaiterDiscipline
    <2>2. waiters' = RemoveFirst(waiters, r)
      BY <1>5, SlotsRemoveFirst DEF Slots!CancelQueued
    <2>3. /\ waiters' \in Seq(Downloaders)
          /\ \A i, j \in 1 .. Len(waiters') : waiters'[i] = waiters'[j] => i = j
          /\ \A i \in 1 .. Len(waiters') :
                waiters'[i] # r /\ \E j \in 1 .. Len(waiters) : waiters'[i] = waiters[j]
      BY <2>1, <2>2, RemoveFirstOnce, RemoveFirstType
    <2>4. /\ pc' = [pc EXCEPT ![Slots!Task(r)] = "done"]
          /\ UNCHANGED <<granted, woken, target>>
          /\ pc[Slots!Task(r)] = "waiting"
      BY <1>5 DEF Slots!CancelQueued
    <2>5. \A i \in 1 .. Len(waiters') :
             /\ pc'[Slots!Task(waiters'[i])] = "waiting"
             /\ ~granted'[waiters'[i]] /\ ~woken'[waiters'[i]]
      <3> SUFFICES ASSUME NEW i \in 1 .. Len(waiters')
                   PROVE  /\ pc'[Slots!Task(waiters'[i])] = "waiting"
                          /\ ~granted'[waiters'[i]] /\ ~woken'[waiters'[i]]
        BY <2>3
      <3>0. waiters'[i] # r /\ \E j \in 1 .. Len(waiters) : waiters'[i] = waiters[j]
        BY <2>3
      <3>1. PICK j \in 1 .. Len(waiters) : waiters'[i] = waiters[j] /\ waiters[j] # r
        BY <3>0
      <3>2. waiters[j] \in Downloaders
        OBVIOUS
      <3>3. Slots!Task(waiters[j]) # Slots!Task(r)
        BY <3>1, <3>2
      <3>4. QED
        BY <2>4, <3>1, <3>2, <3>3 DEF Slots!WaiterDiscipline
    <2>6. /\ \A q \in Downloaders : pc'[Slots!Wake(q)] = pc[Slots!Wake(q)]
          /\ \A q \in Downloaders : pc'[Slots!Task(q)] = "new" => pc[Slots!Task(q)] = "new"
          /\ \A a \in Slots!Actors : pc'[a] = "notify" => pc[a] = "notify"
      BY <2>4
    <2>7. \A i, j \in 1 .. Len(waiters') : waiters'[i] = waiters'[j] => i = j
      BY <2>3
    <2>8. /\ \A q \in Downloaders :
                /\ pc'[Slots!Wake(q)] \in {"none", "scheduled", "done"}
                /\ pc'[Slots!Wake(q)] # "none" => granted'[q]
                /\ woken'[q] => pc'[Slots!Wake(q)] = "done"
                /\ granted'[q] => pc'[Slots!Task(q)] # "new"
      BY <2>4, <2>6 DEF Slots!WaiterDiscipline
    <2>9. \A a \in Slots!Actors : pc'[a] = "notify" =>
              /\ target'[a] \in Downloaders
              /\ granted'[target'[a]] /\ pc'[Slots!Wake(target'[a])] = "none"
              /\ \A b \in Slots!Actors \ {a} : pc'[b] = "notify" => target'[b] # target'[a]
      BY <2>4, <2>6 DEF Slots!WaiterDiscipline
    <2>10. QED
      BY <2>5, <2>7, <2>8, <2>9 DEF Slots!WaiterDiscipline
  <1>6. ASSUME NEW r \in Downloaders, Slots!Finish(r) PROVE Slots!WaiterDiscipline'
    BY <1>6 DEF Slots!Finish, Slots!WaiterDiscipline
  <1>7. ASSUME NEW r \in Downloaders, Slots!RunWake(r) PROVE Slots!WaiterDiscipline'
    BY <1>7 DEF Slots!RunWake, Slots!WaiterDiscipline
  <1>8. ASSUME NEW a \in Slots!Actors, Slots!HandOver(a) PROVE Slots!WaiterDiscipline'
    <2>1. PICK i \in 1 .. Len(waiters) :
             /\ granted' = [granted EXCEPT ![waiters[i]] = TRUE]
             /\ waiters' = SubSeq(waiters, i + 1, Len(waiters))
             /\ target' = [target EXCEPT ![a] = waiters[i]]
      BY <1>8 DEF Slots!HandOver, Slots!Candidates
    <2> DEFINE w == waiters[i]
    <2>2. /\ w \in Downloaders /\ ~granted[w] /\ ~woken[w]
          /\ pc[Slots!Task(w)] = "waiting" /\ pc[Slots!Wake(w)] = "none"
      <3>1. w \in Downloaders
        BY <2>1, ElementOfSeq
      <3>2. ~granted[w] /\ ~woken[w] /\ pc[Slots!Task(w)] = "waiting"
        BY <2>1 DEF Slots!WaiterDiscipline
      <3>3. QED
        BY <3>1, <3>2 DEF Slots!WaiterDiscipline
    <2>3. pc[a] = "release" /\ pc' = [pc EXCEPT ![a] = "notify"] /\ woken' = woken
      BY <1>8 DEF Slots!HandOver
    <2>4. /\ Len(waiters') = Len(waiters) - i
          /\ \A j \in 1 .. Len(waiters') : waiters'[j] = waiters[i + j]
      <3>1. i \in 1 .. Len(waiters) /\ Len(waiters) \in Nat
        OBVIOUS
      <3>2. \A j \in (i + 1) .. Len(waiters) : waiters[j] \in Downloaders
        OBVIOUS
      <3> DEFINE rest == SubSeq(waiters, i + 1, Len(waiters))
      <3>3. /\ Len(rest) = IF i + 1 <= Len(waiters) THEN Len(waiters) - (i + 1) + 1 ELSE 0
            /\ \A j \in 1 .. Len(waiters) - (i + 1) + 1 : rest[j] = waiters[(i + 1) + j - 1]
        BY <3>1, <3>2, SubSeqProperties
      <3> HIDE DEF rest
      <3>4. waiters' = rest
        BY <2>1 DEF rest
      <3>5. QED
        BY <3>1, <3>3, <3>4
    <2>5. \A j \in 1 .. Len(waiters') : waiters'[j] # w
      <3>1. \A j, k \in 1 .. Len(waiters) : waiters[j] = waiters[k] => j = k
        BY DEF Slots!WaiterDiscipline
      <3>2. i \in 1 .. Len(waiters) /\ Len(waiters) \in Nat
        BY <2>1
      <3>3. QED
        BY <2>4, <3>1, <3>2
    <2> HIDE DEF w
    <2>6. granted' = [granted EXCEPT ![w] = TRUE] /\ target' = [target EXCEPT ![a] = w]
      BY <2>1 DEF w
    <2>7. \A j, k \in 1 .. Len(waiters') : waiters'[j] = waiters'[k] => j = k
      <3>1. waiters' \in Seq(Downloaders)
        BY <2>1
      <3>2. \A j, k \in 1 .. Len(waiters) : waiters[j] = waiters[k] => j = k
        BY DEF Slots!WaiterDiscipline
      <3>3. i \in 1 .. Len(waiters) /\ Len(waiters) \in Nat
        OBVIOUS
      <3>4. ASSUME NEW j \in 1 .. Len(waiters'), NEW k \in 1 .. Len(waiters'),
                   waiters'[j] = waiters'[k]
            PROVE  j = k
        BY <2>4, <3>2, <3>3, <3>4
      <3>5. QED
        BY <3>1, <3>4
    <2>8. \A j \in 1 .. Len(waiters') :
             /\ pc'[Slots!Task(waiters'[j])] = "waiting"
             /\ ~granted'[waiters'[j]] /\ ~woken'[waiters'[j]]
      BY <2>1, <2>3, <2>4, <2>5, <2>6 DEF Slots!WaiterDiscipline
    <2>9. \A r \in Downloaders :
             /\ pc'[Slots!Wake(r)] \in {"none", "scheduled", "done"}
             /\ pc'[Slots!Wake(r)] # "none" => granted'[r]
             /\ woken'[r] => pc'[Slots!Wake(r)] = "done"
             /\ granted'[r] => pc'[Slots!Task(r)] # "new"
      BY <2>2, <2>3, <2>6 DEF Slots!WaiterDiscipline
    <2>10. \A b \in Slots!Actors : pc'[b] = "notify" =>
              /\ target'[b] \in Downloaders
              /\ granted'[target'[b]] /\ pc'[Slots!Wake(target'[b])] = "none"
              /\ \A c \in Slots!Actors \ {b} : pc'[c] = "notify" => target'[c] # target'[b]
      BY <2>2, <2>3, <2>6 DEF Slots!WaiterDiscipline
    <2>11. QED
      BY <2>7, <2>8, <2>9, <2>10 DEF Slots!WaiterDiscipline
  <1>9. ASSUME NEW a \in Slots!Actors, Slots!FreeSlot(a) PROVE Slots!WaiterDiscipline'
    BY <1>9 DEF Slots!FreeSlot, Slots!WaiterDiscipline
  <1>10. ASSUME NEW a \in Slots!Actors, Slots!OverRelease(a) PROVE Slots!WaiterDiscipline'
    BY <1>10 DEF Slots!OverRelease, Slots!WaiterDiscipline
  <1>11. ASSUME NEW a \in Slots!Actors, Slots!Notify(a) PROVE Slots!WaiterDiscipline'
    <2> DEFINE w == target[a]
    <2>1. /\ w \in Downloaders /\ granted[w] /\ pc[Slots!Wake(w)] = "none" /\ pc[a] = "notify"
          /\ pc' = [pc EXCEPT ![a] = "done", ![Slots!Wake(w)] = "scheduled"]
          /\ target' = [target EXCEPT ![a] = <<>>]
          /\ UNCHANGED <<waiters, granted, woken>>
      BY <1>11 DEF Slots!Notify, Slots!WaiterDiscipline
    <2> HIDE DEF w
    <2>2. \A b \in Slots!Actors : pc'[b] = "notify" =>
             /\ pc[b] = "notify" /\ b # a
             /\ target'[b] = target[b] /\ target[b] # w
             /\ target[b] \in Downloaders /\ granted[target[b]]
             /\ pc'[Slots!Wake(target[b])] = "none"
      <3> SUFFICES ASSUME NEW b \in Slots!Actors, pc'[b] = "notify"
                   PROVE  /\ pc[b] = "notify" /\ b # a
                          /\ target'[b] = target[b] /\ target[b] # w
                          /\ target[b] \in Downloaders /\ granted[target[b]]
                          /\ pc'[Slots!Wake(target[b])] = "none"
        OBVIOUS
      <3>1. pc[b] = "notify" /\ b # a /\ target'[b] = target[b]
        BY <2>1
      <3>2. target[b] # w /\ target[b] \in Downloaders /\ granted[target[b]] /\ pc[Slots!Wake(target[b])] = "none"
        BY <2>1, <3>1 DEF Slots!WaiterDiscipline, w
      <3>3. Slots!Wake(target[b]) # Slots!Wake(w) /\ Slots!Wake(target[b]) # a
        BY <2>1, <3>2
      <3>4. QED
        BY <2>1, <3>1, <3>2, <3>3
    <2>3. \A r \in Downloaders :
             /\ pc'[Slots!Task(r)] # pc[Slots!Task(r)] => pc'[Slots!Task(r)] = "done" /\ pc[Slots!Task(r)] = "notify"
             /\ pc'[Slots!Wake(r)] = IF r = w THEN "scheduled" ELSE pc[Slots!Wake(r)]
      <3> SUFFICES ASSUME NEW r \in Downloaders
                   PROVE  /\ pc'[Slots!Task(r)] # pc[Slots!Task(r)] => pc'[Slots!Task(r)] = "done" /\ pc[Slots!Task(r)] = "notify"
                          /\ pc'[Slots!Wake(r)] = IF r = w THEN "scheduled" ELSE pc[Slots!Wake(r)]
        OBVIOUS
      <3>1. a # Slots!Wake(r)
        BY <2>1 DEF Slots!WaiterDiscipline
      <3>2. QED
        BY <2>1, <3>1
    <2>4. \A i \in 1 .. Len(waiters) : pc'[Slots!Task(waiters[i])] = "waiting"
      <3> SUFFICES ASSUME NEW i \in 1 .. Len(waiters)
                   PROVE  pc'[Slots!Task(waiters[i])] = "waiting"
        OBVIOUS
      <3>1. waiters[i] \in Downloaders /\ pc[Slots!Task(waiters[i])] = "waiting"
        BY ElementOfSeq DEF Slots!WaiterDiscipline
      <3>2. QED
        BY <2>3, <3>1
    <2>5. \A r \in Downloaders :
             /\ pc'[Slots!Wake(r)] \in {"none", "scheduled", "done"}
             /\ pc'[Slots!Wake(r)] # "none" => granted'[r]
             /\ woken'[r] => pc'[Slots!Wake(r)] = "done"
             /\ granted'[r] => pc'[Slots!Task(r)] # "new"
      BY <2>1, <2>3 DEF Slots!WaiterDiscipline
    <2>6. \A b \in Slots!Actors : pc'[b] = "notify" =>
             /\ target'[b] \in Downloaders
             /\ granted'[target'[b]] /\ pc'[Slots!Wake(target'[b])] = "none"
             /\ \A c \in Slots!Actors \ {b} : pc'[c] = "notify" => target'[c] # target'[b]
      BY <2>1, <2>2 DEF Slots!WaiterDiscipline
    <2>7. waiters' = waiters /\ granted' = granted /\ woken' = woken
      BY <2>1
    <2>8. /\ \A i, j \in 1 .. Len(waiters') : waiters'[i] = waiters'[j] => i = j
          /\ \A i \in 1 .. Len(waiters') :
                /\ pc'[Slots!Task(waiters'[i])] = "waiting"
                /\ ~granted'[waiters'[i]] /\ ~woken'[waiters'[i]]
      BY <2>4, <2>7 DEF Slots!WaiterDiscipline
    <2> HIDE DEF Slots!TypeOK
    <2>9. QED
      BY ONLY <2>5, <2>6, <2>8 DEF Slots!WaiterDiscipline
  <1>12. ASSUME NEW a \in Slots!Actors, Slots!NotifyClosed(a) PROVE Slots!WaiterDiscipline'
    BY <1>12 DEF Slots!NotifyClosed, Slots!WaiterDiscipline
  <1>13. ASSUME NEW l \in Loops, Slots!CloseLoop(l) PROVE Slots!WaiterDiscipline'
    BY <1>13 DEF Slots!CloseLoop, Slots!WaiterDiscipline
  <1>14. CASE UNCHANGED Slots!vars
    BY <1>14 DEF Slots!vars, Slots!WaiterDiscipline
  <1>15. QED
    BY <1>1, <1>2, <1>3, <1>4, <1>5, <1>6, <1>7, <1>8, <1>9, <1>10, <1>11, <1>12,
       <1>13, <1>14 DEF Slots!Next, Slots!Release

\* How a step moves slots between owners, next to what it does to the counter.
\* The last two cases need a loop to have been closed.
LEMMA OwnersStep ==
    ASSUME Slots!TypeOK, Slots!WaiterDiscipline, [Slots!Next]_(Slots!vars)
    PROVE  \/ Slots!Owners' = Slots!Owners /\ active' = active
           \/ \E a \in Slots!Actors \ Slots!Owners : 
                 /\ active < Capacity /\ active' = active + 1
                 /\ Slots!Owners' = Slots!Owners \cup {a}
           \/ \E a \in Slots!Owners :
                 /\ active >= 1 /\ active' = active - 1
                 /\ Slots!Owners' = Slots!Owners \ {a}
           \/ \E a \in Slots!Owners, b \in Slots!Actors \ Slots!Owners :
                 /\ active' = active
                 /\ Slots!Owners' = (Slots!Owners \ {a}) \cup {b}
           \/ \E a \in Slots!Owners : 
                 /\ active = 0 /\ active' = active
                 /\ Slots!Owners' = Slots!Owners \ {a}
           \/ \E a \in Slots!Actors \ Slots!Owners :
                 /\ closed # {} /\ active' = active
                 /\ Slots!Owners' = Slots!Owners \cup {a}
  <1> USE ActorsFacts DEF Slots!TypeOK, Slots!TaskPC, Slots!WakePC, Slots!Owners, Slots!OwnsSlot
  <1>1. ASSUME NEW r \in Downloaders, Slots!AcquireFree(r)
        PROVE  /\ Slots!Task(r) \in Slots!Actors \ Slots!Owners
               /\ active < Capacity /\ active' = active + 1
               /\ Slots!Owners' = Slots!Owners \cup {Slots!Task(r)}
    BY <1>1 DEF Slots!AcquireFree
  <1>2. ASSUME NEW r \in Downloaders,
      Slots!AcquireWait(r) PROVE Slots!Owners' = Slots!Owners /\ active' = active
    BY <1>2 DEF Slots!AcquireWait, Slots!WaiterDiscipline
  <1>3. ASSUME NEW r \in Downloaders, Slots!Resume(r) PROVE Slots!Owners' = Slots!Owners /\ active' = active
    BY <1>3 DEF Slots!Resume, Slots!WaiterDiscipline
  <1>4. ASSUME NEW r \in Downloaders,
      Slots!CancelGranted(r) PROVE Slots!Owners' = Slots!Owners /\ active' = active
    BY <1>4 DEF Slots!CancelGranted
  <1>5. ASSUME NEW r \in Downloaders,
      Slots!CancelQueued(r) PROVE Slots!Owners' = Slots!Owners /\ active' = active
    BY <1>5 DEF Slots!CancelQueued
  <1>6. ASSUME NEW r \in Downloaders, Slots!Finish(r) PROVE Slots!Owners' = Slots!Owners /\ active' = active
    BY <1>6 DEF Slots!Finish
  <1>7. ASSUME NEW r \in Downloaders,
      Slots!RunWake(r) PROVE Slots!Owners' = Slots!Owners /\ active' = active
    BY <1>7 DEF Slots!RunWake, Slots!WaiterDiscipline
  <1>8. ASSUME NEW a \in Slots!Actors, Slots!HandOver(a)
        PROVE  \E b \in Slots!Actors \ Slots!Owners :
                  /\ a \in Slots!Owners /\ active' = active
                  /\ Slots!Owners' = (Slots!Owners \ {a}) \cup {b}
    <2>1. PICK i \in 1 .. Len(waiters) : granted' = [granted EXCEPT ![waiters[i]] = TRUE]
      BY <1>8 DEF Slots!HandOver, Slots!Candidates
    <2> DEFINE w == waiters[i]
    <2>2. /\ w \in Downloaders /\ Slots!Task(w) \in Slots!Actors /\ ~granted[w]
          /\ pc[Slots!Task(w)] = "waiting" /\ Slots!Task(w)[2] = w
      <3>1. w \in Downloaders
        BY <2>1, ElementOfSeq
      <3>2. ~granted[w] /\ pc[Slots!Task(w)] = "waiting"
        BY <2>1 DEF Slots!WaiterDiscipline
      <3>3. QED
        BY <3>1, <3>2
    <2>3. pc[a] = "release" /\ pc' = [pc EXCEPT ![a] = "notify"] /\ active' = active
      BY <1>8 DEF Slots!HandOver
    <2>4. \A b \in Slots!Actors : pc[b] = "waiting" => \E r \in Downloaders : b = Slots!Task(r)
      OBVIOUS
    <2> HIDE DEF w
    <2>5. granted' = [granted EXCEPT ![w] = TRUE]
      BY <2>1 DEF w
    <2>6. \A b \in Slots!Actors : Slots!OwnsSlot(b)' <=> (Slots!OwnsSlot(b) /\ b # a) \/ b = Slots!Task(w)
      <3> SUFFICES ASSUME NEW b \in Slots!Actors
                   PROVE  Slots!OwnsSlot(b)' <=> (Slots!OwnsSlot(b) /\ b # a) \/ b = Slots!Task(w)
        OBVIOUS
      <3>1. CASE b = a
        BY <2>2, <2>3, <3>1
      <3>2. CASE b = Slots!Task(w)
        BY <2>2, <2>3, <2>5, <3>2
      <3>3. CASE b # a /\ b # Slots!Task(w) /\ pc[b] = "waiting"
        <4>1. PICK r \in Downloaders : b = Slots!Task(r)
          BY <2>4, <3>3
        <4>2. r # w /\ b[2] = r
          BY <3>3, <4>1
        <4>3. QED
          BY <2>2, <2>3, <2>5, <3>3, <4>2
      <3>4. CASE b # a /\ b # Slots!Task(w) /\ pc[b] # "waiting"
        BY <2>2, <2>3, <3>4
      <3>5. QED
        BY <3>1, <3>2, <3>3, <3>4
    <2>7. a \in Slots!Owners /\ Slots!Task(w) \notin Slots!Owners
      BY <2>2, <2>3
    <2> HIDE DEF Slots!OwnsSlot
    <2>8. Slots!Owners' = (Slots!Owners \ {a}) \cup {Slots!Task(w)}
      BY <2>2, <2>6
    <2>9. QED
      BY <2>2, <2>3, <2>7, <2>8
  <1>9. ASSUME NEW a \in Slots!Actors, Slots!FreeSlot(a)
        PROVE  a \in Slots!Owners /\ active >= 1 /\ active' = active - 1 /\ Slots!Owners' = Slots!Owners \ {a}
    BY <1>9 DEF Slots!FreeSlot
  <1>10. ASSUME NEW a \in Slots!Actors, Slots!OverRelease(a)
         PROVE  a \in Slots!Owners /\ active = 0 /\ active' = active /\ Slots!Owners' = Slots!Owners \ {a}
    BY <1>10 DEF Slots!OverRelease
  <1>11. ASSUME NEW a \in Slots!Actors,
      Slots!Notify(a) PROVE Slots!Owners' = Slots!Owners /\ active' = active
    BY <1>11 DEF Slots!Notify, Slots!WaiterDiscipline
  <1>12. ASSUME NEW a \in Slots!Actors, Slots!NotifyClosed(a)
         PROVE  a \in Slots!Actors \ Slots!Owners /\ closed # {} /\ active' = active /\ Slots!Owners' = Slots!Owners \cup {a}
    BY <1>12 DEF Slots!NotifyClosed
  <1>13. ASSUME NEW l \in Loops, Slots!CloseLoop(l) PROVE Slots!Owners' = Slots!Owners /\ active' = active
    BY <1>13 DEF Slots!CloseLoop
  <1>14. CASE UNCHANGED Slots!vars
    BY <1>14 DEF Slots!vars
  <1> HIDE DEF Slots!TypeOK, Slots!Owners, Slots!OwnsSlot, Slots!TaskPC, Slots!WakePC
  <1>15. CASE \E r \in Downloaders :
                \/ Slots!AcquireFree(r) \/ Slots!AcquireWait(r) \/ Slots!Resume(r) \/ Slots!Finish(r)
                \/ Slots!CancelGranted(r) \/ Slots!CancelQueued(r) \/ Slots!RunWake(r)
    BY <1>1, <1>2, <1>3, <1>4, <1>5, <1>6, <1>7, <1>15
  <1>16. CASE \E a \in Slots!Actors : Slots!Release(a)
    BY <1>8, <1>9, <1>10, <1>11, <1>12, <1>16 DEF Slots!Release
  <1>17. CASE \E l \in Loops : Slots!CloseLoop(l)
    BY <1>13, <1>17
  <1>18. QED
    BY <1>14, <1>15, <1>16, <1>17 DEF Slots!Next

-----------------------------------------------------------------------------
(* The inductive invariant, and what follows from it. *)

AdmissionInv == Slots!TypeOK /\ Slots!WaiterDiscipline /\ Slots!QueuedOnlyWhenFull /\ Slots!NoSlotLost

\* ... and while no loop is closed, the count of owners is exact.
ExactInv == AdmissionInv /\ Slots!SlotsConserved

LEMMA OwnersFinite == IsFiniteSet(Slots!Owners) /\ Cardinality(Slots!Owners) \in Nat
  BY ActorsFacts, FS_Subset, FS_CardinalityType DEF Slots!Owners

LEMMA AdmissionInit == Slots!Init => ExactInv
  <1> SUFFICES ASSUME Slots!Init PROVE ExactInv
    OBVIOUS
  <1>1. Slots!TypeOK
    BY CapacityAssumption, ActorsFacts DEF Slots!Init, Slots!TypeOK, Slots!Actors, Slots!Task, Slots!Wake,
        Slots!TaskPC, Slots!WakePC
  <1>2. Slots!WaiterDiscipline
    <2>1. \A a \in Slots!Actors : pc[a] \in {"new", "none"}
      BY DEF Slots!Init
    <2>2. \A r \in Downloaders : pc[Slots!Wake(r)] = "none"
      BY ActorsFacts DEF Slots!Init, Slots!Wake
    <2>3. QED
      BY <2>1, <2>2 DEF Slots!Init, Slots!WaiterDiscipline
  <1>3. Slots!Owners = {}
    BY DEF Slots!Init, Slots!Owners, Slots!OwnsSlot
  <1>4. QED
    BY <1>1, <1>2, <1>3, FS_EmptySet, SlotsCardinality
       DEF Slots!Init, ExactInv, AdmissionInv, Slots!QueuedOnlyWhenFull, Slots!NoSlotLost,
           Slots!SlotsConserved

\* The queue grows only when every slot is out, and the counter shrinks only when
\* the queue is empty.
LEMMA QueueStep ==
    ASSUME Slots!TypeOK, Slots!WaiterDiscipline, Slots!QueuedOnlyWhenFull, [Slots!Next]_(Slots!vars)
    PROVE  Slots!QueuedOnlyWhenFull'
  <1> USE CapacityAssumption DEF Slots!TypeOK, Slots!QueuedOnlyWhenFull
  <1>1. ASSUME NEW r \in Downloaders, Slots!AcquireFree(r) PROVE Slots!QueuedOnlyWhenFull'
    BY <1>1 DEF Slots!AcquireFree
  <1>2. ASSUME NEW r \in Downloaders, Slots!AcquireWait(r) PROVE Slots!QueuedOnlyWhenFull'
    BY <1>2 DEF Slots!AcquireWait
  <1>3. ASSUME NEW r \in Downloaders, Slots!CancelQueued(r) PROVE Slots!QueuedOnlyWhenFull'
    BY <1>3 DEF Slots!CancelQueued, Slots!RemoveFirst
  <1>4. ASSUME NEW r \in Downloaders,
      Slots!Resume(r) \/ Slots!Finish(r) \/ Slots!CancelGranted(r) \/ Slots!RunWake(r)
        PROVE  Slots!QueuedOnlyWhenFull'
    BY <1>4 DEF Slots!Resume, Slots!Finish, Slots!CancelGranted, Slots!RunWake
  <1>5. ASSUME NEW a \in Slots!Actors, Slots!HandOver(a) PROVE Slots!QueuedOnlyWhenFull'
    BY <1>5 DEF Slots!HandOver, Slots!Candidates
  <1>6. ASSUME NEW a \in Slots!Actors,
      Slots!FreeSlot(a) \/ Slots!OverRelease(a) PROVE Slots!QueuedOnlyWhenFull'
    BY <1>6 DEF Slots!FreeSlot, Slots!OverRelease
  <1>7. ASSUME NEW a \in Slots!Actors,
      Slots!Notify(a) \/ Slots!NotifyClosed(a) PROVE Slots!QueuedOnlyWhenFull'
    BY <1>7 DEF Slots!Notify, Slots!NotifyClosed
  <1>8. ASSUME NEW l \in Loops, Slots!CloseLoop(l) PROVE Slots!QueuedOnlyWhenFull'
    BY <1>8 DEF Slots!CloseLoop
  <1>9. CASE UNCHANGED Slots!vars
    BY <1>9 DEF Slots!vars
  <1>10. QED
    BY <1>1, <1>2, <1>3, <1>4, <1>5, <1>6, <1>7, <1>8, <1>9 DEF Slots!Next, Slots!Release

\* A closed loop stays closed.
LEMMA ClosedGrows == [Slots!Next]_(Slots!vars) => closed \subseteq closed'
  BY DEF Slots!Next, Slots!Release, Slots!AcquireFree, Slots!AcquireWait, Slots!Resume, Slots!Finish,
      Slots!CancelGranted,
         Slots!CancelQueued, Slots!RunWake, Slots!HandOver, Slots!FreeSlot, Slots!OverRelease, Slots!Notify,
         Slots!NotifyClosed, Slots!CloseLoop, Slots!vars

\* Counting the owners through the six ways a step can move slots.
LEMMA CountStep ==
    ASSUME AdmissionInv, [Slots!Next]_(Slots!vars)
    PROVE  /\ Slots!NoSlotLost'
           /\ Slots!SlotsConserved => Slots!SlotsConserved'
  <1> DEFINE n == Cardinality(Slots!Owners)
  <1>1. n \in Nat /\ IsFiniteSet(Slots!Owners) /\ active \in Nat /\ active <= n
    BY OwnersFinite, CapacityAssumption, SlotsCardinality DEF AdmissionInv, Slots!TypeOK, Slots!NoSlotLost
  <1>2. \A a \in Slots!Owners : n >= 1 /\ Cardinality(Slots!Owners \ {a}) = n - 1
    <2>1. \A a \in Slots!Owners : Cardinality(Slots!Owners \ {a}) = n - 1
      BY <1>1, FS_RemoveElement
    <2>2. \A a \in Slots!Owners : Cardinality(Slots!Owners \ {a}) \in Nat
      BY <1>1, FS_RemoveElement, FS_CardinalityType
    <2>3. QED
      BY <1>1, <2>1, <2>2
  <1>3. \A a \in Slots!Actors \ Slots!Owners : Cardinality(Slots!Owners \cup {a}) = n + 1
    BY <1>1, FS_AddElement
  <1>4. \A a \in Slots!Owners,
      b \in Slots!Actors \ Slots!Owners : Cardinality((Slots!Owners \ {a}) \cup {b}) = n
    <2> SUFFICES ASSUME NEW a \in Slots!Owners, NEW b \in Slots!Actors \ Slots!Owners
                 PROVE  Cardinality((Slots!Owners \ {a}) \cup {b}) = n
      OBVIOUS
    <2>1. IsFiniteSet(Slots!Owners \ {a}) /\ b \notin Slots!Owners \ {a}
      BY <1>1, FS_RemoveElement
    <2>2. Cardinality((Slots!Owners \ {a}) \cup {b}) = Cardinality(Slots!Owners \ {a}) + 1
      BY <2>1, FS_AddElement
    <2>3. QED
      BY <1>1, <1>2, <2>2
  <1> DEFINE m == Cardinality(Slots!Owners)'
  <1>5. \/ m = n /\ active' = active
        \/ m = n + 1 /\ active' = active + 1
        \/ m = n - 1 /\ active' = active - 1
        \/ m = n - 1 /\ n >= 1 /\ active = 0 /\ active' = active
        \/ m = n + 1 /\ closed # {} /\ active' = active
    BY <1>2, <1>3, <1>4, OwnersStep DEF AdmissionInv
  <1>6. closed' = {} => closed = {}
    BY ClosedGrows
  <1>7. QED
    BY <1>1, <1>5, <1>6, SlotsCardinality DEF Slots!NoSlotLost, Slots!SlotsConserved

\* Whatever is cancelled and whichever loops are closed, waiters keep their
\* protocol, nobody queues while a slot is free, and no counted slot is lost.
THEOREM NoSlotLostAlways == Slots!Spec => [](Slots!WaiterDiscipline /\ Slots!QueuedOnlyWhenFull /\ Slots!NoSlotLost)
  <1>1. Slots!Init => AdmissionInv
    BY AdmissionInit DEF ExactInv
  <1>2. AdmissionInv /\ [Slots!Next]_(Slots!vars) => AdmissionInv'
    <2> SUFFICES ASSUME AdmissionInv, [Slots!Next]_(Slots!vars) PROVE AdmissionInv'
      OBVIOUS
    <2>1. Slots!TypeOK'
      BY AdmissionTypeStep DEF AdmissionInv
    <2>2. QED
      BY <2>1, DisciplineStep, QueueStep, CountStep DEF AdmissionInv
  <1>3. AdmissionInv => Slots!WaiterDiscipline /\ Slots!QueuedOnlyWhenFull /\ Slots!NoSlotLost
    BY DEF AdmissionInv
  <1>4. QED
    BY <1>1, <1>2, <1>3, PTL DEF Slots!Spec

-----------------------------------------------------------------------------
(* Up to the first loop that shuts down. *)

LEMMA ExactStep ==
    ASSUME ExactInv, [Slots!Next]_(Slots!vars)
    PROVE  ExactInv'
  <1>1. Slots!TypeOK' /\ Slots!WaiterDiscipline' /\ Slots!QueuedOnlyWhenFull'
    BY AdmissionTypeStep, DisciplineStep, QueueStep DEF ExactInv, AdmissionInv
  <1>2. Slots!NoSlotLost' /\ Slots!SlotsConserved'
    BY CountStep DEF ExactInv
  <1>3. QED
    BY <1>1, <1>2 DEF ExactInv, AdmissionInv

LEMMA ExactInvariant == Slots!Spec => []ExactInv
  BY AdmissionInit, ExactStep, PTL DEF Slots!Spec

\* The counter always equals the number of slots owned: no hand-over, cancellation
\* or late wake-up loses a slot or gives one back twice.
THEOREM SlotsConservedAlways == Slots!Spec => []Slots!SlotsConserved
  BY ExactInvariant, PTL DEF ExactInv

\* No more downloads are in flight than the capacity of the admission.
THEOREM AdmissionBoundAlways == Slots!Spec => []Slots!AdmissionBound
  <1>1. ExactInv => Slots!AdmissionBound
    <2> SUFFICES ASSUME ExactInv, closed = {} PROVE Slots!AdmissionBound
      BY DEF Slots!AdmissionBound
    <2> DEFINE H == {r \in Downloaders : pc[Slots!Task(r)] = "holding"}
               f == [r \in H |-> Slots!Task(r)]
    <2>1. f \in Injection(H, Slots!Owners)
      BY ActorsFacts DEF Injection, IsInjective, Slots!Owners, Slots!OwnsSlot
    <2>2. Cardinality(H) <= Cardinality(Slots!Owners)
      BY <2>1, OwnersFinite, FS_Injection
    <2>3. Cardinality(H) \in Nat
      BY DownloadersAssumption, FS_Subset, FS_CardinalityType
    <2>4. QED
      BY <2>2, <2>3, OwnersFinite, CapacityAssumption, SlotsCardinality
         DEF ExactInv, AdmissionInv, Slots!SlotsConserved, Slots!TypeOK, Slots!AdmissionBound
  <1>2. QED
    BY <1>1, ExactInvariant, PTL

\* The admission with its queue, its wake-ups and its cancellations implements the
\* plain pool of slots.
THEOREM ImplementsPoolAlways == Slots!Spec => ImplementsPool
  <1>1. Slots!Init => Pool!Init
    BY DEF Slots!Init, Pool!Init, Slots!Owners, Slots!OwnsSlot
  <1>2. ExactInv /\ [Slots!Next]_(Slots!vars) => [closed' = {} => Pool!Next]_(Slots!Owners)
    <2> SUFFICES ASSUME ExactInv, [Slots!Next]_(Slots!vars), Slots!Owners' # Slots!Owners, closed' = {}
                 PROVE  Pool!Next
      OBVIOUS
    <2>0. closed = {}
      BY ClosedGrows
    <2>1. Slots!Owners \subseteq Slots!Actors /\ Cardinality(Slots!Owners) = active
      BY <2>0, SlotsCardinality DEF Slots!Owners, ExactInv, Slots!SlotsConserved
    <2>2. CASE \E a \in Slots!Actors \ Slots!Owners : 
                  /\ active < Capacity /\ active' = active + 1
                  /\ Slots!Owners' = Slots!Owners \cup {a}
      <3>1. Pool!Cardinality(Slots!Owners) = Cardinality(Slots!Owners)
        BY DEF Pool!Cardinality, Cardinality
      <3>2. QED
        BY <2>1, <2>2, <3>1 DEF Pool!Next, Pool!Take
    <2>3. CASE \E a \in Slots!Owners : Slots!Owners' = Slots!Owners \ {a}
      BY <2>1, <2>3 DEF Pool!Next, Pool!Give
    <2>4. CASE \E a \in Slots!Owners,
        b \in Slots!Actors \ Slots!Owners : Slots!Owners' = (Slots!Owners \ {a}) \cup {b}
      BY <2>1, <2>4 DEF Pool!Next, Pool!Pass
    <2>5. Slots!TypeOK /\ Slots!WaiterDiscipline /\ closed = {}
      BY <2>0 DEF ExactInv, AdmissionInv
    <2>6. \/ \E a \in Slots!Actors \ Slots!Owners :
                /\ active < Capacity /\ active' = active + 1
                /\ Slots!Owners' = Slots!Owners \cup {a}
          \/ \E a \in Slots!Owners : Slots!Owners' = Slots!Owners \ {a}
          \/ \E a \in Slots!Owners,
              b \in Slots!Actors \ Slots!Owners : Slots!Owners' = (Slots!Owners \ {a}) \cup {b}
      BY <2>5, OwnersStep
    <2>7. QED
      BY <2>2, <2>3, <2>4, <2>6
  <1>3. QED
    BY <1>1, <1>2, ExactInvariant, PTL DEF Slots!Spec, ImplementsPool

\* The accounts of slots and queue that the run checks: the waiters are the queued requests in
\* their order, nobody waits beside a free slot, no counted slot is lost, and until a loop closes
\* none is made and the capacity holds, whatever is cancelled on the way.
THEOREM SlotsAccountedAlways == Slots!Spec => []SlotsAccounted
  <1>1. Slots!TypeOK /\ (Slots!WaiterDiscipline /\ Slots!QueuedOnlyWhenFull /\ Slots!NoSlotLost)
            /\ Slots!SlotsConserved /\ Slots!AdmissionBound => SlotsAccounted
    BY DEF SlotsAccounted, Slots!SlotsAccounted
  <1>2. QED
    BY <1>1, AdmissionTypeCorrect, NoSlotLostAlways, SlotsConservedAlways, AdmissionBoundAlways, PTL

\* A request that arrives is admitted at once only while nobody waits: those in the queue keep
\* their turn, on whichever loops they are.
THEOREM NoOvertakingAlways == Slots!Spec => NoOvertaking
  <1>1. ASSUME AdmissionInv, [Slots!Next]_(Slots!vars), NEW r \in Downloaders,
               pc[Slots!Task(r)] = "new", pc'[Slots!Task(r)] = "holding"
        PROVE  waiters = <<>>
    <2>1. Slots!TypeOK /\ Slots!QueuedOnlyWhenFull
      BY <1>1 DEF AdmissionInv
    <2>2. pc \in [Slots!Actors -> Slots!TaskPC \cup Slots!WakePC] /\ Slots!Task(r) \in Slots!Actors
      BY <2>1, ActorsFacts DEF Slots!TypeOK
    <2>3. ASSUME NEW a, NEW x, pc' = [pc EXCEPT ![a] = x] PROVE a = Slots!Task(r) /\ x = "holding"
      <3>1. pc'[Slots!Task(r)] = IF a = Slots!Task(r) THEN x ELSE pc[Slots!Task(r)]
        BY <2>2, <2>3
      <3>2. pc[Slots!Task(r)] = "new" /\ pc'[Slots!Task(r)] = "holding"
        BY <1>1
      <3>3. QED BY <3>1, <3>2
    <2>4. ASSUME NEW q \in Downloaders, Slots!AcquireFree(q) PROVE waiters = <<>>
      BY <2>1, <2>4, CapacityAssumption DEF Slots!AcquireFree, Slots!QueuedOnlyWhenFull
    <2>5. ASSUME NEW q \in Downloaders,
                 Slots!AcquireWait(q) \/ Slots!Resume(q) \/ Slots!Finish(q) \/ Slots!CancelGranted(q) \/ Slots!CancelQueued(q)
          PROVE  FALSE
      <3>1. CASE Slots!AcquireWait(q)
        <4>1. \E x \in {"waiting", "done"} : pc' = [pc EXCEPT ![Slots!Task(q)] = x]
          BY <3>1 DEF Slots!AcquireWait
        <4>2. QED BY <2>3, <4>1
      <3>2. CASE Slots!Resume(q)
        <4>1. pc[Slots!Task(q)] # "new" /\ \E x : pc' = [pc EXCEPT ![Slots!Task(q)] = x]
          BY <3>2 DEF Slots!Resume
        <4>2. QED BY <1>1, <2>3, <4>1
      <3>3. CASE Slots!Finish(q)
        <4>1. pc[Slots!Task(q)] # "new" /\ \E x : pc' = [pc EXCEPT ![Slots!Task(q)] = x]
          BY <3>3 DEF Slots!Finish
        <4>2. QED BY <1>1, <2>3, <4>1
      <3>4. CASE Slots!CancelGranted(q) \/ Slots!CancelQueued(q)
        <4>1. pc[Slots!Task(q)] # "new" /\ \E x : pc' = [pc EXCEPT ![Slots!Task(q)] = x]
          BY <3>4 DEF Slots!CancelGranted, Slots!CancelQueued
        <4>2. QED BY <1>1, <2>3, <4>1
      <3>5. QED BY <2>5, <3>1, <3>2, <3>3, <3>4
    <2>6. ASSUME NEW q \in Downloaders, Slots!RunWake(q) PROVE FALSE
      <3>1. \E x : pc' = [pc EXCEPT ![Slots!Wake(q)] = x]
        BY <2>6 DEF Slots!RunWake
      <3>2. Slots!Wake(q) # Slots!Task(r)
        BY <2>6, ActorsFacts
      <3>3. QED BY <2>3, <3>1, <3>2
    <2>7. ASSUME NEW a \in Slots!Actors, Slots!Release(a) PROVE FALSE
      <3>1. CASE Slots!Notify(a)
        <4>1. pc' = [pc EXCEPT ![a] = "done", ![Slots!Wake(target[a])] = "scheduled"]
          BY <3>1 DEF Slots!Notify
        <4>2. pc'[Slots!Task(r)] \in {pc[Slots!Task(r)], "done", "scheduled"}
          BY <2>2, <4>1
        <4>3. QED BY <1>1, <4>2
      <3>2. CASE ~Slots!Notify(a)
        <4>1. PICK x \in {"notify", "done", "release"} : pc' = [pc EXCEPT ![a] = x]
          BY <2>7, <3>2 DEF Slots!Release, Slots!HandOver, Slots!FreeSlot, Slots!OverRelease,
              Slots!NotifyClosed
        <4>2. QED BY <2>3, <4>1
      <3>3. QED BY <3>1, <3>2
    <2>8. (UNCHANGED Slots!vars \/ \E l \in Loops : Slots!CloseLoop(l)) => pc' = pc
      BY DEF Slots!vars, Slots!CloseLoop
    <2>9. QED BY <1>1, <2>4, <2>5, <2>6, <2>7, <2>8 DEF Slots!Next
  <1>2. ExactInv => AdmissionInv
    BY DEF ExactInv
  <1>3. AdmissionInv /\ [Slots!Next]_(Slots!vars) =>
            [\A r \in Downloaders : pc[Slots!Task(r)] = "new" /\ pc'[Slots!Task(r)] = "holding" => waiters = <<>>]_(Slots!vars)
    BY <1>1
  <1>4. QED BY <1>2, <1>3, ExactInvariant, PTL DEF Slots!Spec, NoOvertaking, Slots!NoOvertaking
=============================================================================
