--------------------------- MODULE ObjectPublication ---------------------------
(***************************************************************************)
(* ObjectStore of asset_autopsy/storage.py on a file system.  Clients, in  *)
(* one or more processes, put contents concurrently; a content is its own  *)
(* digest.  What is only in the page cache, the entries of a directory and *)
(* the bytes of a file that were not synchronized, may be lost when the    *)
(* power fails.                                                            *)
(*                                                                         *)
(* The object tree is root / sha256 / <shard> / <digest>; the root itself  *)
(* is there and is kept.                                                   *)
(***************************************************************************)
EXTENDS Integers, FiniteSets

CONSTANTS Clients,
          Contents, Size,     \* Size[c]: the bytes of content c, a natural number
          Shards, Shard,      \* Shard[c]: the directory of its digest, one of Shards
          MaxObject,          \* MAX_OBJECT_BYTES
          Chunk,              \* _OBJECT_IO_CHUNK_BYTES, at least 1
          MaxFailures,        \* bound on the failures of machine, processes and disk
          None

VARIABLES put,        \* what each client's put does
          objects,    \* the canonical objects one sees: absent, whole, damaged by others;
                      \* no put leaves them unsynced, or torn after a power failure
          synced,     \* what a power failure keeps: entries of objects, shards, the root's entry
          acked,      \* the contents of the puts that returned
          failures

vars == <<put, objects, synced, acked, failures>>

Idle == [at |-> "idle"]
Kept(c) == c \in synced.entries /\ Shard[c] \in synced.shards /\ synced.top

Init ==
    /\ put = [k \in Clients |-> Idle]
    /\ objects = [c \in Contents |-> "absent"]
    /\ synced = [entries |-> {}, shards |-> {}, top |-> FALSE]
    /\ acked = {} /\ failures = 0

-----------------------------------------------------------------------------
(* put_stream, as client k runs it *)

At(k, place) == put[k].at = place
Goes(k, place) == put' = [put EXCEPT ![k].at = place]
TreeUnchanged == UNCHANGED <<objects, synced, acked, failures>>

Answered(k, answer) == put' = [put EXCEPT ![k] = [at |-> "answered", content |-> @.content, answer |-> answer]]

\* An answer is taken, and the client goes on.
Take(k) ==
    /\ At(k, "answered")
    /\ put' = [put EXCEPT ![k] = Idle]
    /\ TreeUnchanged

\* The temporary file is made; expected is the digest the caller names, if any.
Begin(k) ==
    /\ At(k, "idle")
    /\ \E c \in Contents, e \in Contents \cup {None} :
          put' = [put EXCEPT ![k] = [at |-> "copy", content |-> c, expected |-> e, size |-> 0]]
    /\ TreeUnchanged

\* A read of n bytes after size bytes is over the limit.
TooLarge(size, n) == n > MaxObject - size

LeastOf(S) == CHOOSE m \in S : \A n \in S : m <= n

\* One read of the source, which may give less than was asked for.
Copy(k) ==
    /\ At(k, "copy")
    /\ LET left == Size[put[k].content] - put[k].size
           most == LeastOf({Chunk, MaxObject - put[k].size + 1, left})
       IN IF left = 0 THEN Goes(k, "flush")
          ELSE \E n \in 1 .. most :
                  IF TooLarge(put[k].size, n) THEN Answered(k, "too large")
                  ELSE put' = [put EXCEPT ![k].size = @ + n]
    /\ TreeUnchanged

\* fsync of the temporary file
Flush(k) == At(k, "flush") /\ Goes(k, "check") /\ TreeUnchanged

Checks(k) == put[k].at \in {"check", "check unsynced"}
Expects(k) == put[k].expected \in {None, put[k].content}

\* The digest is compared, and the shard is made.
Check(k) ==
    /\ Checks(k)
    /\ IF ~Expects(k) THEN Answered(k, "mismatch")
       ELSE put' = [put EXCEPT ![k] = [at |-> "place", content |-> @.content, sure |-> @.at = "check"]]
    /\ TreeUnchanged

\* Mutation of Found: an object that is there needs no synchronization.
FoundTrusting(k) ==
    /\ At(k, "place")
    /\ objects[put[k].content] # "absent"
    /\ IF objects[put[k].content] = "whole"
       THEN Answered(k, "stored") /\ acked' = acked \cup {put[k].content}
       ELSE Answered(k, "corrupt") /\ UNCHANGED acked
    /\ UNCHANGED <<objects, synced, failures>>

\* The object is there: it is verified, and the temporary file goes.
Found(k) ==
    /\ At(k, "place")
    /\ objects[put[k].content] # "absent"
    /\ IF objects[put[k].content] = "whole" THEN Goes(k, "sync shard") ELSE Answered(k, "corrupt")
    /\ TreeUnchanged

\* It is not there when one looks...
Missing(k) ==
    /\ At(k, "place")
    /\ objects[put[k].content] = "absent"
    /\ Goes(k, "rename")
    /\ TreeUnchanged

\* ... and when the file is renamed, another client may have put it there.
Rename(k) ==
    /\ At(k, "rename")
    /\ objects' = [objects EXCEPT ![put[k].content] = IF put[k].sure THEN "whole" ELSE "unsynced"]
    /\ Goes(k, "sync shard")
    /\ UNCHANGED <<synced, acked, failures>>

\* _fsync_object_tree: the shard, then sha256, then the root.
SyncShard(k) ==
    /\ At(k, "sync shard")
    /\ synced' = [synced EXCEPT !.entries = @ \cup
           {c \in Contents : objects[c] # "absent" /\ Shard[c] = Shard[put[k].content]}]
    /\ Goes(k, "sync hashes")
    /\ UNCHANGED <<objects, acked, failures>>

\* The shards that exist are those of objects and of puts that came so far.
SyncHashes(k) ==
    /\ At(k, "sync hashes")
    /\ synced' = [synced EXCEPT !.shards = @ \cup
           {Shard[c] : c \in {d \in Contents : objects[d] # "absent"}}]
    /\ Goes(k, "sync root")
    /\ UNCHANGED <<objects, acked, failures>>

SyncRoot(k) ==
    /\ At(k, "sync root")
    /\ synced' = [synced EXCEPT !.top = TRUE]
    /\ Answered(k, "stored")
    /\ acked' = acked \cup {put[k].content}
    /\ UNCHANGED <<objects, failures>>

-----------------------------------------------------------------------------
(* Failures *)

Running(k) == put[k].at \notin {"idle", "answered"}
Fails == failures < MaxFailures /\ failures' = failures + 1

\* An operation on the file system fails, or the source does: the put raises and its
\* temporary file is removed.
DiskFails(k) ==
    /\ Fails
    /\ Running(k)
    /\ Answered(k, "failed")
    /\ UNCHANGED <<objects, synced, acked>>

\* The process of k dies: what it wrote stays in the page cache.
Dies(k) ==
    /\ Fails
    /\ put[k] # Idle
    /\ put' = [put EXCEPT ![k] = Idle]
    /\ UNCHANGED <<objects, synced, acked>>

\* The power fails: of what was not synchronized any part may be lost.
PowerFails ==
    /\ Fails
    /\ put' = [k \in Clients |-> Idle]
    /\ objects' \in {f \in [Contents -> {"absent", "whole", "torn", "damaged"}] : \A c \in Contents :
           \/ f[c] = "torn" /\ objects[c] \in {"torn", "unsynced"}
           \/ f[c] \in {"whole", "damaged"} /\ objects[c] = f[c]
           \/ f[c] = "whole" /\ objects[c] = "unsynced"
           \/ f[c] = "absent" /\ ~(objects[c] # "absent" /\ Kept(c))}
    /\ LET there == {c \in Contents : objects'[c] # "absent"} IN
       synced' = [entries |-> there, shards |-> {Shard[c] : c \in there}, top |-> synced.top \/ there # {}]
    /\ UNCHANGED <<acked>>

\* An object is altered outside the program.
Damage ==
    /\ Fails
    /\ \E c \in Contents :
          /\ objects[c] = "whole"
          /\ objects' = [objects EXCEPT ![c] = "damaged"]
    /\ UNCHANGED <<put, synced, acked>>

Step(k) == \/ Take(k) \/ Copy(k) \/ Flush(k) \/ Check(k) \/ Found(k) \/ Missing(k) \/ Rename(k)
           \/ SyncShard(k) \/ SyncHashes(k) \/ SyncRoot(k)

Next == \/ \E k \in Clients : Begin(k) \/ Step(k) \/ DiskFails(k) \/ Dies(k)
        \/ PowerFails \/ Damage

Spec == Init /\ [][Next]_vars

-----------------------------------------------------------------------------
(* Properties *)

\* The type invariant.  No temporary file outgrows the limit, however the source is read.
TypeOK ==
    /\ \A k \in Clients :
          /\ put[k].at \notin {"idle"} => put[k].content \in Contents
          /\ At(k, "copy") => put[k].size \in 0 .. MaxObject
    /\ synced.entries \subseteq Contents /\ synced.shards \subseteq Shards /\ synced.top \in BOOLEAN
    /\ acked \subseteq Contents /\ failures \in 0 .. MaxFailures

\* The object of a put that returned survives any failure, also when another client renamed
\* the file and had not synchronized it: docs/storage-contract.md on durability, and what the
\* ledger relies on when it refers to it.
AckedSurvive == \A c \in acked : objects[c] \in {"whole", "damaged"}

\* A canonical path never holds a part of its object, not even after a power failure.
NeverTorn == \A c \in Contents : objects[c] # "torn"

\* The limit of docs/storage-contract.md is exact: "A write at the limit is accepted", a larger
\* one is refused and publishes nothing, whatever the reads return.
LimitExact ==
    /\ \A c \in Contents : objects[c] # "absent" => Size[c] <= MaxObject
    /\ \A k \in Clients : At(k, "answered") /\ put[k].answer = "too large" => Size[put[k].content] > MaxObject

\* Publication is durable and exact: no acknowledged object is lost, none is torn, none too large.
Durable == TypeOK /\ AckedSurvive /\ NeverTorn /\ LimitExact
=============================================================================
