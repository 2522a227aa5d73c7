---------------------------- MODULE StudioServer ----------------------------
(***************************************************************************)
(* The two parts of the Studio HTTP server that every download passes, side *)
(* by side: the admission, which is the instance Admission, and the         *)
(* sessions (this module's other variables are those of StudioSessions).    *)
(* artifact_endpoint has its slot before it leases a session and gives it   *)
(* back after the pin is released; in between neither part asks the other   *)
(* for anything, so they are checked and proved apart.                      *)
(***************************************************************************)
EXTENDS StudioSessions

CONSTANTS Downloaders, Loops, LoopOf, Capacity, Closable
VARIABLES active, waiters, granted, woken, pc, target, closed

Slots == INSTANCE DownloadAdmission WITH Requests <- Downloaders

\* The constants of the admission are what DownloadAdmission says of them.
ASSUME DownloadersAssumption == IsFiniteSet(Downloaders)
ASSUME LoopsAssumption == LoopOf \in [Downloaders -> Loops] /\ Closable \subseteq Loops
ASSUME CapacityAssumption == Capacity \in Nat \ {0}

\* What the admission promises its callers: a pool of Capacity slots, each with one
\* owner, that are taken, given back, or passed to a waiter - up to the first loop
\* that shuts down: a slot handed to a waiter of a closed loop has two owners.
Pool == INSTANCE SlotPool WITH Clients <- Slots!Actors, owners <- Slots!Owners
ImplementsPool == Pool!Init /\ [][closed' = {} => Pool!Next]_(Slots!Owners)

\* The accounts of the admission's slots and of its queue are right, whatever is cancelled,
\* handed over or woken on whichever loop.
SlotsAccounted == Slots!SlotsAccounted

\* A new download never overtakes a queued one (acquire()).
NoOvertaking == Slots!NoOvertaking

\* A queued download is admitted, unless it is cancelled or a loop shuts down first.
WaitEnds == Slots!WaitEnds
=============================================================================
