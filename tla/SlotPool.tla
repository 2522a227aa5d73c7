------------------------------ MODULE SlotPool ------------------------------
(***************************************************************************)
(* What a bounded admission promises: at most Capacity clients own a slot, *)
(* and a slot is taken when one is free, given back by its owner, or       *)
(* passed by its owner to a client that has none.  No queue, no wake-ups   *)
(* and no cancellation: DownloadAdmission is shown to implement this.      *)
(***************************************************************************)
EXTENDS Naturals, FiniteSets

CONSTANTS Clients, Capacity

VARIABLE owners

Init == owners = {}

Take(c) ==
    /\ c \in Clients \ owners
    /\ Cardinality(owners) < Capacity
    /\ owners' = owners \cup {c}

Give(c) ==
    /\ c \in owners
    /\ owners' = owners \ {c}

Pass(c, d) ==
    /\ c \in owners
    /\ d \in Clients \ owners
    /\ owners' = (owners \ {c}) \cup {d}

Next ==
    \/ \E c \in Clients : Take(c) \/ Give(c)
    \/ \E c, d \in Clients : Pass(c, d)

Spec == Init /\ [][Next]_owners
=============================================================================
