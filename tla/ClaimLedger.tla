------------------------------ MODULE ClaimLedger ------------------------------
(***************************************************************************)
(* What deduplication promises its clients, without Redis, lookups, errors *)
(* and crashes: an item is claimed by at most one client at a time; a      *)
(* client delivers an item only while it holds it and then never again;    *)
(* an item that was delivered is closed until its retention is over.       *)
(***************************************************************************)
CONSTANTS
    Clients,    \* who claims and delivers
    Items       \* what is delivered

VARIABLES
    held,       \* the pairs <<client, item>> of open claims
    delivered   \* the pairs <<client, item>> delivered and still retained

vars == <<held, delivered>>

Init ==
    /\ held = {}
    /\ delivered = {}

\* Nobody holds the item, and it is not closed.
Free(k) == \A c \in Clients : <<c, k>> \notin held \cup delivered

Claim(c, k) ==
    /\ Free(k)
    /\ held' = held \cup {<<c, k>>}
    /\ UNCHANGED delivered

\* The claim ends without a delivery.
GiveUp(c, k) ==
    /\ <<c, k>> \in held
    /\ held' = held \ {<<c, k>>}
    /\ UNCHANGED delivered

\* The claim ends with the delivery.
Deliver(c, k) ==
    /\ <<c, k>> \in held
    /\ held' = held \ {<<c, k>>}
    /\ delivered' = delivered \cup {<<c, k>>}

\* The retention of an item that nobody holds is over.
Forget(k) ==
    /\ \A c \in Clients : <<c, k>> \notin held
    /\ delivered' = delivered \ (Clients \X {k})
    /\ UNCHANGED held

Next ==
    \/ \E c \in Clients, k \in Items : Claim(c, k) \/ GiveUp(c, k) \/ Deliver(c, k)
    \/ \E k \in Items : Forget(k)

Spec == Init /\ [][Next]_vars

=============================================================================
