------------------------------- MODULE Delivery -------------------------------
(***************************************************************************)
(* What the analytics worker promises the topic it reads, without buffers, *)
(* goroutines and channels: an event that was taken is pending until an    *)
(* insert of it succeeds, and then never again; an insert that reports an  *)
(* error may have stored its events and leaves them pending; only a crash  *)
(* gives pending events up, and with them the position in the topic.       *)
(***************************************************************************)
EXTENDS Naturals

CONSTANT Items   \* what is delivered

VARIABLES
    taken,    \* the items taken since the last crash
    pending,  \* those of which no insert has succeeded
    stored,   \* the items in the store
    errors    \* inserts that reported an error

vars == <<taken, pending, stored, errors>>

Init ==
    /\ taken = {}
    /\ pending = {}
    /\ stored = {}
    /\ errors = 0

Take(S) ==
    /\ S \subseteq Items \ taken
    /\ taken' = taken \cup S
    /\ pending' = pending \cup S
    /\ UNCHANGED <<stored, errors>>

\* An insert succeeds: its items leave the memory for good.
Store(S) ==
    /\ S \subseteq pending
    /\ stored' = stored \cup S
    /\ pending' = pending \ S
    /\ UNCHANGED <<taken, errors>>

\* An insert reports an error: the items are still pending, stored or not.
StoreError(S) ==
    /\ S \subseteq pending
    /\ stored' = stored \cup S
    /\ errors' = errors + 1
    /\ UNCHANGED <<taken, pending>>

Crash ==
    /\ taken' = {}
    /\ pending' = {}
    /\ UNCHANGED <<stored, errors>>

Next ==
    \/ \E S \in SUBSET Items : Take(S) \/ Store(S) \/ StoreError(S)
    \/ Crash

Spec == Init /\ [][Next]_vars

=============================================================================
