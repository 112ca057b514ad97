-------------------------------- MODULE Ingest --------------------------------
(***************************************************************************)
(* The ingest API as a whole: single-event and batch requests run          *)
(* concurrently against one Redis and one topic.  IngestSingle and         *)
(* IngestBatch are composed over the variables they share: the idempotency *)
(* keys, the topic, and the bounds on failures and crashes.  The time it    *)
(* covers is shorter than IDEMPOTENCY_TTL: no key expires.                 *)
(***************************************************************************)
EXTENDS Naturals, Sequences, FiniteSets

CONSTANTS
    Requests,     \* the requests to /v1/events
    Batches,      \* the requests to /v1/events/batch
    Orgs, KnownOrgs, EventIds, NoEvent, MaxBatchLen, MaxFaults, MaxCrashes

VARIABLES
    idem, topic, faults, crashes,
    spc, sevent, sresp,
    bloomModule, bloom, bpc, borg, bitems, bvalid, bidx, bexists, blocal,
    baccepted, bfailed, bresp, bprior

S == INSTANCE IngestSingle WITH
        MaxExpiries <- 0, age <- [k \in Orgs \X EventIds |-> 0]
B == INSTANCE IngestBatch

singleVars == <<spc, sevent, sresp>>
batchVars == <<bloomModule, bloom, bpc, borg, bitems, bvalid, bidx, bexists,
               blocal, baccepted, bfailed, bresp, bprior>>
vars == <<idem, topic, faults, crashes, singleVars, batchVars>>

Init == S!Init /\ B!Init

\* One round trip of one request, of either kind.
SingleStep(r) == S!Step(r) /\ UNCHANGED batchVars
BatchStep(b) == B!Step(b) /\ UNCHANGED singleVars

\* Every request has been answered or has died.
Idle ==
    /\ \A r \in Requests : spc[r] \in {"done", "dead"}
    /\ \A b \in Batches : bpc[b] \in {"done", "dead"}
    /\ UNCHANGED vars

Next ==
    \/ \E r \in Requests : SingleStep(r)
    \/ \E b \in Batches : BatchStep(b)
    \/ Idle

Spec == Init /\ [][Next]_vars

-----------------------------------------------------------------------------
(* Properties. *)

\* The batch path does not weaken the single path: whatever batches do to the
\* idempotency keys, no two requests to /v1/events publish the same event.
SingleAtMostOnce == S!AtMostOnce

\* The Bloom filter has no false negatives: a batch does not publish an event
\* that was published, on either path, before the batch arrived.
LateBatchRefused == B!NoLateRepublish

=============================================================================
