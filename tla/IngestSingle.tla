----------------------------- MODULE IngestSingle -----------------------------
(***************************************************************************)
(* POST /v1/events: HandleSingleEvent of                                   *)
(* engine/internal/handler/ingest_handler.go, from the arrival of the      *)
(* request to its answer.  Requests run concurrently; each round trip to   *)
(* Redis, Postgres or Kafka is one atomic step.                            *)
(*                                                                         *)
(* An event is a record of its organization, its id and its end user.  The *)
(* outcome of the existence lookups (Redis cache, then Postgres) is        *)
(* abstracted here to what is true of the organization and the end user,   *)
(* or a failure; ExistenceCache models the cache itself.  An idempotency   *)
(* key expires IDEMPOTENCY_TTL (24h) after it was set; no request is in    *)
(* flight for that long.                                                   *)
(***************************************************************************)
EXTENDS Naturals, FiniteSets

CONSTANTS
    Requests,    \* the requests to /v1/events
    Orgs,        \* the organizations named by API keys
    KnownOrgs,   \* those that are ACTIVE in Postgres
    EventIds,    \* event ids clients use
    NoEvent,     \* the event of a request that has not arrived
    MaxFaults,   \* bound: calls to Redis, Postgres or Kafka that fail
    MaxCrashes,  \* bound: handlers that die with their process
    MaxExpiries  \* bound: times a key reaches its TTL

ASSUME SingleAssumption ==
    /\ KnownOrgs \subseteq Orgs
    /\ MaxFaults \in Nat
    /\ MaxCrashes \in Nat
    /\ MaxExpiries \in Nat

\* The end user of an event: absent, one of the organization, or another.
EndUsers == {"none", "member", "stranger"}

Keys == Orgs \X EventIds

Events == [org : Orgs, id : EventIds, eu : EndUsers]

ASSUME NoEventAssumption == NoEvent \notin Events

\* The key idem:{org_id}:{event_id}.
KeyOf(e) == <<e.org, e.id>>

VARIABLES
    idem,     \* the idempotency keys set in Redis
    age,      \* history: age[k] is how often key k has expired
    topic,    \* the messages in Kafka: [req, pos, key, age]
    spc,      \* spc[r]: where the handler of request r is
    sevent,   \* sevent[r]: its event, after EnrichFromKeyContext
    sresp,    \* sresp[r]: its answer, 0 while there is none
    faults,   \* failing calls so far
    crashes   \* handlers killed so far

svars == <<idem, age, topic, spc, sevent, sresp, faults, crashes>>

-----------------------------------------------------------------------------

Init ==
    /\ idem = {}
    /\ age = [k \in Keys |-> 0]
    /\ topic = {}
    /\ spc = [r \in Requests |-> "idle"]
    /\ sevent = [r \in Requests |-> NoEvent]
    /\ sresp = [r \in Requests |-> 0]
    /\ faults = 0
    /\ crashes = 0

\* The handler of r goes on to place pc.
Goto(r, pc) ==
    /\ spc' = [spc EXCEPT ![r] = pc]
    /\ UNCHANGED <<sevent, sresp>>

\* The handler of r answers with a status and returns.
Answer(r, status) ==
    /\ spc' = [spc EXCEPT ![r] = "done"]
    /\ sresp' = [sresp EXCEPT ![r] = status]
    /\ UNCHANGED sevent

\* One more call fails.
Fault ==
    /\ faults < MaxFaults
    /\ faults' = faults + 1

-----------------------------------------------------------------------------

\* The request is refused before it touches any shared state: wrong method or
\* content type, body too large, not JSON, no key context, not valid.
Refuse(r) ==
    /\ spc[r] = "idle"
    /\ Answer(r, 400)
    /\ UNCHANGED <<idem, age, topic, faults, crashes>>

\* Mutant of Receive: the handler goes on after it failed to parse the body.
ReceiveUnparsed(r, e) ==
    /\ spc[r] = "idle"
    /\ Goto(r, "setnx")
    /\ UNCHANGED <<idem, age, topic, faults, crashes>>

\* The request is parsed, enriched with the organization of its key and valid.
Receive(r, e) ==
    /\ spc[r] = "idle"
    /\ spc' = [spc EXCEPT ![r] = "setnx"]
    /\ sevent' = [sevent EXCEPT ![r] = e]
    /\ UNCHANGED <<idem, age, topic, sresp, faults, crashes>>

\* Mutant of SetNX: the check and the write are not one atomic command.
SetNXAlways(r) ==
    /\ spc[r] = "setnx"
    /\ idem' = idem \cup {KeyOf(sevent[r])}
    /\ Goto(r, "org")
    /\ UNCHANGED <<age, topic, faults, crashes>>

\* SETNX idem:{org_id}:{event_id}: claim the event, or answer 409.
SetNX(r) ==
    /\ spc[r] = "setnx"
    /\ idem' = idem \cup {KeyOf(sevent[r])}
    /\ IF KeyOf(sevent[r]) \in idem THEN Answer(r, 409) ELSE Goto(r, "org")
    /\ UNCHANGED <<age, topic, faults, crashes>>

\* SETNX fails: 503.  Redis may have executed it.
SetNXError(r) ==
    /\ spc[r] = "setnx"
    /\ Fault
    /\ idem' \in {idem, idem \cup {KeyOf(sevent[r])}}
    /\ Answer(r, 503)
    /\ UNCHANGED <<age, topic, crashes>>

\* verifyOrg, then verifyEndUser if the event names an end user.
VerifyOrg(r) ==
    /\ spc[r] = "org"
    /\ Goto(r, IF sevent[r].org \notin KnownOrgs THEN "rollback403"
               ELSE IF sevent[r].eu = "none" THEN "publish" ELSE "eu")
    /\ UNCHANGED <<idem, age, topic, faults, crashes>>

VerifyEndUser(r) ==
    /\ spc[r] = "eu"
    /\ Goto(r, IF sevent[r].eu = "member" THEN "publish" ELSE "rollback422")
    /\ UNCHANGED <<idem, age, topic, faults, crashes>>

\* The lookup misses the cache and Postgres fails: as if it was not found.
LookupError(r) ==
    /\ spc[r] \in {"org", "eu"}
    /\ Fault
    /\ Goto(r, IF spc[r] = "org" THEN "rollback403" ELSE "rollback422")
    /\ UNCHANGED <<idem, age, topic, crashes>>

\* The status that follows the rollback of the claim.
RollbackStatus(r) == IF spc[r] = "rollback403" THEN 403 ELSE 422

\* Mutant of Rollback: the claim is not given back.
RollbackForgotten(r) ==
    /\ spc[r] \in {"rollback403", "rollback422"}
    /\ Answer(r, RollbackStatus(r))
    /\ UNCHANGED <<idem, age, topic, faults, crashes>>

\* DEL idem:{org_id}:{event_id}, then the answer.
Rollback(r) ==
    /\ spc[r] \in {"rollback403", "rollback422"}
    /\ idem' = idem \ {KeyOf(sevent[r])}
    /\ Answer(r, RollbackStatus(r))
    /\ UNCHANGED <<age, topic, faults, crashes>>

\* The DEL fails (its error is ignored): the claim stays.
RollbackError(r) ==
    /\ spc[r] \in {"rollback403", "rollback422"}
    /\ Fault
    /\ Answer(r, RollbackStatus(r))
    /\ UNCHANGED <<idem, age, topic, crashes>>

Message(r) == [req |-> r, pos |-> 1, key |-> KeyOf(sevent[r]),
               age |-> age[KeyOf(sevent[r])]]

\* Mutant of Publish: the claim is given back once the event is published.
PublishAndRelease(r) ==
    /\ spc[r] = "publish"
    /\ topic' = topic \cup {Message(r)}
    /\ idem' = idem \ {KeyOf(sevent[r])}
    /\ Answer(r, 202)
    /\ UNCHANGED <<age, faults, crashes>>

\* The event is published: 202.
Publish(r) ==
    /\ spc[r] = "publish"
    /\ topic' = topic \cup {Message(r)}
    /\ Answer(r, 202)
    /\ UNCHANGED <<idem, age, faults, crashes>>

\* The publish fails, or no producer is configured: the error is logged and
\* the answer is 202 all the same.  Kafka may have the message.
PublishError(r) ==
    /\ spc[r] = "publish"
    /\ Fault
    /\ topic' \in {topic, topic \cup {Message(r)}}
    /\ Answer(r, 202)
    /\ UNCHANGED <<idem, age, crashes>>

InFlight(r) == spc[r] \notin {"idle", "done", "dead"}

\* The process of the handler dies: the request is never answered.
Kill(r) ==
    /\ InFlight(r)
    /\ crashes < MaxCrashes
    /\ crashes' = crashes + 1
    /\ Goto(r, "dead")
    /\ UNCHANGED <<idem, age, topic, faults>>

\* Request r is between its SETNX of key k and its answer.
Claims(r, k) ==
    /\ spc[r] \in {"org", "eu", "rollback403", "rollback422", "publish"}
    /\ KeyOf(sevent[r]) = k

\* Mutant of Expire: the TTL is shorter than a request may take.
ExpireEarly(k) ==
    /\ k \in idem
    /\ age[k] < MaxExpiries
    /\ idem' = idem \ {k}
    /\ age' = [age EXCEPT ![k] = @ + 1]
    /\ UNCHANGED <<topic, spc, sevent, sresp, faults, crashes>>

\* An idempotency key reaches its TTL; the request that set it is over.  A retry
\* of it may be on its way to its SETNX.
Expire(k) ==
    /\ k \in idem
    /\ age[k] < MaxExpiries
    /\ \A r \in Requests : ~Claims(r, k)
    /\ idem' = idem \ {k}
    /\ age' = [age EXCEPT ![k] = @ + 1]
    /\ UNCHANGED <<topic, spc, sevent, sresp, faults, crashes>>

\* Every request has been answered or has died.
Idle ==
    /\ \A r \in Requests : spc[r] \in {"done", "dead"}
    /\ UNCHANGED svars

Step(r) ==
    \/ Refuse(r)
    \/ \E e \in Events : Receive(r, e)
    \/ SetNX(r)
    \/ SetNXError(r)
    \/ VerifyOrg(r)
    \/ VerifyEndUser(r)
    \/ LookupError(r)
    \/ Rollback(r)
    \/ RollbackError(r)
    \/ Publish(r)
    \/ PublishError(r)
    \/ Kill(r)

Next ==
    \/ \E r \in Requests : Step(r)
    \/ \E k \in Keys : Expire(k)
    \/ Idle

Spec == Init /\ [][Next]_svars

-----------------------------------------------------------------------------
(* Properties. *)

\* Every variable has its type, and a handler past the parsing of its request
\* has an event.
TypeOK ==
    /\ idem \subseteq Keys
    /\ age \in [Keys -> 0..MaxExpiries]
    /\ topic \subseteq [req : Requests, pos : {1}, key : Keys, age : 0..MaxExpiries]
    /\ spc \in [Requests -> {"idle", "setnx", "org", "eu", "rollback403",
                             "rollback422", "publish", "done", "dead"}]
    /\ sevent \in [Requests -> Events \cup {NoEvent}]
    /\ \A r \in Requests : InFlight(r) => sevent[r] \in Events
    /\ sresp \in [Requests -> {0, 202, 400, 403, 409, 422, 503}]
    /\ faults \in 0..MaxFaults
    /\ crashes \in 0..MaxCrashes

\* Request r has published the event with key k less than a TTL ago.
Delivered(r, k) ==
    \E m \in topic : m.req = r /\ m.key = k /\ m.age = age[k]

\* However requests interleave, fail, roll back and die, no two requests to
\* /v1/events publish the same event within one IDEMPOTENCY_TTL.
AtMostOnce ==
    \A m1, m2 \in topic :
        ({m1.req, m2.req} \subseteq Requests /\ m1.key = m2.key /\ m1.age = m2.age)
            => m1 = m2

\* A published event keeps its idempotency key for a TTL, so a retry of it gets
\* 409: no rollback of another request gives the key away.
PublishedStaysClaimed == \A m \in topic : m.age = age[m.key] => m.key \in idem

\* As long as nothing fails, a key in Redis belongs to a request in flight or
\* to a published event: an event that was refused can be sent again.  A 409
\* says no more than that: the request it is a duplicate of may still be in
\* flight, fail its checks with 403 or 422 and give the key back.
ClaimBacked ==
    (faults = 0 /\ crashes = 0) =>
        \A k \in idem : \E r \in Requests : Claims(r, k) \/ Delivered(r, k)

\* The claims and the deliveries of the single path.
Held == {p \in Requests \X Keys : Claims(p[1], p[2])}
Deliveries == {p \in Requests \X Keys : Delivered(p[1], p[2])}

\* The single path implements the ledger of claims: the request between SETNX
\* and answer is the holder, a message of the current TTL is the delivery.
Ledger == INSTANCE ClaimLedger WITH
    Clients <- Requests, Items <- Keys, held <- Held, delivered <- Deliveries

\* HandleSingleEvent keeps every promise of the ledger, through every error,
\* rollback, crash and expiry.
ImplementsLedger == Ledger!Spec

=============================================================================
