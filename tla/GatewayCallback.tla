---------------------------- MODULE GatewayCallback ----------------------------
(***************************************************************************)
(* The LiteLLM callback of gateway/custom_logger.py: it builds a usage     *)
(* event and _post_event posts it to the ingest API, with retries and a    *)
(* dead-letter file.  The ingest API is Ingest: attempt n of callback c is *)
(* the single request <<c, n>>; other clients of the organization send     *)
(* batches, with the same event ids or others.                             *)
(*                                                                         *)
(* A request that was sent may arrive late, after the client gave up on    *)
(* it, or never; its answer may be lost.  The client authenticates with    *)
(* one service key, so EnrichFromKeyContext gives every event the          *)
(* organization of that key.                                               *)
(***************************************************************************)
EXTENDS Naturals, Sequences, FiniteSets

CONSTANTS
    Callbacks,    \* calls of a success or failure handler
    MaxRetries,   \* CALLBACK_MAX_RETRIES
    ServiceOrg,   \* the organization of QB_SERVICE_INGEST_KEY
    EventIds,     \* ids of LiteLLM calls; two callbacks may have the same
    NoEvent,      \* the event of a callback that has built none
    Batches,      \* the batches other clients send
    MaxBatchLen,  \* MAX_BATCH_SIZE
    MaxFaults,    \* bound: calls of the ingest API, or file writes, that fail
    MaxCrashes    \* bound: ingest handlers that die with their process

\* The single requests to the ingest API.
Attempts == Callbacks \X (1..MaxRetries)

ASSUME CallbackAssumption ==
    /\ MaxRetries \in Nat \ {0}
    /\ MaxFaults \in Nat
    /\ Batches \cap Attempts = {}

VARIABLES
    idem, topic, faults, crashes, spc, sevent, sresp,            \* Ingest
    bloomModule, bloom, bpc, borg, bitems, bvalid, bidx, bexists,
    blocal, baccepted, bfailed, bresp, bprior,
    gpc,         \* gpc[c]: where _post_event is
    gevent,      \* gevent[c]: the event of _build_event
    gattempt,    \* gattempt[c]: the attempt at hand, from 1
    sent,        \* the requests that were sent
    deadLetter   \* the callbacks whose event is in the dead-letter file

I == INSTANCE Ingest WITH
        Requests <- Attempts, Orgs <- {ServiceOrg}, KnownOrgs <- {ServiceOrg}

ASSUME NoEventAssumption == NoEvent \notin I!S!Events

singleVars == <<spc, sevent, sresp>>
batchVars == <<bloomModule, bloom, bpc, borg, bitems, bvalid, bidx, bexists,
               blocal, baccepted, bfailed, bresp, bprior>>
ingestVars == <<idem, topic, faults, crashes, singleVars, batchVars>>
callbackVars == <<gpc, gevent, gattempt, sent, deadLetter>>
vars == <<ingestVars, callbackVars>>

Init ==
    /\ I!Init
    /\ gpc = [c \in Callbacks |-> "idle"]
    /\ gevent = [c \in Callbacks |-> NoEvent]
    /\ gattempt = [c \in Callbacks |-> 1]
    /\ sent = {}
    /\ deadLetter = {}

-----------------------------------------------------------------------------

\* The request at hand.
Current(c) == <<c, gattempt[c]>>

\* The handler builds the event; its end user is that of the key's metadata.
BuildEvent(c, e) ==
    /\ gpc[c] = "idle"
    /\ gevent' = [gevent EXCEPT ![c] = e]
    /\ gpc' = [gpc EXCEPT ![c] = "post"]
    /\ UNCHANGED <<ingestVars, gattempt, sent, deadLetter>>

\* _build_event raises, on a usage that is None or on times it cannot subtract:
\* the handler logs the error and returns.  Nothing is posted, and nothing goes
\* to the dead-letter file.
BuildEventError(c) ==
    /\ gpc[c] = "idle"
    /\ gpc' = [gpc EXCEPT ![c] = "done"]
    /\ UNCHANGED <<ingestVars, gevent, gattempt, sent, deadLetter>>

\* requests.post: the request is on its way.
Post(c) ==
    /\ gpc[c] = "post"
    /\ sent' = sent \cup {Current(c)}
    /\ gpc' = [gpc EXCEPT ![c] = "wait"]
    /\ UNCHANGED <<ingestVars, gevent, gattempt, deadLetter>>

\* Mutant of NextAttempt: one attempt too many.
NextAttemptOffByOne(c) ==
    IF gattempt[c] <= MaxRetries
    THEN /\ gattempt' = [gattempt EXCEPT ![c] = @ + 1]
         /\ gpc' = [gpc EXCEPT ![c] = "post"]
    ELSE /\ gpc' = [gpc EXCEPT ![c] = "deadletter"]
         /\ UNCHANGED gattempt

\* The attempt has failed: the next one, or the dead-letter file.
NextAttempt(c) ==
    IF gattempt[c] < MaxRetries
    THEN /\ gattempt' = [gattempt EXCEPT ![c] = @ + 1]
         /\ gpc' = [gpc EXCEPT ![c] = "post"]
    ELSE /\ gpc' = [gpc EXCEPT ![c] = "deadletter"]
         /\ UNCHANGED gattempt

\* Mutant of Answered: a duplicate is taken for an event that was processed.
AnsweredDuplicateSkipped(c) ==
    /\ gpc[c] = "wait"
    /\ sresp[Current(c)] # 0
    /\ IF sresp[Current(c)] \in {202, 409}
       THEN gpc' = [gpc EXCEPT ![c] = "done"] /\ UNCHANGED gattempt
       ELSE NextAttempt(c)
    /\ UNCHANGED <<ingestVars, gevent, sent, deadLetter>>

\* The answer arrives: 202 ends the callback, anything else is a failure, 409
\* (the event was claimed before) too.
Answered(c) ==
    /\ gpc[c] = "wait"
    /\ sresp[Current(c)] # 0
    /\ IF sresp[Current(c)] = 202
       THEN gpc' = [gpc EXCEPT ![c] = "done"] /\ UNCHANGED gattempt
       ELSE NextAttempt(c)
    /\ UNCHANGED <<ingestVars, gevent, sent, deadLetter>>

\* RequestException: no connection, a reset, or no answer within 5 seconds,
\* wherever the request is by then.
Unreachable(c) ==
    /\ gpc[c] = "wait"
    /\ NextAttempt(c)
    /\ UNCHANGED <<ingestVars, gevent, sent, deadLetter>>

\* The event is appended to the dead-letter file.
DeadLetter(c) ==
    /\ gpc[c] = "deadletter"
    /\ deadLetter' = deadLetter \cup {c}
    /\ gpc' = [gpc EXCEPT ![c] = "done"]
    /\ UNCHANGED <<ingestVars, gevent, gattempt, sent>>

\* The file cannot be written: the event is only logged.
DeadLetterError(c) ==
    /\ gpc[c] = "deadletter"
    /\ I!S!Fault
    /\ gpc' = [gpc EXCEPT ![c] = "done"]
    /\ UNCHANGED <<idem, topic, crashes, singleVars, batchVars, gevent,
                   gattempt, sent, deadLetter>>

\* A step of the ingest API on a request that was sent, with its event.
IngestStep(r) ==
    /\ r \in sent
    /\ I!SingleStep(r)
    /\ sevent'[r] \in {NoEvent, gevent[r[1]]}
    /\ UNCHANGED callbackVars

\* A step of the ingest API on a batch.
BatchStep(b) == I!BatchStep(b) /\ UNCHANGED callbackVars

\* Every callback has returned and every batch was answered or has died;
\* requests still on their way may be lost.
Idle ==
    /\ \A c \in Callbacks : gpc[c] = "done"
    /\ \A b \in Batches : bpc[b] \in {"done", "dead"}
    /\ UNCHANGED vars

CallbackStep(c) ==
    \/ \E e \in I!S!Events : BuildEvent(c, e)
    \/ BuildEventError(c)
    \/ Post(c)
    \/ Answered(c)
    \/ Unreachable(c)
    \/ DeadLetter(c)
    \/ DeadLetterError(c)

Next ==
    \/ \E c \in Callbacks : CallbackStep(c)
    \/ \E r \in Attempts : IngestStep(r)
    \/ \E b \in Batches : BatchStep(b)
    \/ Idle

Spec == Init /\ [][Next]_vars

-----------------------------------------------------------------------------
(* Properties. *)

\* Every variable of the callback has its type; no callback makes more than
\* MaxRetries attempts, and no request arrives that was not sent.
TypeOK ==
    /\ gpc \in [Callbacks -> {"idle", "post", "wait", "deadletter", "done"}]
    /\ gevent \in [Callbacks -> I!S!Events \cup {NoEvent}]
    /\ gattempt \in [Callbacks -> 1..MaxRetries]
    /\ sent \subseteq Attempts
    /\ \A r \in Attempts : spc[r] # "idle" => r \in sent
    /\ deadLetter \subseteq Callbacks

\* The event of callback c is in the topic, published for one of its attempts.
Published(c) ==
    \E m \in topic, n \in 1..MaxRetries :
        m.req = <<c, n>> /\ m.key = I!S!KeyOf(gevent[c])

\* The retries of a callback, a request of it that arrives after the client
\* gave up on it, and another callback with the same id, publish an event at
\* most once between them, whatever batches do to the idempotency keys.
RetriesPublishOnce == I!SingleAtMostOnce

\* Unless a call has failed, a callback that has built its event and has
\* returned has the event in the topic or in the dead-letter file, whatever
\* arrives late or never, also when an ingest process dies after it has claimed
\* the event, or a batch has.  (An event that _build_event cannot build is only
\* logged.)
NothingDropped ==
    faults = 0 =>
        \A c \in Callbacks :
            (gpc[c] = "done" /\ gevent[c] # NoEvent) =>
                Published(c) \/ c \in deadLetter

\* The claims and the deliveries of a callback are those of its attempts.
Claims(c, k) == \E n \in 1..MaxRetries : I!S!Claims(<<c, n>>, k)
Delivered(c, k) == \E n \in 1..MaxRetries : I!S!Delivered(<<c, n>>, k)

Held == {p \in Callbacks \X I!S!Keys : Claims(p[1], p[2])}
Deliveries == {p \in Callbacks \X I!S!Keys : Delivered(p[1], p[2])}

Ledger == INSTANCE ClaimLedger WITH
    Clients <- Callbacks, Items <- I!S!Keys, held <- Held, delivered <- Deliveries

\* The ledger of claims holds between callbacks, each with all its retries, and
\* not only between requests: an attempt that is still running, was answered too
\* late or has died never lets another attempt of the callback, or of another
\* callback, deliver the event a second time.
CallbacksKeepLedger == Ledger!Spec

=============================================================================
