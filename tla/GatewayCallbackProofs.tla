------------------------- MODULE GatewayCallbackProofs -------------------------
(***************************************************************************)
(* Proofs about GatewayCallback: the callback's retries against the ingest *)
(* API, for any number of callbacks, attempts, batches of other clients,   *)
(* failing calls and crashes.  What IngestSingleProofs shows of the single *)
(* path alone is shown here with batches on the same keys and topic.       *)
(***************************************************************************)
EXTENDS GatewayCallback, TLAPS

\* The messages of the single path.
SingleMessages == [req : Attempts, pos : {1}, key : I!S!Keys, age : {0}]

\* The requests of the callbacks at the ingest API have their types.
SingleOK ==
    /\ spc \in [Attempts -> {"idle", "setnx", "org", "eu", "rollback403",
                             "rollback422", "publish", "done", "dead"}]
    /\ sevent \in [Attempts -> I!S!Events \cup {NoEvent}]
    /\ sresp \in [Attempts -> {0, 202, 400, 403, 409, 422, 503}]
    /\ \A r \in Attempts : I!S!InFlight(r) => sevent[r] \in I!S!Events
    /\ \A m \in topic : m.req \in Attempts => m \in SingleMessages
    /\ faults \in Nat

\* A request carries the event of its callback, from its arrival on; a callback
\* that has not started has neither.
CarriesOwnEvent ==
    \A c \in Callbacks, n \in 1..MaxRetries :
        /\ sevent[<<c, n>>] \in {NoEvent, gevent[c]}
        /\ spc[<<c, n>>] = "idle" => sevent[<<c, n>>] = NoEvent
        /\ gpc[c] = "idle" => <<c, n>> \notin sent /\ gevent[c] = NoEvent

TypeInv == TypeOK /\ SingleOK /\ CarriesOwnEvent

\* The key of an event, and what the key and the message of an event are.
LEMMA KeyType ==
    ASSUME NEW e \in I!S!Events
    PROVE  I!S!KeyOf(e) \in I!S!Keys
BY DEF I!S!Events, I!S!KeyOf, I!S!Keys

LEMMA MessageType ==
    ASSUME NEW r \in Attempts, sevent[r] \in I!S!Events
    PROVE  /\ I!S!Message(r) \in SingleMessages
           /\ I!S!Message(r).req = r
           /\ I!S!Message(r).key = I!S!KeyOf(sevent[r])
           /\ I!S!Message(r).age = 0
BY KeyType DEF I!S!Message, SingleMessages, I!S!Keys

\* A message counts as delivered whatever its age: no key expires here.
LEMMA DeliveredDef ==
    ASSUME NEW r \in Attempts, NEW k \in I!S!Keys
    PROVE  I!S!Delivered(r, k) <=> \E m \in topic : m.req = r /\ m.key = k /\ m.age = 0
BY DEF I!S!Delivered, I!S!Keys

-----------------------------------------------------------------------------
(***************************************************************************)
(* What a step of another actor leaves alone.                              *)
(***************************************************************************)

\* A step of a batch adds idempotency keys and messages of its own.
LEMMA BatchEffect ==
    ASSUME NEW b \in Batches, BatchStep(b), faults \in Nat
    PROVE  /\ idem \subseteq idem' /\ topic \subseteq topic'
           /\ \A m \in topic' : m \in topic \/ m.req = b
           /\ UNCHANGED <<spc, sevent, sresp, gpc, gevent, gattempt, sent, deadLetter>>
           /\ faults' \in Nat /\ (faults' = 0 => faults = 0)
<1> USE DEF BatchStep, I!BatchStep, I!singleVars, callbackVars, I!B!Fault
<1>1. UNCHANGED <<spc, sevent, sresp, gpc, gevent, gattempt, sent, deadLetter>>
  OBVIOUS
<1>2. CASE I!B!Refuse(b)
  BY <1>1, <1>2 DEF I!B!Refuse
<1>3. ASSUME NEW o, NEW items, I!B!Receive(b, o, items)
      PROVE  idem' = idem /\ topic' = topic /\ faults' = faults
  BY <1>3 DEF I!B!Receive
<1>4. CASE I!B!Lookup(b) \/ I!B!LookupError(b)
  BY <1>1, <1>4 DEF I!B!Lookup, I!B!LookupError
<1>5. CASE I!B!SkipInvalid(b) \/ I!B!BloomExists(b) \/ I!B!NoValidEvents(b) \/ I!B!Kill(b)
  BY <1>1, <1>5 DEF I!B!SkipInvalid, I!B!BloomExists, I!B!NoValidEvents, I!B!Kill
<1>6. CASE I!B!BloomFallback(b) \/ I!B!BloomAdd(b) \/ I!B!BloomAddError(b)
  BY <1>1, <1>6 DEF I!B!BloomFallback, I!B!BloomAdd, I!B!BloomAddError, I!B!BloomDown
<1>7. CASE I!B!CheckSetNX(b) \/ I!B!CheckSetNXError(b)
  BY <1>1, <1>7 DEF I!B!CheckSetNX, I!B!CheckSetNXError
<1>8. CASE I!B!NewSetNX(b) \/ I!B!NewSetNXError(b)
  BY <1>1, <1>8 DEF I!B!NewSetNX, I!B!NewSetNXError
<1>9. CASE I!B!PublishBatch(b) \/ I!B!PublishBatchError(b)
  <2>1. PICK positions : topic' = topic \cup I!B!Messages(b, positions)
    BY <1>9 DEF I!B!PublishBatch, I!B!PublishBatchError
  <2>2. \A m \in I!B!Messages(b, positions) : m.req = b
    BY DEF I!B!Messages
  <2> QED BY <1>1, <1>9, <2>1, <2>2 DEF I!B!PublishBatch, I!B!PublishBatchError
<1> QED BY <1>1, <1>2, <1>3, <1>4, <1>5, <1>6, <1>7, <1>8, <1>9 DEF I!B!Step

\* A step of a callback leaves the ingest API alone.
LEMMA CallbackEffect ==
    ASSUME NEW c \in Callbacks, CallbackStep(c), faults \in Nat
    PROVE  /\ UNCHANGED <<idem, topic, spc, sevent, sresp>>
           /\ faults' \in Nat /\ (faults' = 0 => faults = 0)
BY DEF CallbackStep, BuildEvent, BuildEventError, Post, Answered, Unreachable,
   DeadLetter, DeadLetterError, I!S!Fault, ingestVars, singleVars

-----------------------------------------------------------------------------
(***************************************************************************)
(* Type correctness.                                                       *)
(***************************************************************************)

\* The steps of the callback keep the types, the bound on attempts among them.
LEMMA CallbackTypeInv ==
    ASSUME TypeInv, NEW c \in Callbacks, CallbackStep(c)
    PROVE  TypeInv'
<1>1. /\ UNCHANGED <<idem, topic, spc, sevent, sresp>>
      /\ faults' \in Nat
  BY CallbackEffect DEF TypeInv, SingleOK
<1>2. SingleOK'
  BY <1>1 DEF TypeInv, SingleOK, I!S!InFlight
<1> USE CallbackAssumption DEF TypeInv, TypeOK, CarriesOwnEvent, Attempts
<1>3. ASSUME NEW e \in I!S!Events, BuildEvent(c, e) PROVE TypeInv'
  <2>1. TypeOK'
    BY <1>1, <1>3 DEF BuildEvent
  <2>2. \A n \in 1..MaxRetries : sevent[<<c, n>>] = NoEvent
    BY <1>3 DEF BuildEvent
  <2>3. /\ \A d \in Callbacks : d # c => gevent'[d] = gevent[d] /\ gpc'[d] = gpc[d]
        /\ gpc'[c] = "post" /\ sent' = sent
    BY <1>3 DEF BuildEvent
  <2>4. CarriesOwnEvent'
    <3> SUFFICES ASSUME NEW d \in Callbacks, NEW n \in 1..MaxRetries
                 PROVE  /\ sevent'[<<d, n>>] \in {NoEvent, gevent'[d]}
                        /\ spc'[<<d, n>>] = "idle" => sevent'[<<d, n>>] = NoEvent
                        /\ gpc'[d] = "idle" => <<d, n>> \notin sent' /\ gevent'[d] = NoEvent
      OBVIOUS
    <3>1. /\ sevent[<<d, n>>] \in {NoEvent, gevent[d]}
          /\ spc[<<d, n>>] = "idle" => sevent[<<d, n>>] = NoEvent
          /\ gpc[d] = "idle" => <<d, n>> \notin sent /\ gevent[d] = NoEvent
      OBVIOUS
    <3> HIDE DEF TypeInv, TypeOK, CarriesOwnEvent
    <3>2. CASE d = c
      BY <1>1, <2>2, <2>3, <3>1, <3>2
    <3>3. CASE d # c
      BY <1>1, <2>3, <3>1, <3>3
    <3> QED BY <3>2, <3>3
  <2> QED BY <1>2, <2>1, <2>4
<1>4. CASE Post(c)
  <2>1. Current(c) \in Attempts
    BY DEF Current
  <2>2. TypeOK'
    BY <1>1, <1>4, <2>1 DEF Post
  <2>3. CarriesOwnEvent'
    BY <1>1, <1>4 DEF Post, Current
  <2> QED BY <1>2, <2>2, <2>3
<1>5. CASE Answered(c) \/ Unreachable(c)
  <2>1. NextAttempt(c) \/ (gpc' = [gpc EXCEPT ![c] = "done"] /\ gattempt' = gattempt)
    BY <1>5 DEF Answered, Unreachable
  <2>2. gattempt' \in [Callbacks -> 1..MaxRetries]
    <3>1. gattempt[c] \in 1..MaxRetries /\ (gattempt[c] < MaxRetries => gattempt[c] + 1 \in 1..MaxRetries)
      OBVIOUS
    <3> QED BY <2>1, <3>1 DEF NextAttempt
  <2>3. gpc' \in [Callbacks -> {"idle", "post", "wait", "deadletter", "done"}]
    BY <2>1 DEF NextAttempt
  <2>4. TypeOK'
    BY <1>1, <1>5, <2>2, <2>3 DEF Answered, Unreachable
  <2>5. \A d \in Callbacks : gpc'[d] = "idle" => gpc[d] = "idle"
    BY <2>1 DEF NextAttempt
  <2>6. CarriesOwnEvent'
    BY <1>1, <1>5, <2>5 DEF Answered, Unreachable
  <2> QED BY <1>2, <2>4, <2>6
<1>6. CASE DeadLetter(c) \/ DeadLetterError(c)
  <2>1. TypeOK'
    BY <1>1, <1>6 DEF DeadLetter, DeadLetterError
  <2>2. CarriesOwnEvent'
    BY <1>1, <1>6 DEF DeadLetter, DeadLetterError
  <2> QED BY <1>2, <2>1, <2>2
<1>7. CASE BuildEventError(c)
  <2>1. TypeOK'
    BY <1>1, <1>7 DEF BuildEventError
  <2>2. CarriesOwnEvent'
    BY <1>1, <1>7 DEF BuildEventError
  <2> QED BY <1>2, <2>1, <2>2
<1> QED BY <1>3, <1>4, <1>5, <1>6, <1>7 DEF CallbackStep

\* So do the steps of a batch: its messages are not those of a single request.
LEMMA BatchTypeInv ==
    ASSUME TypeInv, NEW b \in Batches, BatchStep(b)
    PROVE  TypeInv'
<1>1. /\ topic \subseteq topic' /\ \A m \in topic' : m \in topic \/ m.req = b
      /\ UNCHANGED <<spc, sevent, sresp, gpc, gevent, gattempt, sent, deadLetter>>
      /\ faults' \in Nat
  BY BatchEffect DEF TypeInv, SingleOK
<1>2. b \notin Attempts
  BY CallbackAssumption
<1> QED BY <1>1, <1>2 DEF TypeInv, TypeOK, SingleOK, CarriesOwnEvent, I!S!InFlight

\* What a step of the ingest API on request r does to the requests: it touches
\* r alone, and changes its event only when r arrives.
LEMMA IngestEffect ==
    ASSUME TypeInv, NEW r \in Attempts, IngestStep(r)
    PROVE  /\ UNCHANGED <<gpc, gevent, gattempt, sent, deadLetter>>
           /\ spc[r] \notin {"done", "dead"}
           /\ spc' = [spc EXCEPT ![r] = spc'[r]]
           /\ sevent' = [sevent EXCEPT ![r] = sevent'[r]]
           /\ sresp' = [sresp EXCEPT ![r] = sresp'[r]]
           /\ spc'[r] \in {"setnx", "org", "eu", "rollback403", "rollback422",
                           "publish", "done", "dead"}
           /\ sresp'[r] \in {0, 202, 400, 403, 409, 422, 503}
           /\ sevent'[r] \in {NoEvent, gevent[r[1]]}
           /\ \/ sevent' = sevent
              \/ spc[r] = "idle" /\ sevent'[r] \in I!S!Events
           /\ I!S!InFlight(r)' => sevent'[r] \in I!S!Events
           /\ faults' \in Nat /\ (faults' = 0 => faults = 0)
<1> USE DEF TypeInv, SingleOK, IngestStep, I!SingleStep, callbackVars, I!S!Goto,
    I!S!Answer, I!S!Fault, I!S!InFlight, I!S!RollbackStatus
<1>1. CASE I!S!Refuse(r)
  BY <1>1 DEF I!S!Refuse
<1>2. ASSUME NEW e \in I!S!Events, I!S!Receive(r, e)
      PROVE  /\ spc' = [spc EXCEPT ![r] = "setnx"]
             /\ sevent' = [sevent EXCEPT ![r] = e]
             /\ spc[r] = "idle"
             /\ UNCHANGED <<sresp, faults>>
  BY <1>2 DEF I!S!Receive
<1>3. CASE I!S!SetNX(r)
  BY <1>3 DEF I!S!SetNX
<1>4. CASE I!S!SetNXError(r)
  BY <1>4 DEF I!S!SetNXError
<1>5. CASE I!S!VerifyOrg(r)
  BY <1>5 DEF I!S!VerifyOrg
<1>6. CASE I!S!VerifyEndUser(r)
  BY <1>6 DEF I!S!VerifyEndUser
<1>7. CASE I!S!LookupError(r)
  BY <1>7 DEF I!S!LookupError
<1>8. CASE I!S!Rollback(r)
  BY <1>8 DEF I!S!Rollback
<1>9. CASE I!S!RollbackError(r)
  BY <1>9 DEF I!S!RollbackError
<1>10. CASE I!S!Publish(r)
  BY <1>10 DEF I!S!Publish
<1>11. CASE I!S!PublishError(r)
  BY <1>11 DEF I!S!PublishError
<1>12. CASE I!S!Kill(r)
  BY <1>12 DEF I!S!Kill
<1> QED BY <1>1, <1>2, <1>3, <1>4, <1>5, <1>6, <1>7, <1>8, <1>9, <1>10, <1>11, <1>12
        DEF I!S!Step

\* What it does to the topic: a message of r, and only when r is answered.
LEMMA IngestTopic ==
    ASSUME TypeInv, NEW r \in Attempts, IngestStep(r)
    PROVE  \/ topic' = topic
           \/ /\ spc[r] = "publish" /\ spc'[r] = "done" /\ sresp'[r] = 202
              /\ topic' = topic \cup {I!S!Message(r)}
              /\ UNCHANGED <<idem, sevent>>
<1> USE DEF TypeInv, SingleOK, IngestStep, I!SingleStep, I!S!Answer
<1>1. CASE I!S!Publish(r)
  BY <1>1 DEF I!S!Publish
<1>2. CASE I!S!PublishError(r)
  BY <1>2 DEF I!S!PublishError
<1>3. CASE ~I!S!Publish(r) /\ ~I!S!PublishError(r)
  BY <1>3 DEF I!S!Step, I!S!Refuse, I!S!Receive, I!S!SetNX, I!S!SetNXError, I!S!VerifyOrg,
     I!S!VerifyEndUser, I!S!LookupError, I!S!Rollback, I!S!RollbackError, I!S!Kill
<1> QED BY <1>1, <1>2, <1>3

\* The steps of the ingest API on a request keep the types.
LEMMA IngestTypeInv ==
    ASSUME TypeInv, NEW r \in Attempts, IngestStep(r)
    PROVE  TypeInv'
<1> DEFINE p == spc'[r]
           e == sevent'[r]
           a == sresp'[r]
<1>1. /\ UNCHANGED <<gpc, gevent, gattempt, sent, deadLetter>>
      /\ spc' = [spc EXCEPT ![r] = p]
      /\ sevent' = [sevent EXCEPT ![r] = e]
      /\ sresp' = [sresp EXCEPT ![r] = a]
      /\ p \in {"setnx", "org", "eu", "rollback403", "rollback422", "publish", "done", "dead"}
      /\ a \in {0, 202, 400, 403, 409, 422, 503}
      /\ e \in {NoEvent, gevent[r[1]]}
      /\ e = sevent[r] \/ e \in I!S!Events
      /\ p \notin {"idle", "done", "dead"} => e \in I!S!Events
      /\ faults' \in Nat
  BY IngestEffect DEF I!S!InFlight
<1> HIDE DEF p, e, a
<1>2. r \in sent
  BY DEF IngestStep
<1>3. TypeOK'
  BY <1>1, <1>2 DEF TypeInv, TypeOK, SingleOK
<1>4. CarriesOwnEvent'
  <2> SUFFICES ASSUME NEW c \in Callbacks, NEW n \in 1..MaxRetries
               PROVE  /\ sevent'[<<c, n>>] \in {NoEvent, gevent'[c]}
                      /\ spc'[<<c, n>>] = "idle" => sevent'[<<c, n>>] = NoEvent
                      /\ gpc'[c] = "idle" => <<c, n>> \notin sent' /\ gevent'[c] = NoEvent
    BY DEF CarriesOwnEvent
  <2>1. <<c, n>> \in Attempts
    BY DEF Attempts
  <2>2. CASE <<c, n>> = r
    <3>1. r[1] = c /\ spc'[r] = p /\ sevent'[r] = e
      BY <1>1, <2>2 DEF TypeInv, SingleOK
    <3> QED BY <1>1, <2>2, <3>1 DEF TypeInv, CarriesOwnEvent
  <2>3. CASE <<c, n>> # r
    <3>1. spc'[<<c, n>>] = spc[<<c, n>>] /\ sevent'[<<c, n>>] = sevent[<<c, n>>]
      BY <1>1, <2>1, <2>3 DEF TypeInv, SingleOK
    <3> QED BY <1>1, <3>1 DEF TypeInv, CarriesOwnEvent
  <2> QED BY <2>2, <2>3
<1>5. \A m \in topic' : m.req \in Attempts => m \in SingleMessages
  <2>1. spc[r] = "publish" => I!S!Message(r) \in SingleMessages
    BY MessageType DEF TypeInv, SingleOK, I!S!InFlight
  <2> QED BY <2>1, IngestTopic DEF TypeInv, SingleOK
<1>6. SingleOK'
  BY <1>1, <1>5 DEF TypeInv, SingleOK, I!S!InFlight
<1> QED BY <1>3, <1>4, <1>6 DEF TypeInv

\* Every state is well typed, and every request carries the event of its callback.
LEMMA TypeInvAlways == Spec => []TypeInv
<1>1. Init => TypeInv
  BY CallbackAssumption DEF Init, I!Init, I!S!Init, I!B!Init, TypeInv, TypeOK, SingleOK,
     CarriesOwnEvent, I!S!InFlight, Attempts
<1>2. TypeInv /\ [Next]_vars => TypeInv'
  <2> SUFFICES ASSUME TypeInv, [Next]_vars PROVE TypeInv'
    OBVIOUS
  <2>1. CASE UNCHANGED vars
    BY <2>1 DEF vars, ingestVars, singleVars, callbackVars, TypeInv, TypeOK, SingleOK,
       CarriesOwnEvent, I!S!InFlight
  <2> QED BY <2>1, CallbackTypeInv, BatchTypeInv, IngestTypeInv DEF Next, Idle
<1> QED BY <1>1, <1>2, PTL DEF Spec

\* A callback makes at most CALLBACK_MAX_RETRIES attempts, and no request reaches
\* the ingest API that was not sent.
THEOREM TypeCorrect == Spec => []TypeOK
<1>1. TypeInv => TypeOK
  BY DEF TypeInv
<1> QED BY <1>1, TypeInvAlways, PTL

-----------------------------------------------------------------------------
(***************************************************************************)
(* The claim discipline, with batches on the same keys and topic.          *)
(***************************************************************************)

\* Request r has claimed the event with key k and has not given it back.
Holds(r, k) == I!S!Claims(r, k) \/ I!S!Delivered(r, k)

\* A handler publishes once, with its answer.
AnsweredIfPublished ==
    \A m \in topic : m.req \in Attempts => spc[m.req] = "done" /\ sresp[m.req] = 202

\* Whoever holds an event, in flight or published, has its key in Redis.
HeldIsClaimed == \A r \in Attempts, k \in I!S!Keys : Holds(r, k) => k \in idem

\* At most one request holds an event.
OneHolder ==
    \A r, q \in Attempts, k \in I!S!Keys : Holds(r, k) /\ Holds(q, k) => r = q

\* No request has two messages in the topic.
OneMessage ==
    \A m1, m2 \in topic : m1.req \in Attempts /\ m1.req = m2.req => m1 = m2

ClaimInv ==
    /\ AnsweredIfPublished
    /\ HeldIsClaimed
    /\ OneHolder
    /\ OneMessage

\* A step that touches no request, deletes no key and adds no message of a
\* request disturbs no claim.
LEMMA ClaimFrame ==
    ASSUME ClaimInv, UNCHANGED <<spc, sevent, sresp>>, idem \subseteq idem',
           topic \subseteq topic', \A m \in topic' : m \in topic \/ m.req \notin Attempts
    PROVE  /\ ClaimInv'
           /\ \A r \in Attempts, k \in I!S!Keys :
                 /\ I!S!Claims(r, k)' <=> I!S!Claims(r, k)
                 /\ I!S!Delivered(r, k)' <=> I!S!Delivered(r, k)
<1>1. \A r \in Attempts, k \in I!S!Keys :
        /\ I!S!Claims(r, k)' <=> I!S!Claims(r, k)
        /\ I!S!Delivered(r, k)' <=> I!S!Delivered(r, k)
  BY DEF I!S!Claims, I!S!Delivered
<1>2. AnsweredIfPublished' /\ OneMessage'
  BY DEF ClaimInv, AnsweredIfPublished, OneMessage
<1>3. HeldIsClaimed' /\ OneHolder'
  BY <1>1 DEF ClaimInv, HeldIsClaimed, OneHolder, Holds
<1> QED BY <1>1, <1>2, <1>3 DEF ClaimInv

\* A step of the ingest API that publishes nothing, with what it does to claims
\* and keys: a claim is taken only of a key that is not in Redis, and a key is
\* deleted only by the request that claims it, with the end of its claim.
LEMMA IngestClaims ==
    ASSUME TypeInv, ClaimInv, NEW r \in Attempts, IngestStep(r), topic' = topic
    PROVE  /\ \A q \in Attempts, k \in I!S!Keys :
                 I!S!Claims(q, k)' =>
                    \/ I!S!Claims(q, k) /\ (q = r => idem \subseteq idem')
                    \/ q = r /\ k \notin idem /\ idem' = idem \cup {k}
           /\ \A k \in idem : k \in idem' \/ I!S!Claims(r, k)
<1> USE KeyType DEF TypeInv, SingleOK, IngestStep, I!SingleStep, I!S!Goto, I!S!Answer,
    I!S!InFlight, I!S!Claims
<1>1. CASE I!S!Refuse(r)
  BY <1>1 DEF I!S!Refuse
<1>2. CASE \E e \in I!S!Events : I!S!Receive(r, e)
  BY <1>2 DEF I!S!Receive
<1>3. CASE I!S!SetNX(r)
  BY <1>3 DEF I!S!SetNX
<1>4. CASE I!S!SetNXError(r)
  BY <1>4 DEF I!S!SetNXError
<1>5. CASE I!S!VerifyOrg(r)
  BY <1>5 DEF I!S!VerifyOrg
<1>6. CASE I!S!VerifyEndUser(r)
  BY <1>6 DEF I!S!VerifyEndUser
<1>7. CASE I!S!LookupError(r)
  BY <1>7 DEF I!S!LookupError
<1>8. CASE I!S!Rollback(r)
  BY <1>8 DEF I!S!Rollback
<1>9. CASE I!S!RollbackError(r)
  BY <1>9 DEF I!S!RollbackError
<1>10. CASE I!S!Publish(r)
  BY <1>10 DEF I!S!Publish
<1>11. CASE I!S!PublishError(r)
  BY <1>11 DEF I!S!PublishError
<1>12. CASE I!S!Kill(r)
  BY <1>12 DEF I!S!Kill
<1> QED BY <1>1, <1>2, <1>3, <1>4, <1>5, <1>6, <1>7, <1>8, <1>9, <1>10, <1>11, <1>12
        DEF I!S!Step

\* A step that publishes: the claim of the request becomes its delivery.
LEMMA PublishClaims ==
    ASSUME TypeInv, NEW r \in Attempts, IngestStep(r), spc[r] = "publish",
           spc'[r] = "done", topic' = topic \cup {I!S!Message(r)}, sevent' = sevent
    PROVE  LET j == I!S!KeyOf(sevent[r])
           IN  /\ j \in I!S!Keys /\ I!S!Claims(r, j)
               /\ \A q \in Attempts, k \in I!S!Keys :
                     /\ I!S!Claims(q, k)' <=> I!S!Claims(q, k) /\ ~(q = r /\ k = j)
                     /\ I!S!Delivered(q, k)' <=> I!S!Delivered(q, k) \/ (q = r /\ k = j)
<1> DEFINE j == I!S!KeyOf(sevent[r])
           m == I!S!Message(r)
<1>1. sevent[r] \in I!S!Events
  BY DEF TypeInv, SingleOK, I!S!InFlight
<1>2. j \in I!S!Keys /\ I!S!Claims(r, j)
  BY <1>1, KeyType DEF I!S!Claims
<1>3. m.req = r /\ m.key = j /\ m.age = 0
  BY <1>1, MessageType
<1>4. spc' = [spc EXCEPT ![r] = "done"]
  BY IngestEffect
<1>5. \A q \in Attempts, k \in I!S!Keys :
        I!S!Claims(q, k)' <=> I!S!Claims(q, k) /\ ~(q = r /\ k = j)
  BY <1>4 DEF I!S!Claims, TypeInv, SingleOK
<1>6. topic' = topic \cup {m}
  OBVIOUS
<1> HIDE DEF m, j
<1>7. \A q \in Attempts, k \in I!S!Keys :
        I!S!Delivered(q, k)' <=> I!S!Delivered(q, k) \/ (q = r /\ k = j)
  BY <1>3, <1>6 DEF I!S!Delivered, I!S!Keys
<1> QED BY <1>2, <1>5, <1>7 DEF j

\* The steps of the ingest API on a request keep claims exclusive.
LEMMA IngestClaimInv ==
    ASSUME TypeInv, ClaimInv, NEW r \in Attempts, IngestStep(r)
    PROVE  ClaimInv'
<1>1. /\ spc[r] \notin {"done", "dead"}
      /\ \A q \in Attempts : q # r => spc'[q] = spc[q] /\ sresp'[q] = sresp[q]
  BY IngestEffect DEF TypeInv, SingleOK
<1>2. \A m \in topic : m.req # r
  BY <1>1 DEF ClaimInv, AnsweredIfPublished
<1>3. \A k \in I!S!Keys : ~I!S!Delivered(r, k)
  BY <1>2 DEF I!S!Delivered
<1>4. CASE topic' = topic
  <2>1. AnsweredIfPublished' /\ OneMessage'
    BY <1>1, <1>2, <1>4 DEF ClaimInv, AnsweredIfPublished, OneMessage
  <2>2. \A q \in Attempts, k \in I!S!Keys : I!S!Delivered(q, k)' <=> I!S!Delivered(q, k)
    BY <1>4 DEF I!S!Delivered
  <2>3. /\ \A q \in Attempts, k \in I!S!Keys :
              I!S!Claims(q, k)' =>
                 \/ I!S!Claims(q, k) /\ (q = r => idem \subseteq idem')
                 \/ q = r /\ k \notin idem /\ idem' = idem \cup {k}
        /\ \A k \in idem : k \in idem' \/ I!S!Claims(r, k)
    BY <1>4, IngestClaims
  <2>4. HeldIsClaimed' /\ OneHolder'
    BY <1>3, <2>2, <2>3 DEF ClaimInv, HeldIsClaimed, OneHolder, Holds
  <2> QED BY <2>1, <2>4 DEF ClaimInv
<1>5. CASE /\ spc[r] = "publish" /\ spc'[r] = "done" /\ sresp'[r] = 202
           /\ topic' = topic \cup {I!S!Message(r)}
           /\ UNCHANGED <<idem, sevent>>
  <2>1. sevent[r] \in I!S!Events
    BY <1>5 DEF TypeInv, SingleOK, I!S!InFlight
  <2>2. I!S!Message(r).req = r
    BY <2>1, MessageType
  <2>3. AnsweredIfPublished' /\ OneMessage'
    BY <1>1, <1>2, <1>5, <2>2 DEF ClaimInv, AnsweredIfPublished, OneMessage
  <2> DEFINE j == I!S!KeyOf(sevent[r])
  <2>4. /\ j \in I!S!Keys /\ I!S!Claims(r, j)
        /\ \A q \in Attempts, k \in I!S!Keys :
              /\ I!S!Claims(q, k)' <=> I!S!Claims(q, k) /\ ~(q = r /\ k = j)
              /\ I!S!Delivered(q, k)' <=> I!S!Delivered(q, k) \/ (q = r /\ k = j)
    BY <1>5, PublishClaims
  <2> HIDE DEF j
  <2>5. \A q \in Attempts, k \in I!S!Keys : Holds(q, k)' => Holds(q, k)
    BY <2>4 DEF Holds
  <2>6. HeldIsClaimed' /\ OneHolder'
    BY <1>5, <2>5 DEF ClaimInv, HeldIsClaimed, OneHolder
  <2> QED BY <2>3, <2>6 DEF ClaimInv
<1> QED BY <1>4, <1>5, IngestTopic

\* So do the steps of callbacks and of batches.
LEMMA OtherClaimInv ==
    ASSUME TypeInv, ClaimInv,
           \/ \E c \in Callbacks : CallbackStep(c)
           \/ \E b \in Batches : BatchStep(b)
           \/ UNCHANGED vars
    PROVE  /\ ClaimInv'
           /\ \A r \in Attempts, k \in I!S!Keys :
                 /\ I!S!Claims(r, k)' <=> I!S!Claims(r, k)
                 /\ I!S!Delivered(r, k)' <=> I!S!Delivered(r, k)
<1>0. faults \in Nat
  BY DEF TypeInv, SingleOK
<1>1. ASSUME NEW c \in Callbacks, CallbackStep(c)
      PROVE  UNCHANGED <<idem, topic, spc, sevent, sresp>>
  BY <1>0, <1>1, CallbackEffect
<1>2. ASSUME NEW b \in Batches, BatchStep(b)
      PROVE  /\ UNCHANGED <<spc, sevent, sresp>>
             /\ idem \subseteq idem' /\ topic \subseteq topic'
             /\ \A m \in topic' : m \in topic \/ m.req \notin Attempts
  BY <1>0, <1>2, BatchEffect, CallbackAssumption
<1>3. ASSUME UNCHANGED vars PROVE UNCHANGED <<idem, topic, spc, sevent, sresp>>
  BY <1>3 DEF vars, ingestVars, singleVars
<1> QED BY <1>1, <1>2, <1>3, ClaimFrame

\* Claims are exclusive in every reachable state.
LEMMA ClaimInvAlways == Spec => [](TypeInv /\ ClaimInv)
<1>1. Init => ClaimInv
  BY DEF Init, I!Init, I!S!Init, ClaimInv, AnsweredIfPublished, HeldIsClaimed, OneHolder,
     OneMessage, Holds, I!S!Claims, I!S!Delivered
<1>2. TypeInv /\ ClaimInv /\ [Next]_vars => ClaimInv'
  BY IngestClaimInv, OtherClaimInv DEF Next, Idle
<1> QED BY <1>1, <1>2, TypeInvAlways, PTL DEF Spec

\* However often callbacks retry, whatever arrives late and whatever batches do to
\* the idempotency keys, no event is published twice on the single path.
THEOREM CallbacksPublishOnce == Spec => []RetriesPublishOnce
<1>1. TypeInv /\ ClaimInv => RetriesPublishOnce
  <2> SUFFICES ASSUME TypeInv, ClaimInv, NEW m1 \in topic, NEW m2 \in topic,
                      {m1.req, m2.req} \subseteq Attempts, m1.key = m2.key
               PROVE  m1 = m2
    BY DEF RetriesPublishOnce, I!SingleAtMostOnce, I!S!AtMostOnce
  <2>1. m1.key \in I!S!Keys /\ m1.age = 0 /\ m2.age = 0
    BY DEF TypeInv, SingleOK, SingleMessages
  <2>2. Holds(m1.req, m1.key) /\ Holds(m2.req, m1.key)
    BY <2>1, DeliveredDef DEF Holds
  <2>3. m1.req = m2.req
    BY <2>1, <2>2 DEF ClaimInv, OneHolder
  <2> QED BY <2>3 DEF ClaimInv, OneMessage
<1> QED BY <1>1, ClaimInvAlways, PTL

-----------------------------------------------------------------------------
(***************************************************************************)
(* Nothing is dropped.                                                     *)
(***************************************************************************)

\* The event of callback c is in the topic, published for its attempt n.
PublishedBy(c, n) ==
    \E m \in topic : m.req = <<c, n>> /\ m.key = I!S!KeyOf(gevent[c])

\* Until a call fails, 202 means that the event of the request is in the topic.
AcceptedIsPublished ==
    faults = 0 =>
        \A c \in Callbacks, n \in 1..MaxRetries :
            sresp[<<c, n>>] = 202 => PublishedBy(c, n)

\* A request that was not sent has no answer.
NoAnswerYet ==
    \A c \in Callbacks, n \in 1..MaxRetries :
        <<c, n>> \notin sent => sresp[<<c, n>>] = 0

DropInv == AcceptedIsPublished /\ NoAnswerYet /\ NothingDropped

\* A step that leaves the callbacks alone and only adds messages drops nothing,
\* provided that what it answers 202 is published.
LEMMA DropFrame ==
    ASSUME DropInv, UNCHANGED <<gpc, gevent, sent, deadLetter>>, topic \subseteq topic',
           faults' = 0 => faults = 0,
           \A c \in Callbacks, n \in 1..MaxRetries :
              \/ sresp'[<<c, n>>] = sresp[<<c, n>>]
              \/ /\ <<c, n>> \in sent
                 /\ (faults' = 0 /\ sresp'[<<c, n>>] = 202) => PublishedBy(c, n)'
    PROVE  DropInv'
<1>0. \A c \in Callbacks, n \in 1..MaxRetries : PublishedBy(c, n) => PublishedBy(c, n)'
  BY DEF PublishedBy, I!S!KeyOf
<1>1. AcceptedIsPublished'
  BY <1>0 DEF DropInv, AcceptedIsPublished
<1>2. NoAnswerYet'
  BY DEF DropInv, NoAnswerYet
<1>3. \A c \in Callbacks : Published(c) => Published(c)'
  BY <1>0 DEF Published, PublishedBy
<1>4. NothingDropped'
  BY <1>3 DEF DropInv, NothingDropped
<1> QED BY <1>1, <1>2, <1>4 DEF DropInv

\* A request that is answered 202 by a step that does not fail is published by it.
LEMMA AcceptsWhatItPublishes ==
    ASSUME TypeInv, NEW r \in Attempts, IngestStep(r), faults' = 0, sresp'[r] = 202
    PROVE  \/ sresp'[r] = sresp[r]
           \/ spc[r] = "publish" /\ topic' = topic \cup {I!S!Message(r)}
<1> USE DEF TypeInv, SingleOK, IngestStep, I!SingleStep, I!S!Answer, I!S!Goto
<1>1. CASE I!S!Publish(r)
  BY <1>1 DEF I!S!Publish
<1>2. CASE I!S!PublishError(r)
  BY <1>2 DEF I!S!PublishError, I!S!Fault
<1>3. CASE ~I!S!Publish(r) /\ ~I!S!PublishError(r)
  BY <1>3 DEF I!S!Step, I!S!Refuse, I!S!Receive, I!S!SetNX, I!S!SetNXError, I!S!VerifyOrg,
     I!S!VerifyEndUser, I!S!LookupError, I!S!Rollback, I!S!RollbackError, I!S!Kill,
     I!S!RollbackStatus
<1> QED BY <1>1, <1>2, <1>3

\* The steps of the ingest API on a request drop nothing.
LEMMA IngestDropInv ==
    ASSUME TypeInv, DropInv, NEW r \in Attempts, IngestStep(r)
    PROVE  DropInv'
<1>1. /\ UNCHANGED <<gpc, gevent, sent, deadLetter>>
      /\ \A q \in Attempts : q # r => sresp'[q] = sresp[q]
      /\ faults' = 0 => faults = 0
  BY IngestEffect DEF TypeInv, SingleOK
<1>2. topic \subseteq topic'
  BY IngestTopic
<1>3. r \in sent
  BY DEF IngestStep
<1>4. ASSUME NEW c \in Callbacks, NEW n \in 1..MaxRetries, <<c, n>> = r,
             faults' = 0, sresp'[r] = 202, sresp'[r] # sresp[r]
      PROVE  PublishedBy(c, n)'
  <2>1. spc[r] = "publish" /\ topic' = topic \cup {I!S!Message(r)}
    BY <1>4, AcceptsWhatItPublishes
  <2>2. sevent[r] \in I!S!Events
    BY <2>1 DEF TypeInv, SingleOK, I!S!InFlight
  <2>3. sevent[r] = gevent[c]
    BY <1>4, <2>2, NoEventAssumption DEF TypeInv, CarriesOwnEvent
  <2>4. I!S!Message(r).req = r /\ I!S!Message(r).key = I!S!KeyOf(sevent[r])
    BY <2>2, MessageType
  <2>5. I!S!KeyOf(sevent[r]) = I!S!KeyOf(gevent[c])
    BY <2>3
  <2> QED BY <1>1, <1>4, <2>1, <2>4, <2>5 DEF PublishedBy
<1>5. ASSUME NEW c \in Callbacks, NEW n \in 1..MaxRetries
      PROVE  \/ sresp'[<<c, n>>] = sresp[<<c, n>>]
             \/ /\ <<c, n>> \in sent
                /\ (faults' = 0 /\ sresp'[<<c, n>>] = 202) => PublishedBy(c, n)'
  <2>1. <<c, n>> \in Attempts
    BY DEF Attempts
  <2> QED BY <1>1, <1>3, <1>4, <2>1
<1> QED BY <1>1, <1>2, <1>5, DropFrame

\* The steps of the callback drop nothing: it ends with 202 or in the file.
LEMMA CallbackDropInv ==
    ASSUME TypeInv, DropInv, NEW c \in Callbacks, CallbackStep(c)
    PROVE  DropInv'
<1>1. /\ UNCHANGED <<idem, topic, spc, sevent, sresp>>
      /\ faults' = 0 => faults = 0
  BY CallbackEffect DEF TypeInv, SingleOK
<1> USE DEF TypeInv, TypeOK
<1>2. sent \subseteq sent'
  BY DEF CallbackStep, BuildEvent, BuildEventError, Post, Answered, Unreachable, DeadLetter,
     DeadLetterError
<1>3. NoAnswerYet'
  BY <1>1, <1>2 DEF DropInv, NoAnswerYet
<1>4. ASSUME NEW e \in I!S!Events, BuildEvent(c, e) PROVE DropInv'
  <2>1. \A n \in 1..MaxRetries : sresp[<<c, n>>] = 0
    BY <1>4 DEF BuildEvent, CarriesOwnEvent, DropInv, NoAnswerYet
  <2>2. \A d \in Callbacks : d # c => gevent'[d] = gevent[d] /\ gpc'[d] = gpc[d]
    BY <1>4 DEF BuildEvent
  <2>3. gpc'[c] = "post" /\ deadLetter' = deadLetter
    BY <1>4 DEF BuildEvent
  <2>4. \A d \in Callbacks, n \in 1..MaxRetries :
          d # c => (PublishedBy(d, n) => PublishedBy(d, n)')
    BY <1>1, <2>2 DEF PublishedBy, I!S!KeyOf
  <2>5. AcceptedIsPublished'
    BY <1>1, <2>1, <2>2, <2>4 DEF DropInv, AcceptedIsPublished
  <2>6. NothingDropped'
    <3>1. \A d \in Callbacks : d # c => (Published(d) => Published(d)')
      BY <2>4 DEF Published, PublishedBy
    <3> QED BY <1>1, <2>2, <2>3, <3>1 DEF DropInv, NothingDropped
  <2> QED BY <1>3, <2>5, <2>6 DEF DropInv
<1>5. ASSUME gevent' = gevent, deadLetter \subseteq deadLetter',
             \A d \in Callbacks : d # c => gpc'[d] = gpc[d],
             (faults' = 0 /\ gpc'[c] = "done" /\ gevent[c] # NoEvent) =>
                 Published(c) \/ c \in deadLetter'
      PROVE  DropInv'
  <2>1. \A d \in Callbacks, n \in 1..MaxRetries : PublishedBy(d, n) => PublishedBy(d, n)'
    BY <1>1, <1>5 DEF PublishedBy, I!S!KeyOf
  <2>2. AcceptedIsPublished'
    BY <1>1, <2>1 DEF DropInv, AcceptedIsPublished
  <2>3. \A d \in Callbacks : Published(d) => Published(d)'
    BY <2>1 DEF Published, PublishedBy
  <2>4. NothingDropped'
    BY <1>1, <1>5, <2>3 DEF DropInv, NothingDropped
  <2> QED BY <1>3, <2>2, <2>4 DEF DropInv
<1>6. CASE Post(c)
  <2>1. gpc'[c] = "wait"
    BY <1>6 DEF Post
  <2> QED BY <1>5, <1>6, <2>1 DEF Post
<1>7. CASE Answered(c) \/ Unreachable(c)
  <2>1. CASE NextAttempt(c)
    <3>1. gpc'[c] # "done"
      BY <2>1 DEF NextAttempt
    <3>2. \A d \in Callbacks : d # c => gpc'[d] = gpc[d]
      BY <2>1 DEF NextAttempt
    <3> QED BY <1>5, <1>7, <3>1, <3>2 DEF Answered, Unreachable
  <2>2. CASE sresp[Current(c)] = 202 /\ gpc' = [gpc EXCEPT ![c] = "done"]
    <3>1. faults = 0 => Published(c)
      <4>1. gattempt[c] \in 1..MaxRetries
        OBVIOUS
      <4>2. faults = 0 => PublishedBy(c, gattempt[c])
        BY <2>2, <4>1 DEF DropInv, AcceptedIsPublished, Current
      <4> QED BY <4>1, <4>2 DEF Published, PublishedBy
    <3>2. \A d \in Callbacks : d # c => gpc'[d] = gpc[d]
      BY <2>2
    <3> QED BY <1>1, <1>5, <1>7, <3>1, <3>2 DEF Answered, Unreachable
  <2> QED BY <1>7, <2>1, <2>2 DEF Answered, Unreachable
<1>8. CASE DeadLetter(c)
  BY <1>5, <1>8 DEF DeadLetter
<1>9. CASE DeadLetterError(c)
  <2>1. faults' # 0
    BY <1>9 DEF DeadLetterError, I!S!Fault, SingleOK
  <2> QED BY <1>5, <1>9, <2>1 DEF DeadLetterError
<1>10. CASE BuildEventError(c)
  <2>1. gevent[c] = NoEvent
    BY <1>10, CallbackAssumption DEF BuildEventError, CarriesOwnEvent
  <2> QED BY <1>5, <1>10, <2>1 DEF BuildEventError
<1> QED BY <1>4, <1>6, <1>7, <1>8, <1>9, <1>10 DEF CallbackStep

\* As long as no call fails, the event of every callback that has built one and
\* has returned is in the topic, with its own key, or in the dead-letter file: not even the death of
\* an ingest handler after its claim, or a batch that took the claim, drops it.
THEOREM CallbacksDropNothing == Spec => []NothingDropped
<1>1. Init => DropInv
  BY DEF Init, I!Init, I!S!Init, DropInv, AcceptedIsPublished, NoAnswerYet, NothingDropped,
     Attempts
<1>2. TypeInv /\ DropInv /\ [Next]_vars => DropInv'
  <2> SUFFICES ASSUME TypeInv, DropInv, [Next]_vars PROVE DropInv'
    OBVIOUS
  <2>1. CASE UNCHANGED vars
    BY <2>1, DropFrame DEF vars, ingestVars, singleVars, callbackVars
  <2>2. ASSUME NEW b \in Batches, BatchStep(b) PROVE DropInv'
    <3>1. /\ topic \subseteq topic'
          /\ faults' = 0 => faults = 0
          /\ UNCHANGED <<sresp, gpc, gevent, sent, deadLetter>>
      BY <2>2, BatchEffect DEF TypeInv, SingleOK
    <3> QED BY <3>1, DropFrame
  <2> QED BY <2>1, <2>2, IngestDropInv, CallbackDropInv DEF Next, Idle
<1>3. DropInv => NothingDropped
  BY DEF DropInv
<1> QED BY <1>1, <1>2, <1>3, TypeInvAlways, PTL DEF Spec

-----------------------------------------------------------------------------
(***************************************************************************)
(* The callbacks keep the ledger of claims.                                *)
(***************************************************************************)

\* What a step does to the claims of requests when it publishes nothing: nothing,
\* or a request claims an event that nobody holds, or it gives its claim up.
LEMMA IngestLedger ==
    ASSUME TypeInv, ClaimInv, NEW r \in Attempts, IngestStep(r), topic' = topic
    PROVE  \/ \A q \in Attempts, k \in I!S!Keys : I!S!Claims(q, k)' <=> I!S!Claims(q, k)
           \/ \E j \in I!S!Keys :
                 /\ j \notin idem
                 /\ \A q \in Attempts, k \in I!S!Keys :
                       I!S!Claims(q, k)' <=> I!S!Claims(q, k) \/ (q = r /\ k = j)
           \/ \E j \in I!S!Keys :
                 /\ I!S!Claims(r, j)
                 /\ \A q \in Attempts, k \in I!S!Keys :
                       I!S!Claims(q, k)' <=> I!S!Claims(q, k) /\ ~(q = r /\ k = j)
<1> DEFINE j == I!S!KeyOf(sevent[r])
<1>1. /\ spc' = [spc EXCEPT ![r] = spc'[r]]
      /\ spc'[r] # "idle"
      /\ sevent' = sevent \/ spc[r] = "idle"
  BY IngestEffect
<1>2. /\ \A q \in Attempts : q # r => spc'[q] = spc[q] /\ sevent'[q] = sevent[q]
      /\ I!S!InFlight(r) => j \in I!S!Keys
  BY IngestEffect, KeyType DEF TypeInv, SingleOK
<1> DEFINE Working(q) == spc[q] \in {"org", "eu", "rollback403", "rollback422", "publish"}
<1>3. spc[r] = "idle" => ~Working(r)'
  BY DEF TypeInv, SingleOK, IngestStep, I!SingleStep, I!S!Step, I!S!Refuse, I!S!Receive,
     I!S!SetNX, I!S!SetNXError, I!S!VerifyOrg, I!S!VerifyEndUser, I!S!LookupError,
     I!S!Rollback, I!S!RollbackError, I!S!Publish, I!S!PublishError, I!S!Kill, I!S!Answer,
     I!S!InFlight
<1>4. \A q \in Attempts : q # r =>
        \A k \in I!S!Keys : I!S!Claims(q, k)' <=> I!S!Claims(q, k)
  BY <1>2 DEF I!S!Claims
<1>5. CASE ~Working(r) /\ ~Working(r)'
  <2>1. \A k \in I!S!Keys : ~I!S!Claims(r, k) /\ ~I!S!Claims(r, k)'
    BY <1>5 DEF I!S!Claims
  <2> QED BY <1>4, <2>1
<1>6. CASE Working(r) /\ Working(r)'
  <2>1. \A k \in I!S!Keys : I!S!Claims(r, k)' <=> I!S!Claims(r, k)
    BY <1>1, <1>6 DEF I!S!Claims
  <2> QED BY <1>4, <2>1
<1>7. CASE ~Working(r) /\ Working(r)'
  <2>1. spc[r] = "setnx" /\ sevent' = sevent
    BY <1>1, <1>3, <1>7, IngestEffect DEF TypeInv, SingleOK
  <2>2. j \in I!S!Keys
    BY <1>2, <2>1 DEF I!S!InFlight
  <2>3. \A k \in I!S!Keys : ~I!S!Claims(r, k) /\ (I!S!Claims(r, k)' <=> k = j)
    BY <1>7, <2>1 DEF I!S!Claims
  <2>4. j \notin idem
    BY <2>2, <2>3, IngestClaims
  <2> HIDE DEF j
  <2> QED BY <1>4, <2>2, <2>3, <2>4
<1>8. CASE Working(r) /\ ~Working(r)'
  <2>1. j \in I!S!Keys
    BY <1>2, <1>8 DEF I!S!InFlight
  <2>2. \A k \in I!S!Keys : ~I!S!Claims(r, k)' /\ (I!S!Claims(r, k) <=> k = j)
    BY <1>8 DEF I!S!Claims
  <2> HIDE DEF j
  <2> QED BY <1>4, <2>1, <2>2
<1> QED BY <1>5, <1>6, <1>7, <1>8

\* A step that changes no claim and no delivery of a request is a stutter.
LEMMA LedgerStutter ==
    ASSUME \A r \in Attempts, k \in I!S!Keys :
              /\ I!S!Claims(r, k)' <=> I!S!Claims(r, k)
              /\ I!S!Delivered(r, k)' <=> I!S!Delivered(r, k)
    PROVE  UNCHANGED Ledger!vars
<1>1. \A c \in Callbacks, k \in I!S!Keys :
        /\ Claims(c, k)' <=> Claims(c, k)
        /\ Delivered(c, k)' <=> Delivered(c, k)
  BY DEF Claims, Delivered, Attempts
<1>2. Held' = Held /\ Deliveries' = Deliveries
  BY <1>1 DEF Held, Deliveries
<1> QED BY <1>2 DEF Ledger!vars

\* A callback claims an event through the attempt that is the first to hold it.
LEMMA LedgerClaim ==
    ASSUME NEW c \in Callbacks, NEW n \in 1..MaxRetries, NEW j \in I!S!Keys,
           \A q \in Attempts : ~Holds(q, j),
           \A q \in Attempts, k \in I!S!Keys :
              /\ I!S!Claims(q, k)' <=> I!S!Claims(q, k) \/ (q = <<c, n>> /\ k = j)
              /\ I!S!Delivered(q, k)' <=> I!S!Delivered(q, k)
    PROVE  Ledger!Next
<1>1. \A d \in Callbacks, k \in I!S!Keys :
        /\ Claims(d, k)' <=> Claims(d, k) \/ (d = c /\ k = j)
        /\ Delivered(d, k)' <=> Delivered(d, k)
  BY DEF Claims, Delivered, Attempts
<1>2. \A d \in Callbacks : ~Claims(d, j) /\ ~Delivered(d, j)
  BY DEF Claims, Delivered, Attempts, Holds
<1>3. Held' = Held \cup {<<c, j>>} /\ Deliveries' = Deliveries
  BY <1>1 DEF Held, Deliveries
<1>4. \A d \in Callbacks : <<d, j>> \notin Held \cup Deliveries
  BY <1>2 DEF Held, Deliveries
<1>5. Ledger!Claim(c, j)
  BY <1>3, <1>4 DEF Ledger!Claim, Ledger!Free
<1> QED BY <1>5 DEF Ledger!Next

\* It gives the event up when that attempt does: no other attempt holds it.
LEMMA LedgerGiveUp ==
    ASSUME OneHolder, NEW c \in Callbacks, NEW n \in 1..MaxRetries, NEW j \in I!S!Keys,
           I!S!Claims(<<c, n>>, j),
           \A q \in Attempts, k \in I!S!Keys :
              /\ I!S!Claims(q, k)' <=> I!S!Claims(q, k) /\ ~(q = <<c, n>> /\ k = j)
              /\ I!S!Delivered(q, k)' <=> I!S!Delivered(q, k)
    PROVE  Ledger!Next
<1>1. \A d \in Callbacks, k \in I!S!Keys :
        /\ Claims(d, k)' <=> Claims(d, k) /\ ~(d = c /\ k = j)
        /\ Delivered(d, k)' <=> Delivered(d, k)
  <2>1. \A m \in 1..MaxRetries : I!S!Claims(<<c, m>>, j) => <<c, m>> = <<c, n>>
    BY DEF OneHolder, Holds, Attempts
  <2> QED BY <2>1 DEF Claims, Delivered, Attempts
<1>2. Held' = Held \ {<<c, j>>} /\ <<c, j>> \in Held /\ Deliveries' = Deliveries
  BY <1>1 DEF Held, Deliveries, Claims
<1>3. Ledger!GiveUp(c, j)
  BY <1>2 DEF Ledger!GiveUp
<1> QED BY <1>3 DEF Ledger!Next

\* It delivers the event when that attempt publishes it.
LEMMA LedgerDeliver ==
    ASSUME OneHolder, NEW c \in Callbacks, NEW n \in 1..MaxRetries, NEW j \in I!S!Keys,
           I!S!Claims(<<c, n>>, j),
           \A q \in Attempts, k \in I!S!Keys :
              /\ I!S!Claims(q, k)' <=> I!S!Claims(q, k) /\ ~(q = <<c, n>> /\ k = j)
              /\ I!S!Delivered(q, k)' <=> I!S!Delivered(q, k) \/ (q = <<c, n>> /\ k = j)
    PROVE  Ledger!Next
<1>1. \A d \in Callbacks, k \in I!S!Keys :
        /\ Claims(d, k)' <=> Claims(d, k) /\ ~(d = c /\ k = j)
        /\ Delivered(d, k)' <=> Delivered(d, k) \/ (d = c /\ k = j)
  <2>1. \A m \in 1..MaxRetries : I!S!Claims(<<c, m>>, j) => <<c, m>> = <<c, n>>
    BY DEF OneHolder, Holds, Attempts
  <2> QED BY <2>1 DEF Claims, Delivered, Attempts
<1>2. /\ Held' = Held \ {<<c, j>>} /\ <<c, j>> \in Held
      /\ Deliveries' = Deliveries \cup {<<c, j>>}
  BY <1>1 DEF Held, Deliveries, Claims
<1>3. Ledger!Deliver(c, j)
  BY <1>2 DEF Ledger!Deliver
<1> QED BY <1>3 DEF Ledger!Next

\* Every step of the ingest API on a request is a step of the ledger or a stutter.
LEMMA IngestRefines ==
    ASSUME TypeInv, ClaimInv, NEW r \in Attempts, IngestStep(r)
    PROVE  [Ledger!Next]_(Ledger!vars)
<1>1. PICK c \in Callbacks, n \in 1..MaxRetries : r = <<c, n>>
  BY DEF Attempts
<1>2. OneHolder
  BY DEF ClaimInv
<1>3. CASE topic' = topic
  <2>1. \A q \in Attempts, k \in I!S!Keys : I!S!Delivered(q, k)' <=> I!S!Delivered(q, k)
    BY <1>3 DEF I!S!Delivered
  <2>2. ASSUME NEW j \in I!S!Keys, j \notin idem,
               \A q \in Attempts, k \in I!S!Keys :
                  I!S!Claims(q, k)' <=> I!S!Claims(q, k) \/ (q = r /\ k = j)
        PROVE  Ledger!Next
    <3>1. \A q \in Attempts : ~Holds(q, j)
      BY <2>2 DEF ClaimInv, HeldIsClaimed
    <3> QED BY <1>1, <2>1, <2>2, <3>1, LedgerClaim
  <2>3. ASSUME NEW j \in I!S!Keys, I!S!Claims(r, j),
               \A q \in Attempts, k \in I!S!Keys :
                  I!S!Claims(q, k)' <=> I!S!Claims(q, k) /\ ~(q = r /\ k = j)
        PROVE  Ledger!Next
    BY <1>1, <1>2, <2>1, <2>3, LedgerGiveUp
  <2> QED BY <1>3, <2>1, <2>2, <2>3, IngestLedger, LedgerStutter
<1>4. CASE /\ spc[r] = "publish" /\ spc'[r] = "done"
           /\ topic' = topic \cup {I!S!Message(r)} /\ sevent' = sevent
  <2> DEFINE j == I!S!KeyOf(sevent[r])
  <2>1. /\ j \in I!S!Keys /\ I!S!Claims(r, j)
        /\ \A q \in Attempts, k \in I!S!Keys :
              /\ I!S!Claims(q, k)' <=> I!S!Claims(q, k) /\ ~(q = r /\ k = j)
              /\ I!S!Delivered(q, k)' <=> I!S!Delivered(q, k) \/ (q = r /\ k = j)
    BY <1>4, PublishClaims
  <2> HIDE DEF j
  <2> QED BY <1>1, <1>2, <2>1, LedgerDeliver
<1> QED BY <1>3, <1>4, IngestTopic

\* The callbacks with their retries implement the ledger: an event is claimed for
\* one callback at a time and delivered once, with batches of other clients on the
\* same keys, requests that arrive late and handlers that die.
THEOREM CallbacksImplementLedger == Spec => CallbacksKeepLedger
<1>1. Init => Ledger!Init
  BY DEF Init, I!Init, I!S!Init, Ledger!Init, Held, Deliveries, Claims, Delivered,
     I!S!Claims, I!S!Delivered, Attempts
<1>2. TypeInv /\ ClaimInv /\ [Next]_vars => [Ledger!Next]_(Ledger!vars)
  BY OtherClaimInv, LedgerStutter, IngestRefines DEF Next, Idle
<1> QED BY <1>1, <1>2, ClaimInvAlways, PTL DEF Spec, CallbacksKeepLedger, Ledger!Spec

=============================================================================
