-------------------------- MODULE IngestSingleProofs --------------------------
(***************************************************************************)
(* Proofs about IngestSingle, for any sets of requests, organizations and  *)
(* event ids and any number of failing calls and crashes.                  *)
(***************************************************************************)
EXTENDS IngestSingle, TLAPS

(***************************************************************************)
(* Type correctness.                                                       *)
(***************************************************************************)

\* The idempotency key of an event is a key.
LEMMA KeyType == \A e \in Events : KeyOf(e) \in Keys
BY DEF Events, KeyOf, Keys

\* Every step of HandleSingleEvent keeps the types.
LEMMA StepTypeOK ==
    ASSUME TypeOK, NEW r \in Requests, Step(r)
    PROVE  TypeOK'
<1> USE SingleAssumption, NoEventAssumption, KeyType
    DEF TypeOK, InFlight, Goto, Answer, Fault, Message, RollbackStatus
<1>1. CASE Refuse(r)
  BY <1>1 DEF Refuse
<1>2. ASSUME NEW e \in Events, Receive(r, e) PROVE TypeOK'
  BY <1>2 DEF Receive
<1>3. CASE SetNX(r)
  BY <1>3 DEF SetNX
<1>4. CASE SetNXError(r)
  BY <1>4 DEF SetNXError
<1>5. CASE VerifyOrg(r)
  BY <1>5 DEF VerifyOrg
<1>6. CASE VerifyEndUser(r)
  BY <1>6 DEF VerifyEndUser
<1>7. CASE LookupError(r)
  BY <1>7 DEF LookupError
<1>8. CASE Rollback(r)
  BY <1>8 DEF Rollback
<1>9. CASE RollbackError(r)
  BY <1>9 DEF RollbackError
<1>10. CASE Publish(r)
  BY <1>10 DEF Publish
<1>11. CASE PublishError(r)
  BY <1>11 DEF PublishError
<1>12. CASE Kill(r)
  BY <1>12 DEF Kill
<1> QED
  BY <1>1, <1>2, <1>3, <1>4, <1>5, <1>6, <1>7, <1>8, <1>9, <1>10, <1>11, <1>12 DEF Step

\* So does the expiry of a key.
LEMMA ExpireTypeOK ==
    ASSUME TypeOK, NEW k \in Keys, Expire(k)
    PROVE  TypeOK'
BY SingleAssumption DEF TypeOK, InFlight, Expire

\* Every state of every behaviour is well typed; in particular a handler past
\* the parsing of its request always has an event.
THEOREM TypeCorrect == Spec => []TypeOK
<1>1. Init => TypeOK
  BY SingleAssumption DEF Init, TypeOK, InFlight
<1>2. TypeOK /\ [Next]_svars => TypeOK'
  <2> SUFFICES ASSUME TypeOK, [Next]_svars PROVE TypeOK'
    OBVIOUS
  <2>1. CASE UNCHANGED svars
    BY <2>1 DEF svars, TypeOK, InFlight
  <2> QED BY <2>1, StepTypeOK, ExpireTypeOK DEF Next, Idle
<1> QED BY <1>1, <1>2, PTL DEF Spec

-----------------------------------------------------------------------------
(***************************************************************************)
(* The claim discipline: the inductive invariant behind AtMostOnce.        *)
(***************************************************************************)

\* Request r has claimed the event with key k and has not given it back.
Holds(r, k) == Claims(r, k) \/ Delivered(r, k)

\* A handler publishes once, with its answer.
AnsweredIfPublished == \A m \in topic : spc[m.req] = "done"

\* No message is of a TTL that is yet to come.
NoFutureMessage == \A m \in topic : m.age <= age[m.key]

\* Whoever holds an event, in flight or published, has its key in Redis.
HeldIsClaimed == \A r \in Requests, k \in Keys : Holds(r, k) => k \in idem

\* At most one request holds an event.
OneHolder ==
    \A r, q \in Requests, k \in Keys : Holds(r, k) /\ Holds(q, k) => r = q

ClaimInv ==
    /\ AnsweredIfPublished
    /\ NoFutureMessage
    /\ HeldIsClaimed
    /\ OneHolder
    /\ AtMostOnce

\* Every step of HandleSingleEvent keeps claims exclusive.
LEMMA StepClaimInv ==
    ASSUME TypeOK, ClaimInv, NEW r \in Requests, Step(r)
    PROVE  ClaimInv'
<1> USE KeyType, SingleAssumption
    DEF TypeOK, ClaimInv, AnsweredIfPublished, NoFutureMessage, HeldIsClaimed, OneHolder,
    AtMostOnce, Holds, Claims, Delivered, InFlight, Goto, Answer, Message
<1>1. CASE Refuse(r)
  BY <1>1 DEF Refuse
<1>2. ASSUME NEW e \in Events, Receive(r, e) PROVE ClaimInv'
  BY <1>2 DEF Receive
<1>3. CASE SetNX(r)
  BY <1>3 DEF SetNX
<1>4. CASE SetNXError(r)
  BY <1>4 DEF SetNXError
<1>5. CASE VerifyOrg(r)
  BY <1>5 DEF VerifyOrg
<1>6. CASE VerifyEndUser(r)
  BY <1>6 DEF VerifyEndUser
<1>7. CASE LookupError(r)
  BY <1>7 DEF LookupError
<1>8. CASE Rollback(r)
  BY <1>8 DEF Rollback
<1>9. CASE RollbackError(r)
  BY <1>9 DEF RollbackError
<1>10. CASE Publish(r)
  BY <1>10 DEF Publish
<1>11. CASE PublishError(r)
  BY <1>11 DEF PublishError
<1>12. CASE Kill(r)
  BY <1>12 DEF Kill
<1> QED
  BY <1>1, <1>2, <1>3, <1>4, <1>5, <1>6, <1>7, <1>8, <1>9, <1>10, <1>11, <1>12 DEF Step

\* The expiry of a key keeps claims exclusive: it opens a new TTL, of which no
\* message exists.
LEMMA ExpireClaimInv ==
    ASSUME TypeOK, ClaimInv, NEW k \in Keys, Expire(k)
    PROVE  ClaimInv'
<1> USE SingleAssumption DEF TypeOK, ClaimInv, Expire
<1>1. AnsweredIfPublished' /\ NoFutureMessage' /\ AtMostOnce'
  BY DEF AnsweredIfPublished, NoFutureMessage, AtMostOnce
<1>2. \A r \in Requests : ~Holds(r, k)'
  BY DEF Holds, Claims, Delivered, NoFutureMessage
<1>3. \A r \in Requests, q \in Keys \ {k} : Holds(r, q)' <=> Holds(r, q)
  BY DEF Holds, Claims, Delivered
<1> QED BY <1>1, <1>2, <1>3 DEF HeldIsClaimed, OneHolder

\* Claims are exclusive in every reachable state.
LEMMA ClaimInvAlways == Spec => [](TypeOK /\ ClaimInv)
<1>1. Init => ClaimInv
  BY DEF Init, ClaimInv, AnsweredIfPublished, NoFutureMessage, HeldIsClaimed,
     OneHolder, AtMostOnce, Holds, Claims, Delivered
<1>2. TypeOK /\ ClaimInv /\ [Next]_svars => ClaimInv'
  <2> SUFFICES ASSUME TypeOK, ClaimInv, [Next]_svars PROVE ClaimInv'
    OBVIOUS
  <2>1. CASE UNCHANGED svars
    BY <2>1 DEF svars, ClaimInv, AnsweredIfPublished, NoFutureMessage, HeldIsClaimed,
       OneHolder, AtMostOnce, Holds, Claims, Delivered
  <2> QED BY <2>1, StepClaimInv, ExpireClaimInv DEF Next, Idle
<1> QED BY <1>1, <1>2, TypeCorrect, PTL DEF Spec

\* No two requests to /v1/events publish the same event, whatever fails and
\* whoever crashes: the SETNX claim is exclusive until it is rolled back, and
\* only a request that publishes nothing rolls its claim back.
THEOREM SinglePathAtMostOnce == Spec => []AtMostOnce
<1>1. TypeOK /\ ClaimInv => AtMostOnce
  BY DEF ClaimInv
<1> QED BY <1>1, ClaimInvAlways, PTL

\* A published event keeps its idempotency key.
THEOREM PublishedKeepsKey == Spec => []PublishedStaysClaimed
<1>1. TypeOK /\ ClaimInv => PublishedStaysClaimed
  BY DEF TypeOK, ClaimInv, HeldIsClaimed, Holds, Delivered, PublishedStaysClaimed
<1> QED BY <1>1, ClaimInvAlways, PTL

\* Every step of HandleSingleEvent keeps every key backed while nothing fails.
LEMMA StepClaimBacked ==
    ASSUME TypeOK, ClaimBacked, NEW r \in Requests, Step(r)
    PROVE  ClaimBacked'
<1> USE SingleAssumption, KeyType DEF TypeOK, ClaimBacked, Claims, Delivered, InFlight,
    Goto, Answer, Message, Fault
<1>1. CASE Refuse(r)
  BY <1>1 DEF Refuse
<1>2. ASSUME NEW e \in Events, Receive(r, e) PROVE ClaimBacked'
  BY <1>2 DEF Receive
<1>3. CASE SetNX(r)
  BY <1>3 DEF SetNX
<1>4. CASE SetNXError(r)
  BY <1>4 DEF SetNXError
<1>5. CASE VerifyOrg(r)
  BY <1>5 DEF VerifyOrg
<1>6. CASE VerifyEndUser(r)
  BY <1>6 DEF VerifyEndUser
<1>7. CASE LookupError(r)
  BY <1>7 DEF LookupError
<1>8. CASE Rollback(r)
  BY <1>8 DEF Rollback
<1>9. CASE RollbackError(r)
  BY <1>9 DEF RollbackError
<1>10. CASE Publish(r)
  <2>1. ASSUME NEW q \in Requests, NEW k \in Keys, Claims(q, k) \/ Delivered(q, k)
        PROVE  Claims(q, k)' \/ Delivered(q, k)'
    <3>1. CASE q = r /\ KeyOf(sevent[r]) = k
      <4>1. /\ Message(r) \in topic' /\ Message(r).req = q
            /\ Message(r).key = k /\ Message(r).age = age'[k]
        BY <1>10, <3>1 DEF Publish
      <4> QED BY <4>1
    <3>2. CASE ~(q = r /\ KeyOf(sevent[r]) = k)
      BY <1>10, <2>1, <3>2 DEF Publish
    <3> QED BY <3>1, <3>2
  <2> HIDE DEF Claims, Delivered
  <2> QED BY <1>10, <2>1 DEF Publish
<1>11. CASE PublishError(r)
  BY <1>11 DEF PublishError
<1>12. CASE Kill(r)
  BY <1>12 DEF Kill
<1> QED
  BY <1>1, <1>2, <1>3, <1>4, <1>5, <1>6, <1>7, <1>8, <1>9, <1>10, <1>11, <1>12 DEF Step

\* So does the expiry of a key: the other keys keep their holders.
LEMMA ExpireClaimBacked ==
    ASSUME TypeOK, ClaimBacked, NEW k \in Keys, Expire(k)
    PROVE  ClaimBacked'
<1> USE DEF TypeOK, Expire
<1>1. \A r \in Requests, q \in Keys \ {k} :
        /\ Claims(r, q)' <=> Claims(r, q)
        /\ Delivered(r, q)' <=> Delivered(r, q)
  BY DEF Claims, Delivered
<1> QED BY <1>1 DEF ClaimBacked

\* While nothing fails, no idempotency key is left behind without an event: a
\* request that is refused after its SETNX always gives its claim back.
THEOREM ClaimsAreBacked == Spec => []ClaimBacked
<1>1. Init => ClaimBacked
  BY DEF Init, ClaimBacked
<1>2. TypeOK /\ ClaimBacked /\ [Next]_svars => ClaimBacked'
  <2> SUFFICES ASSUME TypeOK, ClaimBacked, [Next]_svars PROVE ClaimBacked'
    OBVIOUS
  <2>1. CASE UNCHANGED svars
    BY <2>1 DEF svars, ClaimBacked, Claims, Delivered
  <2> QED BY <2>1, StepClaimBacked, ExpireClaimBacked DEF Next, Idle
<1> QED BY <1>1, <1>2, TypeCorrect, PTL DEF Spec

-----------------------------------------------------------------------------
(***************************************************************************)
(* The single path implements the ledger of claims.                        *)
(***************************************************************************)

\* A step that changes no claim and no delivery is a stutter of the ledger.
LEMMA LedgerStutter ==
    ASSUME \A q \in Requests, k \in Keys : /\ Claims(q, k)' <=> Claims(q, k)
                                           /\ Delivered(q, k)' <=> Delivered(q, k)
    PROVE  UNCHANGED Ledger!vars
<1>1. Held' = Held
  BY DEF Held
<1>2. Deliveries' = Deliveries
  BY DEF Deliveries
<1> QED BY <1>1, <1>2 DEF Ledger!vars

\* A claim of a free event.
LEMMA LedgerClaim ==
    ASSUME NEW r \in Requests, NEW k \in Keys,
           \A q \in Requests : ~Claims(q, k) /\ ~Delivered(q, k),
           \A q \in Requests, j \in Keys :
              /\ Claims(q, j)' <=> (Claims(q, j) \/ (q = r /\ j = k))
              /\ Delivered(q, j)' <=> Delivered(q, j)
    PROVE  Ledger!Next
<1>1. Held' = Held \cup {<<r, k>>}
  BY DEF Held
<1>2. Deliveries' = Deliveries
  BY DEF Deliveries
<1>3. \A q \in Requests : <<q, k>> \notin Held \cup Deliveries
  BY DEF Held, Deliveries
<1>4. Ledger!Claim(r, k)
  BY <1>1, <1>2, <1>3 DEF Ledger!Claim, Ledger!Free
<1> QED BY <1>4 DEF Ledger!Next

\* The holder of an event gives it up.
LEMMA LedgerGiveUp ==
    ASSUME NEW r \in Requests, NEW k \in Keys, Claims(r, k),
           \A q \in Requests, j \in Keys :
              /\ Claims(q, j)' <=> (Claims(q, j) /\ ~(q = r /\ j = k))
              /\ Delivered(q, j)' <=> Delivered(q, j)
    PROVE  Ledger!Next
<1>1. Held' = Held \ {<<r, k>>} /\ <<r, k>> \in Held
  BY DEF Held
<1>2. Deliveries' = Deliveries
  BY DEF Deliveries
<1>3. Ledger!GiveUp(r, k)
  BY <1>1, <1>2 DEF Ledger!GiveUp
<1> QED BY <1>3 DEF Ledger!Next

\* The holder of an event delivers it.
LEMMA LedgerDeliver ==
    ASSUME NEW r \in Requests, NEW k \in Keys, Claims(r, k),
           \A q \in Requests, j \in Keys :
              /\ Claims(q, j)' <=> (Claims(q, j) /\ ~(q = r /\ j = k))
              /\ Delivered(q, j)' <=> (Delivered(q, j) \/ (q = r /\ j = k))
    PROVE  Ledger!Next
<1>1. Held' = Held \ {<<r, k>>} /\ <<r, k>> \in Held
  BY DEF Held
<1>2. Deliveries' = Deliveries \cup {<<r, k>>}
  BY DEF Deliveries
<1>3. Ledger!Deliver(r, k)
  BY <1>1, <1>2 DEF Ledger!Deliver
<1> QED BY <1>3 DEF Ledger!Next

\* The retention of an event is over.
LEMMA LedgerForget ==
    ASSUME NEW k \in Keys,
           \A q \in Requests : ~Claims(q, k),
           \A q \in Requests, j \in Keys :
              /\ Claims(q, j)' <=> Claims(q, j)
              /\ Delivered(q, j)' <=> (Delivered(q, j) /\ j # k)
    PROVE  Ledger!Next
<1>1. Held' = Held /\ \A q \in Requests : <<q, k>> \notin Held
  BY DEF Held
<1>2. Deliveries' = Deliveries \ (Requests \X {k})
  BY DEF Deliveries
<1>3. Ledger!Forget(k)
  BY <1>1, <1>2 DEF Ledger!Forget
<1> QED BY <1>3 DEF Ledger!Next

\* What a publish does to the deliveries: it adds the one of its request.
LEMMA PublishDelivers ==
    ASSUME TypeOK, NEW r \in Requests, spc[r] = "publish",
           topic' = topic \cup {Message(r)}, age' = age
    PROVE  \A q \in Requests, j \in Keys :
              Delivered(q, j)' <=> (Delivered(q, j) \/ (q = r /\ j = KeyOf(sevent[r])))
<1> DEFINE m == Message(r)
<1>1. m \in topic' /\ m.req = r /\ m.key = KeyOf(sevent[r]) /\ m.age = age[KeyOf(sevent[r])]
  BY DEF Message
<1>2. \A n \in topic' : n \in topic \/ n = m
  OBVIOUS
<1>3. \A n \in topic : n \in topic'
  OBVIOUS
<1> HIDE DEF m
<1> QED BY <1>1, <1>2, <1>3 DEF Delivered

\* Every step of HandleSingleEvent is a step of the ledger or a stutter.
LEMMA StepRefines ==
    ASSUME TypeOK, ClaimInv, NEW r \in Requests, Step(r)
    PROVE  [Ledger!Next]_(Ledger!vars)
<1> DEFINE k == KeyOf(sevent[r])
<1>0. InFlight(r) => k \in Keys
  BY KeyType DEF TypeOK
<1> USE DEF TypeOK, Goto, Answer, Claims, InFlight
<1>1. CASE Refuse(r)
  BY <1>1, LedgerStutter DEF Refuse, Delivered
<1>2. ASSUME NEW e \in Events, Receive(r, e) PROVE UNCHANGED Ledger!vars
  BY <1>2, LedgerStutter DEF Receive, Delivered
<1>3. CASE SetNX(r)
  <2>1. CASE k \in idem
    BY <1>3, <2>1, LedgerStutter DEF SetNX, Delivered
  <2>2. CASE k \notin idem
    <3>1. \A q \in Requests : ~Claims(q, k) /\ ~Delivered(q, k)
      BY <1>0, <1>3, <2>2 DEF SetNX, ClaimInv, HeldIsClaimed, Holds
    <3> QED BY <1>0, <1>3, <2>2, <3>1, LedgerClaim DEF SetNX, Delivered
  <2> QED BY <2>1, <2>2
<1>4. CASE SetNXError(r)
  BY <1>4, LedgerStutter DEF SetNXError, Delivered
<1>5. CASE VerifyOrg(r)
  BY <1>5, LedgerStutter DEF VerifyOrg, Delivered
<1>6. CASE VerifyEndUser(r)
  BY <1>6, LedgerStutter DEF VerifyEndUser, Delivered
<1>7. CASE LookupError(r)
  BY <1>7, LedgerStutter DEF LookupError, Delivered
<1>8. CASE Rollback(r)
  BY <1>0, <1>8, LedgerGiveUp DEF Rollback, Delivered
<1>9. CASE RollbackError(r)
  BY <1>0, <1>9, LedgerGiveUp DEF RollbackError, Delivered
<1>10. CASE Publish(r)
  BY <1>0, <1>10, LedgerDeliver, PublishDelivers DEF Publish
<1>11. CASE PublishError(r)
  <2>1. CASE topic' = topic
    BY <1>0, <1>11, <2>1, LedgerGiveUp DEF PublishError, Delivered
  <2>2. CASE topic' = topic \cup {Message(r)}
    BY <1>0, <1>11, <2>2, LedgerDeliver, PublishDelivers DEF PublishError
  <2> QED BY <1>11, <2>1, <2>2 DEF PublishError
<1>12. CASE Kill(r)
  <2>1. CASE spc[r] = "setnx"
    BY <1>12, <2>1, LedgerStutter DEF Kill, Delivered
  <2>2. CASE spc[r] # "setnx"
    BY <1>0, <1>12, <2>2, LedgerGiveUp DEF Kill, Delivered
  <2> QED BY <2>1, <2>2
<1> QED
  BY <1>1, <1>2, <1>3, <1>4, <1>5, <1>6, <1>7, <1>8, <1>9, <1>10, <1>11, <1>12 DEF Step

\* The expiry of an idempotency key ends the retention of its event.
LEMMA ExpireRefines ==
    ASSUME TypeOK, ClaimInv, NEW k \in Keys, Expire(k)
    PROVE  [Ledger!Next]_(Ledger!vars)
<1> USE SingleAssumption DEF TypeOK, Expire
<1>1. \A q \in Requests, j \in Keys : Claims(q, j)' <=> Claims(q, j)
  BY DEF Claims
<1>2. \A q \in Requests, j \in Keys : Delivered(q, j)' <=> (Delivered(q, j) /\ j # k)
  BY DEF Delivered, ClaimInv, NoFutureMessage
<1> QED BY <1>1, <1>2, LedgerForget

\* HandleSingleEvent implements the ledger of claims: for any requests, faults,
\* crashes and expiries, an event is claimed by one request at a time, delivered
\* only by its holder, and closed for an IDEMPOTENCY_TTL afterwards.
THEOREM SingleImplementsLedger == Spec => ImplementsLedger
<1>1. Init => Ledger!Init
  BY DEF Init, Ledger!Init, Held, Deliveries, Claims, Delivered
<1>2. TypeOK /\ ClaimInv /\ [Next]_svars => [Ledger!Next]_(Ledger!vars)
  <2> SUFFICES ASSUME TypeOK, ClaimInv, [Next]_svars PROVE [Ledger!Next]_(Ledger!vars)
    OBVIOUS
  <2>1. CASE UNCHANGED svars
    BY <2>1, LedgerStutter DEF svars, Claims, Delivered
  <2> QED BY <2>1, StepRefines, ExpireRefines DEF Next, Idle
<1> QED BY <1>1, <1>2, ClaimInvAlways, PTL DEF Spec, ImplementsLedger, Ledger!Spec

=============================================================================
