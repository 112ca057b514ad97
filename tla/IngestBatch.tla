------------------------------ MODULE IngestBatch ------------------------------
(***************************************************************************)
(* POST /v1/events/batch: HandleBatchEvent and processBatchEvents of       *)
(* engine/internal/handler/batch_handler.go, from the arrival of a batch   *)
(* to its answer.  Batches run concurrently; each round trip to Redis or   *)
(* Kafka is one atomic step, the existence lookups of a batch are one.     *)
(*                                                                         *)
(* The sharded Redis Bloom filter is the set of keys added to it; a lookup *)
(* may answer "maybe seen" for a key that was never added.  The in-process *)
(* filter of the fallback is the same, one per request.                    *)
(***************************************************************************)
EXTENDS Naturals, Sequences, FiniteSets

CONSTANTS
    Batches,      \* the requests to /v1/events/batch
    Orgs,         \* the organizations named by API keys
    KnownOrgs,    \* those that are ACTIVE in Postgres
    EventIds,     \* event ids clients use
    MaxBatchLen,  \* MAX_BATCH_SIZE
    MaxFaults,    \* bound: calls to Redis, Postgres or Kafka that fail
    MaxCrashes    \* bound: handlers that die with their process

ASSUME BatchAssumption ==
    /\ Orgs # {}
    /\ KnownOrgs \subseteq Orgs
    /\ MaxBatchLen \in Nat
    /\ MaxFaults \in Nat
    /\ MaxCrashes \in Nat

\* The end user of an event is absent or of the organization ("ok"), or is not
\* found ("stranger"): it is not of the organization, or its id has a colon and
\* splitPair cuts the pair org_id:end_user_id in the wrong place.
EndUsers == {"ok", "stranger"}

Keys == Orgs \X EventIds

Items == [id : EventIds, eu : EndUsers]

\* The batches a client may send.
Inputs == UNION {[1..n -> Items] : n \in 1..MaxBatchLen}

VARIABLES
    bloomModule,  \* FALSE: this Redis has no BF.* commands, each is an error
    idem,         \* the idempotency keys set in Redis
    bloom,        \* the keys added to the Bloom filters bf:{org_id}:{shard}
    topic,        \* the messages in Kafka: [req, pos, key]
    bpc,          \* bpc[b]: where the handler of batch b is
    borg,         \* borg[b]: the organization of the key that sent it
    bitems,       \* bitems[b]: its events
    bvalid,       \* bvalid[b]: positions that passed the existence lookups
    bidx,         \* bidx[b]: the loop variable of processBatchEvents
    bexists,      \* bexists[b]: the answer of BF.EXISTS, 0 after an error
    blocal,       \* blocal[b]: the keys in its in-process Bloom filter
    baccepted,    \* baccepted[b]: the positions in result.Accepted
    bfailed,      \* bfailed[b]: result.FailedCount
    bresp,        \* bresp[b]: its answer, 0 while there is none
    bprior,       \* history: the keys in the topic when b arrived
    faults,       \* failing calls so far
    crashes       \* handlers killed so far

inputs == <<bloomModule, borg, bitems, bprior>>
loop == <<bvalid, bidx, bexists, blocal, baccepted, bfailed>>
bvars == <<idem, bloom, topic, bpc, inputs, loop, bresp, faults, crashes>>

-----------------------------------------------------------------------------

Init ==
    /\ bloomModule \in BOOLEAN
    /\ idem = {}
    /\ bloom = {}
    /\ topic = {}
    /\ bpc = [b \in Batches |-> "idle"]
    /\ borg = [b \in Batches |-> CHOOSE o \in Orgs : TRUE]
    /\ bitems = [b \in Batches |-> <<>>]
    /\ bvalid = [b \in Batches |-> {}]
    /\ bidx = [b \in Batches |-> 1]
    /\ bexists = [b \in Batches |-> 0]
    /\ blocal = [b \in Batches |-> {}]
    /\ baccepted = [b \in Batches |-> {}]
    /\ bfailed = [b \in Batches |-> 0]
    /\ bresp = [b \in Batches |-> 0]
    /\ bprior = [b \in Batches |-> {}]
    /\ faults = 0
    /\ crashes = 0

\* The key of the event at position i of batch b, and of the one at hand.
KeyAt(b, i) == <<borg[b], bitems[b][i].id>>
Key(b) == KeyAt(b, bidx[b])

Goto(b, pc) == bpc' = [bpc EXCEPT ![b] = pc]

Answer(b, status) ==
    /\ Goto(b, "done")
    /\ bresp' = [bresp EXCEPT ![b] = status]

\* Mutant of Fail: the loop goes on without counting the event.
FailUncounted(b) ==
    /\ bidx' = [bidx EXCEPT ![b] = @ + 1]
    /\ Goto(b, "loop")
    /\ UNCHANGED <<baccepted, bfailed, bexists, blocal, bvalid>>

\* The event at hand is counted as failed and the loop goes on.
Fail(b) ==
    /\ bfailed' = [bfailed EXCEPT ![b] = @ + 1]
    /\ bidx' = [bidx EXCEPT ![b] = @ + 1]
    /\ Goto(b, "loop")
    /\ UNCHANGED <<baccepted, bexists, blocal, bvalid>>

\* The event at hand is appended to result.Accepted and the loop goes on.
Accept(b) ==
    /\ baccepted' = [baccepted EXCEPT ![b] = @ \cup {bidx[b]}]
    /\ bidx' = [bidx EXCEPT ![b] = @ + 1]
    /\ Goto(b, "loop")
    /\ UNCHANGED <<bfailed, bexists, bvalid>>

Fault ==
    /\ faults < MaxFaults
    /\ faults' = faults + 1

-----------------------------------------------------------------------------

\* The batch is refused before it touches any shared state: wrong method, body
\* too large, not JSON, no events, too many events, no key context.
Refuse(b) ==
    /\ bpc[b] = "idle"
    /\ Answer(b, 400)
    /\ UNCHANGED <<idem, bloom, topic, inputs, loop, faults, crashes>>

\* The batch is parsed and every event gets the organization of the key.
Receive(b, o, items) ==
    /\ bpc[b] = "idle"
    /\ borg' = [borg EXCEPT ![b] = o]
    /\ bitems' = [bitems EXCEPT ![b] = items]
    /\ bprior' = [bprior EXCEPT ![b] = {m.key : m \in topic}]
    /\ Goto(b, "lookup")
    /\ UNCHANGED <<bloomModule, idem, bloom, topic, loop, bresp, faults, crashes>>

\* The positions whose organization and end user exist.
Members(b) ==
    {i \in DOMAIN bitems[b] : borg[b] \in KnownOrgs /\ bitems[b][i].eu = "ok"}

\* batchOrgCheck and batchEUCheck.
Lookup(b) ==
    /\ bpc[b] = "lookup"
    /\ bvalid' = [bvalid EXCEPT ![b] = Members(b)]
    /\ Goto(b, "loop")
    /\ UNCHANGED <<idem, bloom, topic, inputs, bidx, bexists, blocal, baccepted,
                   bfailed, bresp, faults, crashes>>

\* A bulk query fails: what only Postgres knew is missing from the result.
LookupError(b) ==
    /\ bpc[b] = "lookup"
    /\ Fault
    /\ \E found \in SUBSET Members(b) : bvalid' = [bvalid EXCEPT ![b] = found]
    /\ Goto(b, "loop")
    /\ UNCHANGED <<idem, bloom, topic, inputs, bidx, bexists, blocal, baccepted,
                   bfailed, bresp, crashes>>

\* Mutant of AtItem: the loop runs one position too far.
AtItemPastEnd(b) == bpc[b] = "loop" /\ bidx[b] <= Len(bitems[b]) + 1

AtItem(b) == bpc[b] = "loop" /\ bidx[b] <= Len(bitems[b])

\* An unknown organization or an end user of another one.
SkipInvalid(b) ==
    /\ AtItem(b)
    /\ bidx[b] \notin bvalid[b]
    /\ Fail(b)
    /\ UNCHANGED <<idem, bloom, topic, inputs, bresp, faults, crashes>>

\* BF.EXISTS (after BF.RESERVE, which changes no key).  "Maybe seen" goes on
\* to the SETNX check; "not seen" does not.
BloomExists(b) ==
    /\ bloomModule
    /\ AtItem(b)
    /\ bidx[b] \in bvalid[b]
    /\ \E x \in {0, 1} :
          /\ Key(b) \in bloom => x = 1
          /\ bexists' = [bexists EXCEPT ![b] = x]
          /\ Goto(b, IF x = 1 THEN "check" ELSE "add")
    /\ UNCHANGED <<idem, bloom, topic, inputs, bvalid, bidx, blocal, baccepted,
                   bfailed, bresp, faults, crashes>>

\* A BF.* command is an error: always without the module, now and then with it.
BloomDown == (bloomModule /\ Fault) \/ (~bloomModule /\ UNCHANGED faults)

\* The answers existsAndAdd of b's in-process filter may give for key k: what
\* was added is "maybe seen"; through collisions, so may anything else be.
MaybeSeen(b, k) == {seen \in BOOLEAN : k \in blocal[b] => seen}

\* Mutant of BloomFallback: the fallback does not remember what it has seen.
BloomFallbackForgets(b) ==
    /\ AtItem(b)
    /\ bidx[b] \in bvalid[b]
    /\ bexists' = [bexists EXCEPT ![b] = 0]
    /\ Goto(b, "add")
    /\ BloomDown
    /\ UNCHANGED <<idem, bloom, topic, inputs, bvalid, bidx, blocal, baccepted,
                   bfailed, bresp, crashes>>

\* BF.EXISTS is an error: existsAndAdd of the in-process filter decides.  The
\* integer answer of the failed call is 0.
BloomFallback(b) ==
    /\ AtItem(b)
    /\ bidx[b] \in bvalid[b]
    /\ \E seen \in MaybeSeen(b, Key(b)) :
          Goto(b, IF seen THEN "check" ELSE "add")
    /\ bexists' = [bexists EXCEPT ![b] = 0]
    /\ blocal' = [blocal EXCEPT ![b] = @ \cup {Key(b)}]
    /\ BloomDown
    /\ UNCHANGED <<idem, bloom, topic, inputs, bvalid, bidx, baccepted, bfailed,
                   bresp, crashes>>

\* Mutant of CheckSetNX: only what this batch has seen is a duplicate.
CheckSetNXLocal(b) ==
    /\ bpc[b] = "check"
    /\ idem' = idem \cup {Key(b)}
    /\ IF Key(b) \in idem \cap blocal[b] THEN Fail(b)
                                         ELSE Goto(b, "add") /\ UNCHANGED loop
    /\ UNCHANGED <<bloom, topic, inputs, bresp, faults, crashes>>

\* Mutant of CheckSetNX: the answer of SETNX is taken for "exists".
CheckSetNXInverted(b) ==
    /\ bpc[b] = "check"
    /\ idem' = idem \cup {Key(b)}
    /\ IF Key(b) \notin idem THEN Fail(b)
                             ELSE Goto(b, "add") /\ UNCHANGED loop
    /\ UNCHANGED <<bloom, topic, inputs, bresp, faults, crashes>>

\* "Maybe seen": SETNX decides.
CheckSetNX(b) ==
    /\ bpc[b] = "check"
    /\ idem' = idem \cup {Key(b)}
    /\ IF Key(b) \in idem THEN Fail(b)
                          ELSE Goto(b, "add") /\ UNCHANGED loop
    /\ UNCHANGED <<bloom, topic, inputs, bresp, faults, crashes>>

\* The check fails: the event counts as a duplicate.
CheckSetNXError(b) ==
    /\ bpc[b] = "check"
    /\ Fault
    /\ idem' \in {idem, idem \cup {Key(b)}}
    /\ Fail(b)
    /\ UNCHANGED <<bloom, topic, inputs, bresp, crashes>>

\* What follows the BF.ADD: the event also enters the in-process filter, and a
\* "not seen" event goes on to its SETNX.
AfterAdd(b) ==
    /\ blocal' = [blocal EXCEPT ![b] = @ \cup {Key(b)}]
    /\ IF bexists[b] = 0
       THEN /\ Goto(b, "setnx")
            /\ UNCHANGED <<bvalid, bidx, bexists, baccepted, bfailed>>
       ELSE Accept(b)

\* BF.ADD.
BloomAdd(b) ==
    /\ bpc[b] = "add"
    /\ bloomModule
    /\ bloom' = bloom \cup {Key(b)}
    /\ AfterAdd(b)
    /\ UNCHANGED <<idem, topic, inputs, bresp, faults, crashes>>

\* BF.ADD fails; its error is ignored.
BloomAddError(b) ==
    /\ bpc[b] = "add"
    /\ BloomDown
    /\ AfterAdd(b)
    /\ UNCHANGED <<idem, bloom, topic, inputs, bresp, crashes>>

\* SETNX of a "not seen" event: its result is not looked at.
NewSetNX(b) ==
    /\ bpc[b] = "setnx"
    /\ idem' = idem \cup {Key(b)}
    /\ Accept(b)
    /\ UNCHANGED <<bloom, topic, inputs, blocal, bresp, faults, crashes>>

NewSetNXError(b) ==
    /\ bpc[b] = "setnx"
    /\ Fault
    /\ Accept(b)
    /\ UNCHANGED <<idem, bloom, topic, inputs, blocal, bresp, crashes>>

AtEnd(b) == bpc[b] = "loop" /\ bidx[b] > Len(bitems[b])

\* No event was accepted: 400.
NoValidEvents(b) ==
    /\ AtEnd(b)
    /\ baccepted[b] = {}
    /\ Answer(b, 400)
    /\ UNCHANGED <<idem, bloom, topic, inputs, loop, faults, crashes>>

Messages(b, positions) ==
    {[req |-> b, pos |-> i, key |-> KeyAt(b, i)] : i \in positions}

\* The accepted events are published in one call: 202.
PublishBatch(b) ==
    /\ AtEnd(b)
    /\ baccepted[b] # {}
    /\ topic' = topic \cup Messages(b, baccepted[b])
    /\ Answer(b, 202)
    /\ UNCHANGED <<idem, bloom, inputs, loop, faults, crashes>>

\* The publish fails, or no producer is configured: any of the messages may be
\* in Kafka, and the answer is 202 all the same.
PublishBatchError(b) ==
    /\ AtEnd(b)
    /\ baccepted[b] # {}
    /\ Fault
    /\ \E sent \in SUBSET baccepted[b] : topic' = topic \cup Messages(b, sent)
    /\ Answer(b, 202)
    /\ UNCHANGED <<idem, bloom, inputs, loop, crashes>>

\* The process of the handler dies: the batch is never answered.
Kill(b) ==
    /\ bpc[b] \notin {"idle", "done", "dead"}
    /\ crashes < MaxCrashes
    /\ crashes' = crashes + 1
    /\ Goto(b, "dead")
    /\ UNCHANGED <<idem, bloom, topic, inputs, loop, bresp, faults>>

\* Every batch has been answered or has died.
Idle ==
    /\ \A b \in Batches : bpc[b] \in {"done", "dead"}
    /\ UNCHANGED bvars

Step(b) ==
    \/ Refuse(b)
    \/ \E o \in Orgs, items \in Inputs : Receive(b, o, items)
    \/ Lookup(b)
    \/ LookupError(b)
    \/ SkipInvalid(b)
    \/ BloomExists(b)
    \/ BloomFallback(b)
    \/ CheckSetNX(b)
    \/ CheckSetNXError(b)
    \/ BloomAdd(b)
    \/ BloomAddError(b)
    \/ NewSetNX(b)
    \/ NewSetNXError(b)
    \/ NoValidEvents(b)
    \/ PublishBatch(b)
    \/ PublishBatchError(b)
    \/ Kill(b)

Next == Idle \/ \E b \in Batches : Step(b)

Spec == Init /\ [][Next]_bvars

-----------------------------------------------------------------------------
(* Properties. *)

\* Every variable has its type; the loop variable of processBatchEvents leaves
\* the batch by one position at most.
TypeOK ==
    /\ bloomModule \in BOOLEAN
    /\ idem \subseteq Keys
    /\ bloom \subseteq Keys
    /\ topic \subseteq [req : Batches, pos : 1..MaxBatchLen, key : Keys]
    /\ bpc \in [Batches -> {"idle", "lookup", "loop", "check", "add", "setnx",
                            "done", "dead"}]
    /\ borg \in [Batches -> Orgs]
    /\ bitems \in [Batches -> Inputs \cup {<<>>}]
    /\ bvalid \in [Batches -> SUBSET (1..MaxBatchLen)]
    /\ bidx \in [Batches -> 1..(MaxBatchLen + 1)]
    /\ bexists \in [Batches -> {0, 1}]
    /\ blocal \in [Batches -> SUBSET Keys]
    /\ baccepted \in [Batches -> SUBSET (1..MaxBatchLen)]
    /\ bfailed \in [Batches -> 0..MaxBatchLen]
    /\ bresp \in [Batches -> {0, 202, 400}]
    /\ bprior \in [Batches -> SUBSET Keys]
    /\ faults \in 0..MaxFaults
    /\ crashes \in 0..MaxCrashes

\* accepted_count + failed_count is the number of events of the batch: the loop
\* puts every event it has passed on exactly one side, through every error.
CountsAddUp ==
    \A b \in Batches :
        /\ Cardinality(baccepted[b]) + bfailed[b] = bidx[b] - 1
        /\ bresp[b] = 202 =>
              Cardinality(baccepted[b]) + bfailed[b] = Len(bitems[b])

\* An event that occurs twice in a batch is accepted once, with the Bloom
\* filter in Redis or with the in-process one, whatever other batches do,
\* as long as no call fails half-way.
NoDuplicateInBatch ==
    faults = 0 =>
        \A b \in Batches : \A i, j \in baccepted[b] :
            KeyAt(b, i) = KeyAt(b, j) => i = j

\* A batch accepts the event with key k, or is about to: it has claimed it.
Winner(b, k) ==
    \/ \E i \in baccepted[b] : KeyAt(b, i) = k
    \/ bpc[b] \in {"add", "setnx"} /\ Key(b) = k

\* As long as nothing fails and no handler dies, an event of a known end user
\* that is counted as a duplicate has a winner, this batch or another: the
\* filters and the two SETNX calls never drop every copy of an event, however
\* batches interleave and whatever false positives the filters have.
DuplicateHasWinner ==
    (faults = 0 /\ crashes = 0) =>
        \A b \in Batches : \A i \in bvalid[b] \ baccepted[b] :
            i < bidx[b] => \E w \in Batches : Winner(w, KeyAt(b, i))

\* With the Bloom filter in Redis, a batch that arrives after an event was
\* published does not publish it again, unless a call has failed: two batches
\* that publish the same event overlap in time.
NoLateRepublish ==
    (bloomModule /\ faults = 0) =>
        \A m \in topic : m.req \in Batches => m.key \notin bprior[m.req]

=============================================================================
