--------------------------- MODULE IngestBatchProofs ---------------------------
(***************************************************************************)
(* Proofs about the batch path, for any number of batches, events and ids: *)
(* its counters, its duplicates and what it publishes again.               *)
(***************************************************************************)
EXTENDS IngestBatch, FiniteSetTheorems, TLAPS

-----------------------------------------------------------------------------
(* Types, and where the loop of processBatchEvents is. *)

\* What holds of a batch by the place of its handler: the counters are zero
\* before the loop, an event is at hand inside it, the loop has passed what it
\* has counted, and it has passed everything when the answer is 202.
Place(b) ==
    /\ bpc[b] \in {"idle", "lookup"} =>
          bidx[b] = 1 /\ baccepted[b] = {} /\ bfailed[b] = 0 /\ bvalid[b] = {}
    /\ bpc[b] \in {"check", "add", "setnx"} => bidx[b] <= Len(bitems[b])
    /\ bvalid[b] \subseteq 1..Len(bitems[b])
    /\ bidx[b] <= Len(bitems[b]) + 1
    /\ baccepted[b] \subseteq 1..(bidx[b] - 1)
    /\ bfailed[b] <= bidx[b] - 1
    /\ bresp[b] = 202 => bpc[b] = "done" /\ bidx[b] = Len(bitems[b]) + 1

TypeInv == TypeOK /\ \A b \in Batches : Place(b)

\* A batch is a sequence of at most MaxBatchLen events.
LEMMA InputLen ==
    ASSUME NEW q \in Inputs \cup {<<>>}
    PROVE  /\ Len(q) \in 0..MaxBatchLen
           /\ DOMAIN q = 1..Len(q)
           /\ \A i \in 1..Len(q) : q[i] \in Items
<1>1. CASE q = <<>>
  BY <1>1, BatchAssumption
<1>2. CASE q \in Inputs
  <2>1. PICK n \in 1..MaxBatchLen : q \in [1..n -> Items]
    BY <1>2 DEF Inputs
  <2>2. n \in Nat /\ Len(q) = n /\ DOMAIN q = 1..n
    BY <2>1, BatchAssumption
  <2> QED BY <2>1, <2>2, BatchAssumption
<1> QED BY <1>1, <1>2

\* The key of an event of a batch is a key.
LEMMA KeyAtType ==
    ASSUME TypeOK, NEW b \in Batches, NEW i \in 1..Len(bitems[b])
    PROVE  KeyAt(b, i) \in Keys
<1>1. bitems[b][i] \in Items
  BY InputLen DEF TypeOK
<1> QED BY <1>1 DEF TypeOK, KeyAt, Keys, Items

\* Nothing has arrived in the beginning.
LEMMA TypeInit == Init => TypeInv
<1> SUFFICES ASSUME Init PROVE TypeInv
  OBVIOUS
<1>1. TypeOK
  BY BatchAssumption DEF Init, TypeOK
<1>2. ASSUME NEW b \in Batches PROVE Place(b)
  BY DEF Init, Place
<1> QED BY <1>1, <1>2 DEF TypeInv

\* What the step that counts the event at hand keeps: types of the counters and
\* places.
CountsKept ==
    /\ bpc' \in [Batches -> {"idle", "lookup", "loop", "check", "add", "setnx",
                             "done", "dead"}]
    /\ bidx' \in [Batches -> 1..(MaxBatchLen + 1)]
    /\ baccepted' \in [Batches -> SUBSET (1..MaxBatchLen)]
    /\ bfailed' \in [Batches -> 0..MaxBatchLen]
    /\ UNCHANGED <<bvalid, bexists>>
    /\ \A d \in Batches : Place(d)'

\* The event at hand is counted as failed: what Fail does keeps types and places.
LEMMA FailPreserves ==
    ASSUME TypeInv, NEW b \in Batches, bidx[b] <= Len(bitems[b]),
           bpc[b] \in {"loop", "check"}, Fail(b),
           UNCHANGED <<bitems, bresp>>
    PROVE  CountsKept /\ UNCHANGED blocal
<1>1. Len(bitems[b]) \in 0..MaxBatchLen
  BY InputLen DEF TypeInv, TypeOK
<1>2. bidx[b] \in 1..MaxBatchLen /\ bfailed[b] \in 0..(bidx[b] - 1)
  BY <1>1, BatchAssumption DEF TypeInv, TypeOK, Place
<1>3. bpc' \in [Batches -> {"idle", "lookup", "loop", "check", "add",
                            "setnx", "done", "dead"}]
  BY DEF TypeInv, TypeOK, Fail, Goto
<1>4. /\ bidx' \in [Batches -> 1..(MaxBatchLen + 1)]
      /\ bfailed' \in [Batches -> 0..MaxBatchLen]
      /\ bidx'[b] = bidx[b] + 1 /\ bfailed'[b] = bfailed[b] + 1 /\ bpc'[b] = "loop"
      /\ \A d \in Batches \ {b} : bidx'[d] = bidx[d] /\ bfailed'[d] = bfailed[d]
                                  /\ bpc'[d] = bpc[d]
  BY <1>2, BatchAssumption DEF TypeInv, TypeOK, Fail, Goto
<1>5. UNCHANGED <<bvalid, bexists, blocal, baccepted>>
  BY DEF Fail
<1>6. Place(b)'
  <2>1. Place(b) /\ bresp[b] # 202
    BY DEF TypeInv, Place
  <2>2. baccepted'[b] \subseteq 1..(bidx'[b] - 1)
    <3>1. baccepted'[b] \subseteq 1..(bidx[b] - 1)
      BY <1>5, <2>1 DEF Place
    <3> QED BY <1>2, <1>4, <3>1
  <2>3. bfailed'[b] <= bidx'[b] - 1 /\ bidx'[b] <= Len(bitems'[b]) + 1
    BY <1>1, <1>2, <1>4
  <2> QED BY <1>4, <1>5, <2>1, <2>2, <2>3 DEF Place
<1>7. ASSUME NEW d \in Batches \ {b} PROVE Place(d)'
  <2>1. Place(d)
    BY DEF TypeInv
  <2> QED BY <1>4, <1>5, <2>1 DEF Place
<1>8. baccepted' \in [Batches -> SUBSET (1..MaxBatchLen)]
      /\ bfailed' \in [Batches -> 0..MaxBatchLen]
  BY <1>4, <1>5 DEF TypeInv, TypeOK
<1> QED BY <1>3, <1>4, <1>5, <1>6, <1>7, <1>8 DEF CountsKept

\* The event at hand is accepted: what Accept does keeps types and places.
LEMMA AcceptPreserves ==
    ASSUME TypeInv, NEW b \in Batches, bpc[b] \in {"add", "setnx"}, Accept(b),
           UNCHANGED <<bitems, bresp>>
    PROVE  CountsKept
<1>1. Len(bitems[b]) \in 0..MaxBatchLen
  BY InputLen DEF TypeInv, TypeOK
<1>2. bidx[b] \in 1..MaxBatchLen /\ bidx[b] <= Len(bitems[b])
  BY <1>1, BatchAssumption DEF TypeInv, TypeOK, Place
<1>3. bpc' \in [Batches -> {"idle", "lookup", "loop", "check", "add",
                            "setnx", "done", "dead"}]
  BY DEF TypeInv, TypeOK, Accept, Goto
<1>4. /\ bidx' \in [Batches -> 1..(MaxBatchLen + 1)]
      /\ baccepted' \in [Batches -> SUBSET (1..MaxBatchLen)]
      /\ bidx'[b] = bidx[b] + 1 /\ bpc'[b] = "loop"
      /\ baccepted'[b] = baccepted[b] \cup {bidx[b]}
      /\ \A d \in Batches \ {b} : bidx'[d] = bidx[d] /\ baccepted'[d] = baccepted[d]
                                  /\ bpc'[d] = bpc[d]
  BY <1>2, BatchAssumption DEF TypeInv, TypeOK, Accept, Goto
<1>5. UNCHANGED <<bvalid, bexists, bfailed>>
  BY DEF Accept
<1>6. Place(b)'
  <2>1. Place(b) /\ bresp[b] # 202 /\ bfailed[b] \in Nat
    BY BatchAssumption DEF TypeInv, TypeOK, Place
  <2> QED BY <1>1, <1>2, <1>4, <1>5, <2>1 DEF Place
<1>7. ASSUME NEW d \in Batches \ {b} PROVE Place(d)'
  <2>1. Place(d)
    BY DEF TypeInv
  <2> QED BY <1>4, <1>5, <2>1 DEF Place
<1>8. baccepted' \in [Batches -> SUBSET (1..MaxBatchLen)]
      /\ bfailed' \in [Batches -> 0..MaxBatchLen]
  BY <1>4, <1>5 DEF TypeInv, TypeOK
<1> QED BY <1>3, <1>4, <1>5, <1>6, <1>7, <1>8 DEF CountsKept

\* Every step keeps types and places.
LEMMA TypeNext == TypeInv /\ [Next]_bvars => TypeInv'
<1> SUFFICES ASSUME TypeInv, [Next]_bvars PROVE TypeInv'
  OBVIOUS
<1>0. \A d \in Batches : /\ Len(bitems[d]) \in 0..MaxBatchLen
                         /\ DOMAIN bitems[d] = 1..Len(bitems[d])
  BY InputLen DEF TypeInv, TypeOK
<1>1. ASSUME NEW b \in Batches, Refuse(b) PROVE TypeInv'
  BY <1>1 DEF Refuse, Answer, Goto, inputs, loop, TypeInv, TypeOK, Place
<1>2. ASSUME NEW b \in Batches, NEW o \in Orgs, NEW items \in Inputs,
             Receive(b, o, items)
      PROVE  TypeInv'
  <2>1. Len(items) \in 0..MaxBatchLen
    BY InputLen
  <2>2. {m.key : m \in topic} \subseteq Keys
    BY DEF TypeInv, TypeOK
  <2>3. TypeOK'
    BY <1>2, <2>2 DEF Receive, Goto, loop, TypeInv, TypeOK
  <2>4. Place(b)'
    BY <1>2, <2>1 DEF Receive, Goto, loop, TypeInv, TypeOK, Place
  <2>5. ASSUME NEW d \in Batches \ {b} PROVE Place(d)'
    BY <1>2 DEF Receive, Goto, loop, TypeInv, TypeOK, Place
  <2> QED BY <2>3, <2>4, <2>5 DEF TypeInv
<1>3. ASSUME NEW b \in Batches, Lookup(b) \/ LookupError(b) PROVE TypeInv'
  <2>1. PICK found \in SUBSET Members(b) : bvalid' = [bvalid EXCEPT ![b] = found]
    BY <1>3 DEF Lookup, LookupError
  <2>2. found \subseteq 1..Len(bitems[b]) /\ found \subseteq 1..MaxBatchLen
    BY <1>0, BatchAssumption DEF Members
  <2>3. TypeOK'
    <3>1. /\ Goto(b, "loop")
          /\ UNCHANGED <<idem, bloom, topic, inputs, bidx, bexists, blocal, baccepted,
                         bfailed, bresp, crashes>>
      BY <1>3 DEF Lookup, LookupError
    <3>2. faults' \in 0..MaxFaults
      BY <1>3, BatchAssumption DEF Lookup, LookupError, Fault, TypeInv, TypeOK
    <3>3. bvalid' \in [Batches -> SUBSET (1..MaxBatchLen)]
      BY <2>1, <2>2 DEF TypeInv, TypeOK
    <3> QED BY <3>1, <3>2, <3>3 DEF Goto, inputs, TypeInv, TypeOK
  <2>4. /\ bpc[b] = "lookup" /\ bpc'[b] = "loop" /\ bvalid'[b] = found
        /\ UNCHANGED <<bitems, bidx, baccepted, bfailed, bresp>>
        /\ \A d \in Batches \ {b} : bpc'[d] = bpc[d] /\ bvalid'[d] = bvalid[d]
    BY <1>3, <2>1 DEF Lookup, LookupError, Goto, inputs, TypeInv, TypeOK
  <2>5. Place(b)'
    <3>1. Place(b)
      BY DEF TypeInv
    <3> QED BY <2>2, <2>4, <3>1 DEF Place
  <2>6. ASSUME NEW d \in Batches \ {b} PROVE Place(d)'
    <3>1. Place(d)
      BY DEF TypeInv
    <3> QED BY <2>4, <3>1 DEF Place
  <2> QED BY <2>3, <2>5, <2>6 DEF TypeInv
<1>4. ASSUME NEW b \in Batches, SkipInvalid(b) PROVE TypeInv'
  <2>1. /\ bpc[b] \in {"loop", "check"} /\ bidx[b] <= Len(bitems[b]) /\ Fail(b)
        /\ UNCHANGED <<idem, bloom, topic, inputs, bresp, faults, crashes>>
    BY <1>4 DEF SkipInvalid, AtItem
  <2>2. CountsKept /\ UNCHANGED blocal
    BY <2>1, FailPreserves DEF inputs
  <2> QED BY <2>1, <2>2 DEF CountsKept, inputs, TypeInv, TypeOK
<1>5. ASSUME NEW b \in Batches, BloomExists(b) PROVE TypeInv'
  <2>1. TypeOK'
    BY <1>5 DEF BloomExists, AtItem, Goto, inputs, TypeInv, TypeOK
  <2>2. ASSUME NEW d \in Batches PROVE Place(d)'
    BY <1>5 DEF BloomExists, AtItem, Goto, inputs, TypeInv, TypeOK, Place
  <2> QED BY <2>1, <2>2 DEF TypeInv
<1>6. ASSUME NEW b \in Batches, BloomFallback(b) PROVE TypeInv'
  <2>1. Key(b) \in Keys
    BY <1>0, <1>6, KeyAtType DEF BloomFallback, AtItem, Key, TypeInv, TypeOK
  <2>2. faults' \in 0..MaxFaults
    BY <1>6, BatchAssumption DEF BloomFallback, BloomDown, Fault, TypeInv, TypeOK
  <2>3. TypeOK'
    BY <1>6, <2>1, <2>2 DEF BloomFallback, AtItem, Goto, inputs, TypeInv, TypeOK
  <2>4. ASSUME NEW d \in Batches PROVE Place(d)'
    BY <1>6 DEF BloomFallback, AtItem, Goto, inputs, TypeInv, TypeOK, Place
  <2> QED BY <2>3, <2>4 DEF TypeInv
<1>7. ASSUME NEW b \in Batches, bpc[b] \in {"check", "add", "setnx"}
      PROVE  /\ Key(b) \in Keys
             /\ bidx[b] <= Len(bitems[b])
  <2>1. bidx[b] <= Len(bitems[b])
    BY <1>7 DEF TypeInv, Place
  <2>2. bidx[b] \in 1..Len(bitems[b])
    BY <1>0, <2>1 DEF TypeInv, TypeOK
  <2> QED BY <2>1, <2>2, KeyAtType DEF Key, TypeInv
<1>8. ASSUME NEW b \in Batches, CheckSetNX(b) \/ CheckSetNXError(b) PROVE TypeInv'
  <2>1. bpc[b] = "check" /\ idem' \subseteq Keys /\ faults' \in 0..MaxFaults
    BY <1>7, <1>8, BatchAssumption DEF CheckSetNX, CheckSetNXError, Fault, TypeInv, TypeOK
  <2>2. CASE Fail(b)
    <3>1. UNCHANGED <<bloom, topic, inputs, bresp, crashes>>
      BY <1>8 DEF CheckSetNX, CheckSetNXError
    <3>2. CountsKept /\ UNCHANGED blocal
      BY <1>7, <2>1, <2>2, <3>1, FailPreserves DEF inputs
    <3> QED BY <2>1, <3>1, <3>2 DEF CountsKept, inputs, TypeInv, TypeOK
  <2>3. CASE Goto(b, "add") /\ UNCHANGED loop
    <3>1. TypeOK'
      BY <1>8, <2>1, <2>3 DEF CheckSetNX, CheckSetNXError, Goto, inputs, loop, TypeInv, TypeOK
    <3>2. ASSUME NEW d \in Batches PROVE Place(d)'
      <4>1. /\ UNCHANGED <<bitems, bresp, bvalid, bidx, baccepted, bfailed>>
            /\ bpc'[d] = bpc[d] \/ (d = b /\ bpc'[d] = "add")
        BY <1>8, <2>3 DEF CheckSetNX, CheckSetNXError, Goto, inputs, loop, TypeInv, TypeOK
      <4>2. Place(d)
        BY DEF TypeInv
      <4> QED BY <2>1, <4>1, <4>2 DEF Place
    <3> QED BY <3>1, <3>2 DEF TypeInv
  <2> QED BY <1>8, <2>2, <2>3 DEF CheckSetNX, CheckSetNXError
<1>9. ASSUME NEW b \in Batches, BloomAdd(b) \/ BloomAddError(b) PROVE TypeInv'
  <2>1. /\ bpc[b] = "add" /\ bloom' \subseteq Keys /\ faults' \in 0..MaxFaults
        /\ blocal' \in [Batches -> SUBSET Keys]
    <3>1. bpc[b] = "add" /\ Key(b) \in Keys
      BY <1>7, <1>9 DEF BloomAdd, BloomAddError
    <3>2. bloom' \subseteq Keys /\ blocal' \in [Batches -> SUBSET Keys]
      <4>1. blocal' = [blocal EXCEPT ![b] = @ \cup {Key(b)}]
        BY <1>9 DEF BloomAdd, BloomAddError, AfterAdd
      <4>2. bloom' \in {bloom, bloom \cup {Key(b)}}
        BY <1>9 DEF BloomAdd, BloomAddError
      <4> QED BY <3>1, <4>1, <4>2 DEF TypeInv, TypeOK
    <3>3. faults' \in 0..MaxFaults
      BY <1>9, BatchAssumption DEF BloomAdd, BloomAddError, BloomDown, Fault, TypeInv, TypeOK
    <3> QED BY <3>1, <3>2, <3>3
  <2>2. CASE Accept(b)
    <3>1. UNCHANGED <<idem, topic, inputs, bresp, crashes>>
      BY <1>9 DEF BloomAdd, BloomAddError
    <3>2. CountsKept
      BY <2>1, <2>2, <3>1, AcceptPreserves DEF inputs
    <3> QED BY <2>1, <3>1, <3>2 DEF CountsKept, inputs, TypeInv, TypeOK
  <2>3. CASE Goto(b, "setnx") /\ UNCHANGED <<bvalid, bidx, bexists, baccepted, bfailed>>
    <3>1. TypeOK'
      BY <1>9, <2>1, <2>3 DEF BloomAdd, BloomAddError, Goto, inputs, TypeInv, TypeOK
    <3>2. ASSUME NEW d \in Batches PROVE Place(d)'
      <4>1. /\ UNCHANGED <<bitems, bresp, bvalid, bidx, baccepted, bfailed>>
            /\ bpc'[d] = bpc[d] \/ (d = b /\ bpc'[d] = "setnx")
        BY <1>9, <2>3 DEF BloomAdd, BloomAddError, Goto, inputs, TypeInv, TypeOK
      <4>2. Place(d)
        BY DEF TypeInv
      <4> QED BY <2>1, <4>1, <4>2 DEF Place
    <3> QED BY <3>1, <3>2 DEF TypeInv
  <2> QED BY <1>9, <2>2, <2>3 DEF BloomAdd, BloomAddError, AfterAdd
<1>10. ASSUME NEW b \in Batches, NewSetNX(b) \/ NewSetNXError(b) PROVE TypeInv'
  <2>1. bpc[b] = "setnx" /\ idem' \subseteq Keys /\ faults' \in 0..MaxFaults
    BY <1>7, <1>10, BatchAssumption DEF NewSetNX, NewSetNXError, Fault, TypeInv, TypeOK
  <2>2. Accept(b) /\ UNCHANGED <<bloom, topic, inputs, blocal, bresp, crashes>>
    BY <1>10 DEF NewSetNX, NewSetNXError
  <2>3. CountsKept
    BY <2>1, <2>2, AcceptPreserves DEF inputs
  <2> QED BY <2>1, <2>2, <2>3 DEF CountsKept, inputs, TypeInv, TypeOK
<1>11. ASSUME NEW b \in Batches, NoValidEvents(b) PROVE TypeInv'
  BY <1>11 DEF NoValidEvents, AtEnd, Answer, Goto, inputs, loop, TypeInv, TypeOK, Place
<1>12. ASSUME NEW b \in Batches, PublishBatch(b) \/ PublishBatchError(b) PROVE TypeInv'
  <2>1. PICK sent \in SUBSET baccepted[b] : topic' = topic \cup Messages(b, sent)
    BY <1>12 DEF PublishBatch, PublishBatchError
  <2>2. \A i \in sent : i \in 1..MaxBatchLen /\ KeyAt(b, i) \in Keys
    <3>1. Place(b) /\ TypeOK
      BY DEF TypeInv
    <3>2. \A i \in sent : i \in 1..Len(bitems[b]) /\ i \in 1..MaxBatchLen
      BY <1>0, <3>1, BatchAssumption DEF TypeOK, Place
    <3> QED BY <3>1, <3>2, KeyAtType
  <2>3. Messages(b, sent) \subseteq [req : Batches, pos : 1..MaxBatchLen, key : Keys]
    BY <2>2 DEF Messages
  <2>4. TypeOK'
    <3>1. faults' \in 0..MaxFaults
      BY <1>12, BatchAssumption DEF PublishBatch, PublishBatchError, Fault, TypeInv, TypeOK
    <3>2. topic' \subseteq [req : Batches, pos : 1..MaxBatchLen, key : Keys]
      BY <2>1, <2>3 DEF TypeInv, TypeOK
    <3>3. Answer(b, 202) /\ UNCHANGED <<idem, bloom, inputs, loop, crashes>>
      BY <1>12 DEF PublishBatch, PublishBatchError
    <3> QED BY <3>1, <3>2, <3>3 DEF Answer, Goto, inputs, loop, TypeInv, TypeOK
  <2>5. /\ bpc[b] = "loop" /\ bpc'[b] = "done" /\ bidx[b] > Len(bitems[b])
        /\ UNCHANGED <<bitems, bvalid, bidx, baccepted, bfailed>>
        /\ \A d \in Batches \ {b} : bpc'[d] = bpc[d] /\ bresp'[d] = bresp[d]
    BY <1>12 DEF PublishBatch, PublishBatchError, AtEnd, Answer, Goto, inputs, loop,
                TypeInv, TypeOK
  <2>6. Place(b)'
    <3>1. Place(b) /\ bidx[b] \in Nat
      BY BatchAssumption DEF TypeInv, TypeOK
    <3>2. bidx[b] = Len(bitems[b]) + 1
      BY <1>0, <2>5, <3>1 DEF Place
    <3> QED BY <2>5, <3>1, <3>2 DEF Place
  <2>7. ASSUME NEW d \in Batches \ {b} PROVE Place(d)'
    <3>1. Place(d)
      BY DEF TypeInv
    <3> QED BY <2>5, <3>1 DEF Place
  <2> QED BY <2>4, <2>6, <2>7 DEF TypeInv
<1>13. ASSUME NEW b \in Batches, Kill(b) PROVE TypeInv'
  BY <1>13, BatchAssumption DEF Kill, Goto, inputs, loop, TypeInv, TypeOK, Place
<1>14. CASE UNCHANGED bvars
  BY <1>14 DEF bvars, inputs, loop, TypeInv, TypeOK, Place
<1> QED BY <1>1, <1>2, <1>3, <1>4, <1>5, <1>6, <1>8, <1>9, <1>10, <1>11, <1>12, <1>13, <1>14
        DEF Next, Step, Idle

\* processBatchEvents never leaves the batch and every variable has its type,
\* for any number of batches of any length.
THEOREM TypeCorrect == Spec => []TypeOK
<1>1. TypeInv => TypeOK
  BY DEF TypeInv
<1> QED BY <1>1, TypeInit, TypeNext, PTL DEF Spec

-----------------------------------------------------------------------------
(* The counters. *)

\* What the loop has passed, it has counted.
Counted(b) == Cardinality(baccepted[b]) + bfailed[b] = bidx[b] - 1

CountInv == TypeInv /\ \A b \in Batches : Counted(b)

\* The counters of a batch do not move, or its event at hand goes to one side.
CountStep(b) ==
    \/ bidx'[b] = bidx[b] /\ baccepted'[b] = baccepted[b] /\ bfailed'[b] = bfailed[b]
    \/ /\ bidx'[b] = bidx[b] + 1
       /\ \/ baccepted'[b] = baccepted[b] /\ bfailed'[b] = bfailed[b] + 1
          \/ baccepted'[b] = baccepted[b] \cup {bidx[b]} /\ bfailed'[b] = bfailed[b]

\* Every step counts at most one event of a batch.
LEMMA CountSteps ==
    ASSUME TypeInv, [Next]_bvars, NEW d \in Batches
    PROVE  CountStep(d)
<1> USE DEF TypeInv, TypeOK
<1>1. ASSUME NEW b \in Batches, Fail(b) PROVE CountStep(d)
  BY <1>1 DEF Fail, CountStep
<1>2. ASSUME NEW b \in Batches, Accept(b) PROVE CountStep(d)
  BY <1>2 DEF Accept, CountStep
<1>3. CASE UNCHANGED <<bidx, baccepted, bfailed>>
  BY <1>3 DEF CountStep
<1>4. ASSUME NEW b \in Batches, Step(b) PROVE CountStep(d)
  <2>1. Fail(b) \/ Accept(b) \/ UNCHANGED <<bidx, baccepted, bfailed>>
    BY <1>4 DEF Step, Refuse, Receive, Lookup, LookupError, SkipInvalid, BloomExists,
         BloomFallback, CheckSetNX, CheckSetNXError, BloomAdd, BloomAddError, AfterAdd,
         NewSetNX, NewSetNXError, NoValidEvents, PublishBatch, PublishBatchError, Kill, loop
  <2> QED BY <1>1, <1>2, <1>3, <2>1
<1> QED BY <1>3, <1>4 DEF Next, Idle, bvars, loop

LEMMA CountNext == CountInv /\ [Next]_bvars => CountInv'
<1> SUFFICES ASSUME CountInv, [Next]_bvars PROVE CountInv'
  OBVIOUS
<1>1. TypeInv'
  BY TypeNext DEF CountInv
<1>2. ASSUME NEW b \in Batches PROVE Counted(b)'
  <2>1. CountStep(b)
    BY CountSteps DEF CountInv
  <2>2. /\ Counted(b) /\ bidx[b] \in Nat /\ bfailed[b] \in Nat
        /\ baccepted[b] \subseteq 1..(bidx[b] - 1)
    BY BatchAssumption DEF CountInv, TypeInv, TypeOK, Place
  <2>3. IsFiniteSet(baccepted[b])
    <3>1. IsFiniteSet(1..(bidx[b] - 1))
      <4>1. 1 \in Int /\ bidx[b] - 1 \in Int
        BY <2>2
      <4> QED BY <4>1, FS_Interval
    <3> QED BY <2>2, <3>1, FS_Subset
  <2>4. Cardinality(baccepted[b]) \in Nat
    BY <2>3, FS_CardinalityType
  <2>5. Cardinality(baccepted[b] \cup {bidx[b]}) = Cardinality(baccepted[b]) + 1
    <3>1. bidx[b] \notin baccepted[b]
      BY <2>2
    <3> QED BY <2>3, <3>1, FS_AddElement
  <2>6. CASE baccepted'[b] = baccepted[b]
    BY <2>1, <2>2, <2>4, <2>6 DEF Counted, CountStep
  <2>7. CASE /\ baccepted'[b] = baccepted[b] \cup {bidx[b]} /\ bfailed'[b] = bfailed[b]
             /\ bidx'[b] = bidx[b] + 1
    <3>1. Cardinality(baccepted'[b]) = Cardinality(baccepted[b]) + 1
      BY <2>5, <2>7
    <3> QED BY <2>2, <2>4, <2>7, <3>1 DEF Counted
  <2> QED BY <2>1, <2>6, <2>7 DEF CountStep
<1> QED BY <1>1, <1>2 DEF CountInv

\* accepted_count + failed_count of a 202 is the length of the batch, whatever
\* calls fail on the way and however batches interleave.
THEOREM CountsAlwaysAddUp == Spec => []CountsAddUp
<1>1. Init => CountInv
  BY TypeInit, FS_EmptySet DEF Init, CountInv, Counted
<1>2. CountInv => CountsAddUp
  <2> SUFFICES ASSUME CountInv, NEW b \in Batches
               PROVE  /\ Counted(b)
                      /\ bresp[b] = 202 =>
                           Cardinality(baccepted[b]) + bfailed[b] = Len(bitems[b])
    BY DEF CountsAddUp, Counted
  <2>1. Len(bitems[b]) \in Nat
    BY InputLen, BatchAssumption DEF CountInv, TypeInv, TypeOK
  <2> QED BY <2>1 DEF CountInv, Counted, TypeInv, Place
<1> QED BY <1>1, <1>2, CountNext, PTL DEF Spec

-----------------------------------------------------------------------------
(* Duplicates, as long as no call fails. *)

\* What a batch has accepted is in every filter and has its idempotency key; an
\* event on its way to be accepted is none of those.
Claimed(b) ==
    /\ \A i \in baccepted[b] : /\ KeyAt(b, i) \in idem
                               /\ KeyAt(b, i) \in blocal[b]
                               /\ bloomModule => KeyAt(b, i) \in bloom
    /\ \A i, j \in baccepted[b] : KeyAt(b, i) = KeyAt(b, j) => i = j
    /\ bpc[b] \in {"add", "setnx"} =>
          \A i \in baccepted[b] : KeyAt(b, i) # Key(b)
    /\ bpc[b] = "setnx" =>
          Key(b) \in blocal[b] /\ (bloomModule => Key(b) \in bloom)
    /\ (bpc[b] = "add" /\ bexists[b] = 1) => Key(b) \in idem

\* What was published before a batch arrived is in the filter and has its
\* idempotency key; the batch has accepted none of it.
Fresh(b) ==
    bloomModule =>
        /\ bprior[b] \subseteq bloom \cap idem
        /\ \A i \in baccepted[b] : KeyAt(b, i) \notin bprior[b]
        /\ bpc[b] \in {"add", "setnx"} => Key(b) \notin bprior[b]

\* What is published is in the filter and has its idempotency key, its batch is
\* done, and it was not there when the batch arrived.
Sent ==
    bloomModule =>
        \A m \in topic : /\ m.key \in bloom \cap idem
                         /\ bpc[m.req] = "done"
                         /\ m.key \notin bprior[m.req]

ClaimInv ==
    /\ TypeInv
    /\ faults = 0 => Sent /\ \A b \in Batches : Claimed(b) /\ Fresh(b)

\* The step of batch b forgets no key and leaves the other batches alone.
Grows(b) ==
    /\ idem \subseteq idem' /\ bloom \subseteq bloom' /\ bloomModule' = bloomModule
    /\ \A d \in Batches \ {b} :
          /\ bpc'[d] = bpc[d] /\ borg'[d] = borg[d] /\ bitems'[d] = bitems[d]
          /\ bidx'[d] = bidx[d] /\ bexists'[d] = bexists[d] /\ blocal'[d] = blocal[d]
          /\ baccepted'[d] = baccepted[d] /\ bprior'[d] = bprior[d]

LEMMA StepGrows ==
    ASSUME TypeInv, NEW b \in Batches, Step(b)
    PROVE  Grows(b)
<1> USE DEF TypeInv, TypeOK, Grows, Goto, inputs, loop
<1>1. CASE Refuse(b) \/ NoValidEvents(b) \/ PublishBatch(b) \/ PublishBatchError(b) \/ Kill(b)
  BY <1>1 DEF Refuse, NoValidEvents, PublishBatch, PublishBatchError, Kill, Answer
<1>2. ASSUME NEW o \in Orgs, NEW items \in Inputs, Receive(b, o, items) PROVE Grows(b)
  BY <1>2 DEF Receive
<1>3. CASE Lookup(b) \/ LookupError(b) \/ SkipInvalid(b)
  BY <1>3 DEF Lookup, LookupError, SkipInvalid, Fail
<1>4. CASE BloomExists(b) \/ BloomFallback(b)
  BY <1>4 DEF BloomExists, BloomFallback
<1>5. CASE CheckSetNX(b) \/ CheckSetNXError(b)
  BY <1>5 DEF CheckSetNX, CheckSetNXError, Fail
<1>6. CASE BloomAdd(b) \/ BloomAddError(b)
  BY <1>6 DEF BloomAdd, BloomAddError, AfterAdd, Accept
<1>7. CASE NewSetNX(b) \/ NewSetNXError(b)
  BY <1>7 DEF NewSetNX, NewSetNXError, Accept
<1> QED BY <1>1, <1>2, <1>3, <1>4, <1>5, <1>6, <1>7 DEF Step

\* What a batch has claimed survives the steps of the others.
LEMMA OthersKept ==
    ASSUME NEW b \in Batches, Grows(b), NEW d \in Batches \ {b}, Claimed(d), Fresh(d)
    PROVE  Claimed(d)' /\ Fresh(d)'
<1>1. /\ \A i \in baccepted[d] : KeyAt(d, i)' = KeyAt(d, i)
      /\ Key(d)' = Key(d)
  BY DEF Grows, KeyAt, Key
<1>2. Claimed(d)'
  BY <1>1 DEF Grows, Claimed
<1>3. Fresh(d)'
  BY <1>1 DEF Grows, Fresh
<1> QED BY <1>2, <1>3

\* The batch keeps its events and forgets no key.
Holds(b) ==
    /\ borg'[b] = borg[b] /\ bitems'[b] = bitems[b] /\ bprior'[b] = bprior[b]
    /\ blocal[b] \subseteq blocal'[b]
    /\ idem \subseteq idem' /\ bloom \subseteq bloom' /\ bloomModule' = bloomModule

\* A step that accepts nothing and does not put an event on its way.
LEMMA RestKept ==
    ASSUME NEW b \in Batches, Claimed(b), Fresh(b), Holds(b),
           baccepted'[b] = baccepted[b], bpc'[b] \notin {"add", "setnx"}
    PROVE  Claimed(b)' /\ Fresh(b)'
<1>1. \A i \in baccepted[b] : KeyAt(b, i)' = KeyAt(b, i)
  BY DEF Holds, KeyAt
<1> QED BY <1>1 DEF Holds, Claimed, Fresh

\* A step that puts the event at hand on its way: it is new to the batch, and
\* was not published before the batch arrived.
LEMMA WayKept ==
    ASSUME NEW b \in Batches, Claimed(b), Fresh(b), Holds(b),
           baccepted'[b] = baccepted[b], bidx'[b] = bidx[b],
           bpc'[b] \in {"add", "setnx"},
           \A i \in baccepted[b] : KeyAt(b, i) # Key(b),
           bloomModule => Key(b) \notin bprior[b],
           bpc'[b] = "setnx" =>
              Key(b) \in blocal'[b] /\ (bloomModule => Key(b) \in bloom'),
           (bpc'[b] = "add" /\ bexists'[b] = 1) => Key(b) \in idem'
    PROVE  Claimed(b)' /\ Fresh(b)'
<1>1. /\ \A i \in baccepted[b] : KeyAt(b, i)' = KeyAt(b, i)
      /\ Key(b)' = Key(b)
  BY DEF Holds, KeyAt, Key
<1>2. Claimed(b)'
  BY <1>1 DEF Holds, Claimed
<1>3. Fresh(b)'
  BY <1>1 DEF Holds, Fresh
<1> QED BY <1>2, <1>3

\* A step that accepts the event at hand, after all its keys are set.
LEMMA AcceptKept ==
    ASSUME NEW b \in Batches, Claimed(b), Fresh(b), Holds(b),
           bpc[b] \in {"add", "setnx"}, bpc'[b] = "loop",
           baccepted'[b] = baccepted[b] \cup {bidx[b]},
           Key(b) \in idem', Key(b) \in blocal'[b], bloomModule => Key(b) \in bloom'
    PROVE  Claimed(b)' /\ Fresh(b)'
<1>1. /\ \A i \in baccepted'[b] : KeyAt(b, i)' = KeyAt(b, i)
      /\ KeyAt(b, bidx[b]) = Key(b)
  BY DEF Holds, KeyAt, Key
<1>2. \A i \in baccepted[b] : KeyAt(b, i) # KeyAt(b, bidx[b])
  BY <1>1 DEF Claimed
<1>3. ASSUME NEW i \in baccepted'[b], NEW j \in baccepted'[b],
             KeyAt(b, i)' = KeyAt(b, j)'
      PROVE  i = j
  BY <1>1, <1>2, <1>3 DEF Claimed
<1>4. \A i \in baccepted'[b] : /\ KeyAt(b, i) \in idem'
                               /\ KeyAt(b, i) \in blocal'[b]
                               /\ bloomModule => KeyAt(b, i) \in bloom'
  BY <1>1 DEF Claimed, Holds
<1>5. Claimed(b)'
  BY <1>1, <1>3, <1>4 DEF Claimed, Holds
<1>6. Fresh(b)'
  BY <1>1 DEF Fresh, Holds
<1> QED BY <1>5, <1>6

\* Every step keeps what its own batch has claimed, unless a call fails.
LEMMA OwnKept ==
    ASSUME ClaimInv, faults = 0, faults' = 0, NEW b \in Batches, Step(b)
    PROVE  Claimed(b)' /\ Fresh(b)'
<1> USE DEF TypeInv, TypeOK, inputs, loop, Goto, Holds
<1>0. TypeInv /\ Sent /\ Claimed(b) /\ Fresh(b) /\ ~Fault
  BY DEF ClaimInv, Fault
<1>1. CASE Refuse(b) \/ NoValidEvents(b) \/ PublishBatch(b) \/ Kill(b)
  <2>1. Holds(b) /\ baccepted'[b] = baccepted[b] /\ bpc'[b] \notin {"add", "setnx"}
    BY <1>0, <1>1 DEF Refuse, NoValidEvents, PublishBatch, Kill, Answer
  <2> QED BY <1>0, <2>1, RestKept
<1>2. ASSUME NEW o \in Orgs, NEW items \in Inputs, Receive(b, o, items)
      PROVE  Claimed(b)' /\ Fresh(b)'
  <2>1. /\ baccepted'[b] = {} /\ bpc'[b] = "lookup"
        /\ bprior'[b] = {m.key : m \in topic}
        /\ UNCHANGED <<bloomModule, idem, bloom>>
    BY <1>0, <1>2 DEF Receive, Place
  <2>2. bloomModule => bprior'[b] \subseteq bloom \cap idem
    BY <1>0, <2>1 DEF Sent
  <2> QED BY <2>1, <2>2 DEF Claimed, Fresh
<1>3. CASE Lookup(b) \/ SkipInvalid(b)
  <2>1. Holds(b) /\ baccepted'[b] = baccepted[b] /\ bpc'[b] \notin {"add", "setnx"}
    BY <1>0, <1>3 DEF Lookup, SkipInvalid, Fail
  <2> QED BY <1>0, <2>1, RestKept
<1>4. CASE BloomExists(b)
  <2>1. PICK x \in {0, 1} : /\ Key(b) \in bloom => x = 1
                            /\ bexists' = [bexists EXCEPT ![b] = x]
                            /\ Goto(b, IF x = 1 THEN "check" ELSE "add")
    BY <1>4 DEF BloomExists
  <2>2. /\ Holds(b) /\ bloomModule
        /\ baccepted'[b] = baccepted[b] /\ bidx'[b] = bidx[b] /\ bexists'[b] = x
        /\ bpc'[b] = IF x = 1 THEN "check" ELSE "add"
    BY <1>0, <1>4, <2>1 DEF BloomExists
  <2>3. CASE x = 1
    BY <1>0, <2>2, <2>3, RestKept
  <2>4. CASE x = 0
    <3>1. (\A i \in baccepted[b] : KeyAt(b, i) # Key(b)) /\ Key(b) \notin bprior[b]
      BY <1>0, <2>1, <2>2, <2>4 DEF Claimed, Fresh
    <3>2. /\ bpc'[b] = "add" /\ bexists'[b] = 0 /\ Holds(b)
          /\ baccepted'[b] = baccepted[b] /\ bidx'[b] = bidx[b]
      BY <2>2, <2>4
    <3> HIDE DEF Holds, TypeInv, TypeOK
    <3> QED BY <1>0, <3>1, <3>2, WayKept
  <2> QED BY <2>3, <2>4
<1>5. CASE BloomFallback(b)
  <2>1. PICK seen \in MaybeSeen(b, Key(b)) : Goto(b, IF seen THEN "check" ELSE "add")
    BY <1>5 DEF BloomFallback
  <2>2. /\ Holds(b) /\ ~bloomModule
        /\ baccepted'[b] = baccepted[b] /\ bidx'[b] = bidx[b] /\ bexists'[b] = 0
        /\ bpc'[b] = IF seen THEN "check" ELSE "add"
    BY <1>0, <1>5, <2>1 DEF BloomFallback, BloomDown
  <2>3. CASE seen
    BY <1>0, <2>2, <2>3, RestKept
  <2>4. CASE ~seen
    <3>1. /\ \A i \in baccepted[b] : KeyAt(b, i) # Key(b)
          /\ bloomModule => Key(b) \notin bprior[b]
      BY <1>0, <2>1, <2>2, <2>4 DEF Claimed, MaybeSeen
    <3>2. /\ bpc'[b] = "add" /\ bexists'[b] = 0 /\ Holds(b)
          /\ baccepted'[b] = baccepted[b] /\ bidx'[b] = bidx[b]
      BY <2>2, <2>4
    <3> HIDE DEF Holds, TypeInv, TypeOK
    <3> QED BY <1>0, <3>1, <3>2, WayKept
  <2> QED BY <2>3, <2>4
<1>6. CASE CheckSetNX(b)
  <2>1. CASE Key(b) \in idem
    <3>1. Holds(b) /\ baccepted'[b] = baccepted[b] /\ bpc'[b] \notin {"add", "setnx"}
      BY <1>0, <1>6, <2>1 DEF CheckSetNX, Fail
    <3> QED BY <1>0, <3>1, RestKept
  <2>2. CASE Key(b) \notin idem
    <3>1. /\ Holds(b) /\ baccepted'[b] = baccepted[b] /\ bidx'[b] = bidx[b]
          /\ bpc'[b] = "add" /\ Key(b) \in idem'
      BY <1>0, <1>6, <2>2 DEF CheckSetNX
    <3>2. /\ \A i \in baccepted[b] : KeyAt(b, i) # Key(b)
          /\ bloomModule => Key(b) \notin bprior[b]
      BY <1>0, <2>2 DEF Claimed, Fresh
    <3> QED BY <1>0, <3>1, <3>2, WayKept
  <2> QED BY <2>1, <2>2
<1>7. CASE BloomAdd(b) \/ BloomAddError(b)
  <2>1. /\ Holds(b) /\ bpc[b] = "add" /\ AfterAdd(b)
        /\ Key(b) \in blocal'[b] /\ (bloomModule => Key(b) \in bloom')
        /\ UNCHANGED <<idem>>
    BY <1>0, <1>7 DEF BloomAdd, BloomAddError, BloomDown, AfterAdd
  <2>2. CASE bexists[b] = 0
    <3>1. baccepted'[b] = baccepted[b] /\ bidx'[b] = bidx[b] /\ bpc'[b] = "setnx"
      BY <1>0, <2>1, <2>2 DEF AfterAdd
    <3>2. /\ \A i \in baccepted[b] : KeyAt(b, i) # Key(b)
          /\ bloomModule => Key(b) \notin bprior[b]
      BY <1>0, <2>1 DEF Claimed, Fresh
    <3> QED BY <1>0, <2>1, <3>1, <3>2, WayKept
  <2>3. CASE bexists[b] # 0
    <3>1. /\ baccepted'[b] = baccepted[b] \cup {bidx[b]} /\ bpc'[b] = "loop"
      BY <1>0, <2>1, <2>3 DEF AfterAdd, Accept
    <3>2. bexists[b] = 1 /\ Key(b) \in idem'
      BY <1>0, <2>1, <2>3 DEF Claimed
    <3> QED BY <1>0, <2>1, <3>1, <3>2, AcceptKept
  <2> QED BY <2>2, <2>3
<1>8. CASE NewSetNX(b)
  <2>1. /\ Holds(b) /\ bpc[b] = "setnx" /\ bpc'[b] = "loop" /\ Key(b) \in idem'
        /\ baccepted'[b] = baccepted[b] \cup {bidx[b]} /\ blocal'[b] = blocal[b]
        /\ bloom' = bloom
    BY <1>0, <1>8 DEF NewSetNX, Accept
  <2>2. Key(b) \in blocal'[b] /\ (bloomModule => Key(b) \in bloom')
    BY <1>0, <2>1 DEF Claimed
  <2> QED BY <1>0, <2>1, <2>2, AcceptKept
<1>9. ~LookupError(b) /\ ~CheckSetNXError(b) /\ ~NewSetNXError(b) /\ ~PublishBatchError(b)
  BY <1>0 DEF LookupError, CheckSetNXError, NewSetNXError, PublishBatchError
<1> QED BY <1>1, <1>2, <1>3, <1>4, <1>5, <1>6, <1>7, <1>8, <1>9 DEF Step

\* Every step keeps what is said of the topic, unless a call fails.
LEMMA SentKept ==
    ASSUME ClaimInv, faults = 0, faults' = 0, NEW b \in Batches, Step(b)
    PROVE  Sent'
<1>0. TypeInv /\ Sent /\ Claimed(b) /\ Fresh(b) /\ ~Fault /\ Grows(b)
  <2>1. TypeInv /\ Sent /\ Claimed(b) /\ Fresh(b)
    BY DEF ClaimInv
  <2>2. ~Fault
    BY <2>1 DEF Fault, TypeInv, TypeOK
  <2> QED BY <2>1, <2>2, StepGrows
<1>1. \A m \in topic : m.req \in Batches
  BY <1>0 DEF TypeInv, TypeOK
<1>2. CASE PublishBatch(b)
  <2>1. /\ topic' = topic \cup Messages(b, baccepted[b]) /\ bpc[b] = "loop"
        /\ bpc'[b] = "done" /\ UNCHANGED <<idem, bloom, bloomModule, bprior>>
    BY <1>0, <1>2 DEF PublishBatch, AtEnd, Answer, Goto, inputs, TypeInv, TypeOK
  <2>2. ASSUME bloomModule, NEW m \in Messages(b, baccepted[b])
        PROVE  m.key \in bloom \cap idem /\ m.req = b /\ m.key \notin bprior[b]
    <3>1. PICK i \in baccepted[b] : m = [req |-> b, pos |-> i, key |-> KeyAt(b, i)]
      BY DEF Messages
    <3>2. m.req = b /\ m.key = KeyAt(b, i)
      BY <3>1
    <3> QED BY <1>0, <2>2, <3>2 DEF Claimed, Fresh
  <2>3. ASSUME bloomModule, NEW m \in topic
        PROVE  m.key \in bloom \cap idem /\ bpc'[m.req] = "done" /\ m.key \notin bprior[m.req]
    BY <1>0, <1>1, <2>1, <2>3 DEF Sent, Grows
  <2> QED BY <2>1, <2>2, <2>3 DEF Sent
<1>3. CASE ~PublishBatch(b)
  <2>1. topic' = topic /\ bpc[b] # "done"
    BY <1>0, <1>3 DEF Step, Refuse, Receive, Lookup, LookupError, SkipInvalid, BloomExists,
         BloomFallback, CheckSetNX, CheckSetNXError, BloomAdd, BloomAddError,
         NewSetNX, NewSetNXError, NoValidEvents, PublishBatchError, Kill, AtItem, AtEnd
  <2>2. ASSUME bloomModule, NEW m \in topic PROVE m.req \in Batches \ {b}
    BY <1>0, <1>1, <2>1, <2>2 DEF Sent
  <2> QED BY <1>0, <2>1, <2>2 DEF Sent, Grows
<1> QED BY <1>2, <1>3

LEMMA ClaimNext == ClaimInv /\ [Next]_bvars => ClaimInv'
<1> SUFFICES ASSUME ClaimInv, [Next]_bvars PROVE ClaimInv'
  OBVIOUS
<1>1. TypeInv'
  BY TypeNext DEF ClaimInv
<1>2. CASE UNCHANGED bvars
  BY <1>1, <1>2 DEF ClaimInv, Sent, Claimed, Fresh, KeyAt, Key, bvars, inputs, loop
<1>3. ASSUME NEW b \in Batches, Step(b), faults' = 0
      PROVE  Sent' /\ \A d \in Batches : Claimed(d)' /\ Fresh(d)'
  <2>1. faults = 0
    <3>1. faults \in Nat /\ (faults' = faults \/ faults' = faults + 1)
      BY <1>3, BatchAssumption DEF ClaimInv, TypeInv, TypeOK, Step, Refuse, Receive, Lookup, LookupError,
         SkipInvalid, BloomExists, BloomFallback, CheckSetNX, CheckSetNXError, BloomAdd,
         BloomAddError, NewSetNX, NewSetNXError, NoValidEvents, PublishBatch,
         PublishBatchError, Kill, BloomDown, Fault
    <3> QED BY <1>3, <3>1
  <2>2. Claimed(b)' /\ Fresh(b)' /\ Sent'
    BY <1>3, <2>1, OwnKept, SentKept
  <2>3. ASSUME NEW d \in Batches \ {b} PROVE Claimed(d)' /\ Fresh(d)'
    <3>1. Grows(b) /\ Claimed(d) /\ Fresh(d)
      BY <1>3, <2>1, StepGrows DEF ClaimInv
    <3> QED BY <3>1, OthersKept
  <2> QED BY <2>2, <2>3
<1> QED BY <1>1, <1>2, <1>3 DEF ClaimInv, Next, Idle

LEMMA ClaimInit == Init => ClaimInv
BY TypeInit DEF Init, ClaimInv, Sent, Claimed, Fresh

\* An event that occurs twice in a batch is accepted once, for any number of
\* batches of any length, with either Bloom filter, however they interleave and
\* whichever handlers die, unless a call fails.
THEOREM NoDuplicatesInBatch == Spec => []NoDuplicateInBatch
<1>1. ClaimInv => NoDuplicateInBatch
  BY DEF ClaimInv, Claimed, NoDuplicateInBatch
<1> QED BY <1>1, ClaimInit, ClaimNext, PTL DEF Spec

\* With the Bloom filter in Redis, a batch never publishes what was published
\* before it arrived, unless a call fails.
THEOREM NoLateRepublishes == Spec => []NoLateRepublish
<1>1. ClaimInv => NoLateRepublish
  BY DEF ClaimInv, Sent, NoLateRepublish
<1> QED BY <1>1, ClaimInit, ClaimNext, PTL DEF Spec

-----------------------------------------------------------------------------
(* Every duplicate has a winner, as long as no call fails and no handler dies. *)

\* A key in Redis was set by a batch that accepts its event.
KeysWon == \A k \in idem : \E w \in Batches : Winner(w, k)

\* An event the loop has passed over has a winner.
PassedWon(b) ==
    \A i \in bvalid[b] \ baccepted[b] :
        i < bidx[b] => \E w \in Batches : Winner(w, KeyAt(b, i))

WinInv ==
    /\ TypeInv
    /\ (faults = 0 /\ crashes = 0) => KeysWon /\ \A b \in Batches : PassedWon(b)

\* Once won, an event stays won.
LEMMA WinnerKept ==
    ASSUME TypeInv, NEW b \in Batches, Step(b), ~Fault, crashes' = crashes,
           NEW w \in Batches, NEW k, Winner(w, k)
    PROVE  Winner(w, k)'
<1>0. Grows(b)
  BY StepGrows
<1>1. CASE w # b
  <2>1. /\ bpc'[w] = bpc[w] /\ baccepted'[w] = baccepted[w]
        /\ (\A i \in baccepted[w] : KeyAt(w, i)' = KeyAt(w, i)) /\ Key(w)' = Key(w)
    BY <1>0, <1>1 DEF Grows, KeyAt, Key
  <2> QED BY <2>1 DEF Winner
<1>2. CASE w = b
  <2>1. bpc[b] \notin {"idle", "lookup"}
    BY <1>2 DEF Winner, TypeInv, Place
  <2>2. UNCHANGED <<borg, bitems>> /\ bpc[b] # "done" /\ ~Kill(b)
    BY <2>1 DEF Step, Refuse, Receive, Lookup, LookupError, SkipInvalid, BloomExists,
       BloomFallback, CheckSetNX, CheckSetNXError, BloomAdd, BloomAddError, NewSetNX,
       NewSetNXError, NoValidEvents, PublishBatch, PublishBatchError, Kill, AtItem, AtEnd,
       inputs, TypeInv, TypeOK
  <2>3. \A i : KeyAt(b, i)' = KeyAt(b, i)
    BY <2>2 DEF KeyAt
  <2>4. baccepted[b] \subseteq baccepted'[b]
    BY CountSteps DEF CountStep, Next
  <2>5. CASE \E i \in baccepted[b] : KeyAt(b, i) = k
    BY <1>2, <2>3, <2>4, <2>5 DEF Winner
  <2>6. CASE bpc[b] \in {"add", "setnx"} /\ Key(b) = k
    <3>1. \/ bpc'[b] = "setnx" /\ bidx'[b] = bidx[b]
          \/ baccepted'[b] = baccepted[b] \cup {bidx[b]}
      BY <2>2, <2>6 DEF Step, Refuse, Receive, Lookup, LookupError, SkipInvalid, BloomExists,
         BloomFallback, CheckSetNX, CheckSetNXError, BloomAdd, BloomAddError, NewSetNX,
         NewSetNXError, NoValidEvents, PublishBatch, PublishBatchError, AtItem, AtEnd,
         AfterAdd, Accept, Goto, TypeInv, TypeOK
    <3>2. CASE bpc'[b] = "setnx" /\ bidx'[b] = bidx[b]
      BY <1>2, <2>3, <2>6, <3>2 DEF Winner, Key
    <3>3. CASE baccepted'[b] = baccepted[b] \cup {bidx[b]}
      BY <1>2, <2>3, <2>6, <3>3 DEF Winner, Key
    <3> QED BY <3>1, <3>2, <3>3
  <2> QED BY <1>2, <2>5, <2>6 DEF Winner
<1> QED BY <1>1, <1>2

\* What a step adds to Redis, and what it passes over, has a winner.
LEMMA WinStep ==
    ASSUME TypeInv, KeysWon, \A d \in Batches : PassedWon(d),
           NEW b \in Batches, Step(b), ~Fault, crashes' = crashes
    PROVE  KeysWon' /\ \A d \in Batches : PassedWon(d)'
<1>0. Grows(b)
  BY StepGrows
<1>1. ASSUME NEW k \in idem' \ idem PROVE Winner(b, k)'
  <2>1. CASE CheckSetNX(b)
    <3>1. /\ k = Key(b) /\ bpc'[b] = "add"
          /\ UNCHANGED <<borg, bitems, bidx>>
      BY <1>1, <2>1 DEF CheckSetNX, Goto, inputs, loop, TypeInv, TypeOK
    <3> QED BY <3>1 DEF Winner, Key, KeyAt
  <2>2. CASE NewSetNX(b)
    <3>1. /\ k = Key(b) /\ bidx[b] \in baccepted'[b]
          /\ UNCHANGED <<borg, bitems>>
      BY <1>1, <2>2 DEF NewSetNX, Accept, inputs, TypeInv, TypeOK
    <3> QED BY <3>1 DEF Winner, Key, KeyAt
  <2> QED BY <1>1, <2>1, <2>2 DEF Step, Refuse, Receive, Lookup, LookupError, SkipInvalid,
         BloomExists, BloomFallback, CheckSetNXError, BloomAdd, BloomAddError,
         NewSetNXError, NoValidEvents, PublishBatch, PublishBatchError, Kill
<1>2. KeysWon'
  BY <1>1, WinnerKept DEF KeysWon
<1>3. ASSUME NEW d \in Batches \ {b} PROVE PassedWon(d)'
  <2>1. /\ baccepted'[d] = baccepted[d] /\ bidx'[d] = bidx[d]
        /\ \A i : KeyAt(d, i)' = KeyAt(d, i)
    BY <1>0 DEF Grows, KeyAt
  <2>2. bvalid'[d] = bvalid[d]
    BY DEF Step, Refuse, Receive, Lookup, LookupError, SkipInvalid, BloomExists,
       BloomFallback, CheckSetNX, CheckSetNXError, BloomAdd, BloomAddError, NewSetNX,
       NewSetNXError, NoValidEvents, PublishBatch, PublishBatchError, Kill,
       AfterAdd, Accept, Fail, loop, TypeInv, TypeOK
  <2>3. PassedWon(d)
    OBVIOUS
  <2> QED BY <2>1, <2>2, <2>3, WinnerKept DEF PassedWon
<1>4. PassedWon(b)'
  <2>1. CASE bpc[b] \in {"idle", "lookup"}
    <3>1. bidx'[b] = 1 /\ bvalid'[b] \subseteq 1..MaxBatchLen
      <4>1. bidx[b] = 1 /\ TypeOK'
        BY <2>1, TypeNext DEF TypeInv, Place, Next
      <4>2. bidx' = bidx
        BY <2>1 DEF Step, Refuse, Receive, Lookup, LookupError, SkipInvalid, BloomExists,
           BloomFallback, CheckSetNX, CheckSetNXError, BloomAdd, BloomAddError, NewSetNX,
           NewSetNXError, NoValidEvents, PublishBatch, PublishBatchError, Kill, AtItem, AtEnd,
           loop
      <4> QED BY <4>1, <4>2 DEF TypeOK
    <3> QED BY <3>1 DEF PassedWon
  <2>2. CASE bpc[b] \notin {"idle", "lookup"}
    <3>1. UNCHANGED <<borg, bitems, bvalid>>
      BY <2>2 DEF Step, Refuse, Receive, Lookup, LookupError, SkipInvalid, BloomExists,
         BloomFallback, CheckSetNX, CheckSetNXError, BloomAdd, BloomAddError, NewSetNX,
         NewSetNXError, NoValidEvents, PublishBatch, PublishBatchError, Kill,
         AfterAdd, Accept, Fail, inputs, loop
    <3>2. \A i : KeyAt(b, i)' = KeyAt(b, i)
      BY <3>1 DEF KeyAt
    <3>3. CountStep(b)
      BY CountSteps DEF Next
    <3>4. ASSUME NEW i \in bvalid'[b] \ baccepted'[b], i < bidx'[b],
                 NEW k, k = KeyAt(b, i)
          PROVE  \E w \in Batches : Winner(w, k)'
      <4>1. i \in bvalid[b] \ baccepted[b] /\ i \in Nat /\ bidx[b] \in Nat
        BY <3>1, <3>3, <3>4, BatchAssumption DEF CountStep, TypeInv, TypeOK
      <4>2. CASE i < bidx[b]
        BY <3>4, <4>1, <4>2, WinnerKept DEF PassedWon
      <4>3. CASE i >= bidx[b]
        <5>1. i = bidx[b] /\ bidx'[b] = bidx[b] + 1 /\ k = Key(b)
              /\ bidx[b] \notin baccepted'[b]
          BY <3>3, <3>4, <4>1, <4>3 DEF CountStep, Key
        <5>2. Fail(b) /\ CheckSetNX(b)
          BY <3>1, <4>1, <5>1 DEF Step, Refuse, Receive, Lookup, LookupError, SkipInvalid,
             BloomExists, BloomFallback, CheckSetNX, CheckSetNXError, BloomAdd,
             BloomAddError, NewSetNX, NewSetNXError, NoValidEvents, PublishBatch,
             PublishBatchError, Kill, AfterAdd, Accept, loop, TypeInv, TypeOK
        <5>3. k \in idem
          BY <4>1, <5>1, <5>2 DEF CheckSetNX, loop
        <5> QED BY <5>3, WinnerKept DEF KeysWon
      <4> QED BY <4>1, <4>2, <4>3
    <3> QED BY <3>2, <3>4 DEF PassedWon, Winner
  <2> QED BY <2>1, <2>2
<1> QED BY <1>2, <1>3, <1>4

LEMMA WinNext == WinInv /\ [Next]_bvars => WinInv'
<1> SUFFICES ASSUME WinInv, [Next]_bvars PROVE WinInv'
  OBVIOUS
<1>1. TypeInv'
  BY TypeNext DEF WinInv
<1>2. CASE UNCHANGED bvars
  BY <1>1, <1>2 DEF WinInv, KeysWon, PassedWon, Winner, KeyAt, Key, bvars, inputs, loop
<1>3. ASSUME NEW b \in Batches, Step(b), faults' = 0, crashes' = 0
      PROVE  KeysWon' /\ \A d \in Batches : PassedWon(d)'
  <2>1. /\ faults \in Nat /\ (faults' = faults \/ faults' = faults + 1)
        /\ crashes \in Nat /\ (crashes' = crashes \/ crashes' = crashes + 1)
    BY <1>3, BatchAssumption DEF WinInv, TypeInv, TypeOK, Step, Refuse, Receive, Lookup,
       LookupError, SkipInvalid, BloomExists, BloomFallback, CheckSetNX, CheckSetNXError,
       BloomAdd, BloomAddError, NewSetNX, NewSetNXError, NoValidEvents, PublishBatch,
       PublishBatchError, Kill, BloomDown, Fault
  <2>2. faults = 0 /\ crashes = 0 /\ ~Fault /\ crashes' = crashes
    BY <1>3, <2>1 DEF Fault
  <2> QED BY <1>3, <2>2, WinStep DEF WinInv
<1> QED BY <1>1, <1>2, <1>3 DEF WinInv, Next, Idle

\* Every event that is counted as a duplicate is accepted, or on its way to be,
\* in some batch, for any number of batches of any length and any false
\* positives, unless a call fails or a handler dies.
THEOREM DuplicatesHaveWinners == Spec => []DuplicateHasWinner
<1>1. Init => WinInv
  BY TypeInit DEF Init, WinInv, KeysWon, PassedWon
<1>2. WinInv => DuplicateHasWinner
  BY DEF WinInv, PassedWon, DuplicateHasWinner
<1> QED BY <1>1, <1>2, WinNext, PTL DEF Spec

=============================================================================
