------------------------ MODULE AnalyticsWorkerProofs ------------------------
(***************************************************************************)
(* Proofs about AnalyticsWorker, for every length of the topic, every      *)
(* batch size and every number of failures and restarts.                   *)
(***************************************************************************)
EXTENDS AnalyticsWorker, EventRow, TLAPS

(***************************************************************************)
(* Facts about sequences.                                                  *)
(***************************************************************************)

\* The elements of a concatenation are those of its two parts: what AddEvents
\* and the requeue of Flush do to the contents of the buffer.
LEMMA RangeConcat ==
    ASSUME NEW S, NEW s \in Seq(S), NEW t \in Seq(S)
    PROVE  Range(s \o t) = Range(s) \cup Range(t)
<1>1. ASSUME NEW x \in Range(s \o t) PROVE x \in Range(s) \cup Range(t)
  BY <1>1 DEF Range
<1>2. ASSUME NEW x \in Range(s) PROVE x \in Range(s \o t)
  <2>1. PICK i \in 1..Len(s) : x = s[i]
    BY <1>2 DEF Range
  <2>2. i \in 1..Len(s \o t) /\ (s \o t)[i] = x
    BY <2>1
  <2> QED BY <2>2 DEF Range
<1>3. ASSUME NEW x \in Range(t) PROVE x \in Range(s \o t)
  <2>1. PICK i \in 1..Len(t) : x = t[i]
    BY <1>3 DEF Range
  <2>2. Len(s) + i \in 1..Len(s \o t) /\ (s \o t)[Len(s) + i] = x
    BY <2>1
  <2> QED BY <2>2 DEF Range
<1> QED BY <1>1, <1>2, <1>3

\* A batch of offsets stores offsets.
LEMMA RangeOffsets ==
    ASSUME NEW s \in Seq(Offsets)
    PROVE  Range(s) \subseteq Offsets
BY DEF Range

\* Two runs of offsets that meet make one run: the buffer stays in topic order
\* when the next events, or the batch in front of it, are joined to it.
LEMMA RunConcat ==
    ASSUME NEW s \in Seq(Offsets), NEW t \in Seq(Offsets), NEW a \in Int,
           IsRun(s, a), IsRun(t, a + Len(s))
    PROVE  IsRun(s \o t, a)
BY DEF IsRun, Offsets

-----------------------------------------------------------------------------
(***************************************************************************)
(* Type correctness.                                                       *)
(***************************************************************************)

\* What a new process starts with.
LEMMA StartValues ==
    /\ NoBatch \in [Flushers -> Seq(Offsets)]
    /\ \A f \in Flushers : NoBatch[f] = <<>>
    /\ FlushersStart \in [Flushers -> {"select", "tick", "swap", "insert",
                                      "requeue", "done", "wait", "close",
                                      "exit"}]
    /\ FlushersStart["main"] = "wait"
    /\ FlushersStart["ticker"] = "select"
BY DEF NoBatch, FlushersStart, Flushers

\* The state main and Start set up is well typed.
LEMMA InitTypeOK == Init => TypeOK
<1> SUFFICES ASSUME Init PROVE TypeOK
  OBVIOUS
<1>1. cancelled <=> fpc["main"] # "wait"
  BY StartValues DEF Init
<1>2. cancelled \in BOOLEAN
  BY DEF Init
<1> QED
  BY <1>1, <1>2, StartValues, ConstantsAssumption DEF Init, TypeOK

\* Every step of a goroutine, of main and of a restart keeps the types.
LEMMA NextTypeOK == TypeOK /\ [Next]_vars => TypeOK'
<1> SUFFICES ASSUME TypeOK, [Next]_vars PROVE TypeOK'
  OBVIOUS
<1> USE ConstantsAssumption DEF TypeOK, Offsets, Flushers, consumerVars,
    writerVars, bounds, AfterFlush, Running
<1>1. CASE ConsumerLoop
  BY <1>1 DEF ConsumerLoop
<1>2. CASE ConsumeBatch(0)
  BY <1>2 DEF ConsumeBatch
<1>3. CASE FetchSome
  <2>1. PICK n \in 1..MaxFetch : ConsumeBatch(n)
    BY <1>3 DEF FetchSome
  <2>2. fetched' \in 0..LogLen /\ cevents' \in Seq(Offsets)
    BY <2>1 DEF ConsumeBatch
  <2> QED BY <2>1, <2>2 DEF ConsumeBatch
<1>4. CASE AddEvents
  <2>1. currentBatch' \in Seq(Offsets)
    BY <1>4 DEF AddEvents
  <2> QED BY <1>4, <2>1 DEF AddEvents
<1>5. CASE SignalFlush
  BY <1>5 DEF SignalFlush
<1>6. CASE TickerStop
  BY <1>6 DEF TickerStop
<1>7. CASE TickerTick
  BY <1>7 DEF TickerTick
<1>8. CASE TickerSignal
  BY <1>8 DEF TickerSignal
<1>9. CASE TickerRecv
  BY <1>9 DEF TickerRecv
<1>10. ASSUME NEW f \in Flushers, FlushSwap(f) PROVE TypeOK'
  BY <1>10 DEF FlushSwap
<1>11. ASSUME NEW f \in Flushers, InsertOk(f) PROVE TypeOK'
  <2>1. stored' \subseteq Offsets
    BY <1>11, RangeOffsets DEF InsertOk
  <2>2. insertedRows' \in Nat
    BY <1>11 DEF InsertOk
  <2> QED BY <1>11, <2>1, <2>2 DEF InsertOk
<1>12. ASSUME NEW f \in Flushers, InsertFail(f) PROVE TypeOK'
  <2>1. stored' \subseteq Offsets
    BY <1>12, RangeOffsets DEF InsertFail
  <2> QED BY <1>12, <2>1 DEF InsertFail
<1>13. ASSUME NEW f \in Flushers, Requeue(f) PROVE TypeOK'
  <2>1. currentBatch' \in Seq(Offsets)
    BY <1>13 DEF Requeue
  <2> QED BY <1>13, <2>1 DEF Requeue
<1>14. CASE Shutdown
  BY <1>14 DEF Shutdown
<1>15. CASE MainReturn
  BY <1>15 DEF MainReturn
<1>16. CASE Restart
  <2>1. cancelled' <=> fpc'["main"] # "wait"
    BY <1>16, StartValues DEF Restart
  <2>2. cancelled' \in BOOLEAN
    BY <1>16 DEF Restart
  <2>3. restarts' \in 0..MaxRestarts
    BY <1>16 DEF Restart
  <2>4. \A f \in Flushers : batch'[f] = <<>>
    BY <1>16, StartValues DEF Restart
  <2> QED
    BY <1>16, <2>1, <2>2, <2>3, <2>4, StartValues DEF Restart, CommittedOffset
<1>17. CASE Stopped
  BY <1>17 DEF Stopped, vars
<1>18. CASE UNCHANGED vars
  BY <1>18 DEF vars
<1> QED
  BY <1>1, <1>2, <1>3, <1>4, <1>5, <1>6, <1>7, <1>8, <1>9, <1>10, <1>11, <1>12, <1>13, <1>14, <1>15, <1>16, <1>17, <1>18 DEF Next

\* Every state of every behaviour is well typed: flushCh never holds more than
\* its one token and a flusher holds a batch only while it inserts or requeues.
THEOREM TypeCorrect == Spec => []TypeOK
BY InitTypeOK, NextTypeOK, PTL DEF Spec

-----------------------------------------------------------------------------
(***************************************************************************)
(* The accounting of delivered events.                                     *)
(***************************************************************************)

\* The actions that leave the reader, the buffers and the writer alone.
Quiet ==
    UNCHANGED <<fetched, cevents, currentBatch, batch, insertedRows, stored>>

\* The channel operations, the loops and the shutdown move no event.
LEMMA QuietActions ==
    ASSUME TypeOK,
           \/ ConsumerLoop \/ SignalFlush \/ TickerStop \/ TickerTick
           \/ TickerSignal \/ TickerRecv \/ Shutdown \/ MainReturn \/ Stopped
           \/ UNCHANGED vars
    PROVE  Quiet
BY DEF Quiet, ConsumerLoop, SignalFlush, TickerStop, TickerTick, TickerSignal,
       TickerRecv, Shutdown, MainReturn, Stopped, vars, consumerVars, writerVars

\* Every step keeps the rows accounted for: Flush moves a batch as a whole.
LEMMA NextRows ==
    TypeOK /\ RowsAccountedFor /\ [Next]_vars => RowsAccountedFor'
<1> SUFFICES ASSUME TypeOK, RowsAccountedFor, [Next]_vars
             PROVE  RowsAccountedFor'
  OBVIOUS
<1> USE DEF consumerVars, writerVars, bounds
<1> DEFINE a == Len(cevents)           a1 == Len(cevents')
           b == Len(currentBatch)      b1 == Len(currentBatch')
           c == Len(batch["ticker"])   c1 == Len(batch'["ticker"])
           d == Len(batch["main"])     d1 == Len(batch'["main"])
<1>a. /\ a \in Nat /\ b \in Nat /\ c \in Nat /\ d \in Nat
      /\ fetched \in Nat /\ insertedRows \in Nat
  BY ConstantsAssumption DEF TypeOK, Flushers
<1>b. fetched = insertedRows + a + b + c + d
  BY DEF RowsAccountedFor
<1>c. (fetched' = insertedRows' + a1 + b1 + c1 + d1) => RowsAccountedFor'
  BY DEF RowsAccountedFor
<1>d. batch \in [Flushers -> Seq(Offsets)]
  BY DEF TypeOK
<1> HIDE DEF a, b, c, d, a1, b1, c1, d1
<1>1. CASE Quiet
  BY <1>1 DEF Quiet, RowsAccountedFor
<1>2. ASSUME NEW n \in 0..MaxFetch, ConsumeBatch(n) PROVE RowsAccountedFor'
  <2>1. /\ n \in Nat /\ fetched' = fetched + n /\ insertedRows' = insertedRows
        /\ currentBatch' = currentBatch /\ batch' = batch
    BY <1>2, ConstantsAssumption DEF ConsumeBatch
  <2>2. a = 0 /\ a1 = n
    BY <1>2, <2>1 DEF ConsumeBatch, TypeOK, a, a1
  <2>3. b1 = b /\ c1 = c /\ d1 = d
    BY <2>1 DEF b, c, d, b1, c1, d1
  <2> QED BY <1>a, <1>b, <1>c, <2>1, <2>2, <2>3
<1>3. CASE AddEvents
  <2>1. b1 = b + a /\ a1 = 0
    BY <1>3 DEF AddEvents, TypeOK, a, a1, b, b1
  <2>2. /\ c1 = c /\ d1 = d
        /\ fetched' = fetched /\ insertedRows' = insertedRows
    BY <1>3 DEF AddEvents, c, d, c1, d1
  <2> QED BY <1>a, <1>b, <1>c, <2>1, <2>2
<1>4. ASSUME NEW f \in Flushers, FlushSwap(f) PROVE RowsAccountedFor'
  <2>1. batch[f] = <<>>
    BY <1>4 DEF FlushSwap, TypeOK
  <2>2. /\ batch'[f] = currentBatch
        /\ \A g \in Flushers \ {f} : batch'[g] = batch[g]
    BY <1>4, <1>d DEF FlushSwap
  <2>3. /\ a1 = a /\ b1 = 0
        /\ fetched' = fetched /\ insertedRows' = insertedRows
    BY <1>4 DEF FlushSwap, a, a1, b1
  <2>4. CASE f = "ticker"
    <3>1. c = 0 /\ c1 = b /\ d1 = d
      BY <2>1, <2>2, <2>4 DEF Flushers, b, c, d, c1, d1
    <3> QED BY <1>a, <1>b, <1>c, <2>3, <3>1
  <2>5. CASE f = "main"
    <3>1. d = 0 /\ d1 = b /\ c1 = c
      BY <2>1, <2>2, <2>5 DEF Flushers, b, c, d, c1, d1
    <3> QED BY <1>a, <1>b, <1>c, <2>3, <3>1
  <2> QED BY <2>4, <2>5 DEF Flushers
<1>5. ASSUME NEW f \in Flushers, InsertOk(f) PROVE RowsAccountedFor'
  <2>1. /\ batch'[f] = <<>>
        /\ \A g \in Flushers \ {f} : batch'[g] = batch[g]
    BY <1>5, <1>d DEF InsertOk
  <2>2. a1 = a /\ b1 = b /\ fetched' = fetched
    BY <1>5 DEF InsertOk, a, a1, b, b1
  <2>3. CASE f = "ticker"
    <3>1. insertedRows' = insertedRows + c /\ c1 = 0 /\ d1 = d
      BY <1>5, <2>1, <2>3 DEF InsertOk, Flushers, c, d, c1, d1
    <3> QED BY <1>a, <1>b, <1>c, <2>2, <3>1
  <2>4. CASE f = "main"
    <3>1. insertedRows' = insertedRows + d /\ d1 = 0 /\ c1 = c
      BY <1>5, <2>1, <2>4 DEF InsertOk, Flushers, c, d, c1, d1
    <3> QED BY <1>a, <1>b, <1>c, <2>2, <3>1
  <2> QED BY <2>3, <2>4 DEF Flushers
<1>6. ASSUME NEW f \in Flushers, InsertFail(f) PROVE RowsAccountedFor'
  BY <1>6 DEF InsertFail, RowsAccountedFor
<1>7. ASSUME NEW f \in Flushers, Requeue(f) PROVE RowsAccountedFor'
  <2>1. Len(currentBatch') = Len(batch[f]) + Len(currentBatch)
    BY <1>7 DEF Requeue, TypeOK
  <2>2. /\ batch'[f] = <<>>
        /\ \A g \in Flushers \ {f} : batch'[g] = batch[g]
    BY <1>7, <1>d DEF Requeue
  <2>3. a1 = a /\ fetched' = fetched /\ insertedRows' = insertedRows
    BY <1>7 DEF Requeue, a, a1
  <2>4. CASE f = "ticker"
    <3>1. b1 = c + b /\ c1 = 0 /\ d1 = d
      BY <2>1, <2>2, <2>4 DEF Flushers, b, c, d, b1, c1, d1
    <3> QED BY <1>a, <1>b, <1>c, <2>3, <3>1
  <2>5. CASE f = "main"
    <3>1. b1 = d + b /\ d1 = 0 /\ c1 = c
      BY <2>1, <2>2, <2>5 DEF Flushers, b, c, d, b1, c1, d1
    <3> QED BY <1>a, <1>b, <1>c, <2>3, <3>1
  <2> QED BY <2>4, <2>5 DEF Flushers
<1>8. CASE Restart
  BY <1>8, StartValues DEF Restart, CommittedOffset, Flushers, RowsAccountedFor
<1> QED
  BY <1>1, <1>2, <1>3, <1>4, <1>5, <1>6, <1>7, <1>8, QuietActions,
     ConstantsAssumption DEF Next, FetchSome

\* Every event the reader has delivered is counted by InsertedRows or held in
\* exactly one buffer, through failing inserts and two concurrent flushers.
THEOREM RowsAreAccountedFor == Spec => []RowsAccountedFor
<1>1. Init => RowsAccountedFor
  BY StartValues DEF Init, RowsAccountedFor, Flushers
<1> QED BY <1>1, NextRows, TypeCorrect, PTL DEF Spec

\* Every step keeps every delivered event stored or buffered.
LEMMA NextNoEventLost == TypeOK /\ NoEventLost /\ [Next]_vars => NoEventLost'
<1> SUFFICES ASSUME TypeOK, NoEventLost, [Next]_vars,
                    NEW o \in (1..fetched)'
             PROVE  \/ o \in stored'
                    \/ o \in Range(cevents)' \cup Range(currentBatch)'
                    \/ \E f \in Flushers : o \in Range(batch[f])'
  BY DEF NoEventLost
<1> USE DEF TypeOK, consumerVars, writerVars, bounds
<1> DEFINE Goal == \/ o \in stored'
                   \/ o \in Range(cevents)' \cup Range(currentBatch)'
                   \/ \E f \in Flushers : o \in Range(batch[f])'
<1>1. CASE Quiet
  BY <1>1 DEF Quiet, NoEventLost
<1>2. ASSUME NEW n \in 0..MaxFetch, ConsumeBatch(n) PROVE Goal
  <2>1. CASE o \in 1..fetched
    <3>1. cevents = <<>> /\ o \notin Range(cevents)
      BY <1>2 DEF ConsumeBatch, Range
    <3> QED BY <1>2, <2>1, <3>1 DEF ConsumeBatch, NoEventLost
  <2>2. CASE o \notin 1..fetched
    <3>1. o - fetched \in 1..n /\ o = fetched + (o - fetched)
      BY <1>2, <2>2, ConstantsAssumption DEF ConsumeBatch
    <3>2. o \in Range(cevents')
      BY <1>2, <3>1 DEF ConsumeBatch, Range
    <3> QED BY <3>2
  <2> QED BY <2>1, <2>2
<1>3. CASE AddEvents
  <2>1. Range(currentBatch') = Range(currentBatch) \cup Range(cevents)
    BY <1>3, RangeConcat DEF AddEvents
  <2> QED BY <1>3, <2>1 DEF AddEvents, NoEventLost
<1>4. ASSUME NEW f \in Flushers, FlushSwap(f) PROVE Goal
  <2>1. batch[f] = <<>>
    BY <1>4 DEF FlushSwap
  <2>2. Range(batch[f]) = {}
    BY <2>1 DEF Range
  <2>3. /\ batch'[f] = currentBatch
        /\ \A g \in Flushers \ {f} : batch'[g] = batch[g]
    BY <1>4 DEF FlushSwap
  <2> QED BY <1>4, <2>2, <2>3 DEF FlushSwap, NoEventLost
<1>5. ASSUME NEW f \in Flushers, InsertOk(f) PROVE Goal
  <2>1. \A g \in Flushers \ {f} : batch'[g] = batch[g]
    BY <1>5 DEF InsertOk
  <2> QED BY <1>5, <2>1 DEF InsertOk, NoEventLost
<1>6. ASSUME NEW f \in Flushers, InsertFail(f) PROVE Goal
  <2>1. stored \subseteq stored'
    BY <1>6 DEF InsertFail
  <2> QED BY <1>6, <2>1 DEF InsertFail, NoEventLost
<1>7. ASSUME NEW f \in Flushers, Requeue(f) PROVE Goal
  <2>1. Range(currentBatch') = Range(batch[f]) \cup Range(currentBatch)
    BY <1>7, RangeConcat DEF Requeue
  <2>2. \A g \in Flushers \ {f} : batch'[g] = batch[g]
    BY <1>7 DEF Requeue
  <2> QED BY <1>7, <2>1, <2>2 DEF Requeue, NoEventLost
<1>8. CASE Restart
  BY <1>8 DEF Restart, CommittedOffset
<1> QED
  BY <1>1, <1>2, <1>3, <1>4, <1>5, <1>6, <1>7, <1>8, QuietActions,
     ConstantsAssumption DEF Next, FetchSome

\* No interleaving of the goroutines, failing insert or restart loses an event
\* the reader has delivered: it is in ClickHouse or in a buffer of the process,
\* and a restart, which empties the buffers, has it delivered again.
THEOREM NoEventIsLost == Spec => []NoEventLost
<1>1. Init => NoEventLost
  BY DEF Init, NoEventLost
<1> QED BY <1>1, NextNoEventLost, TypeCorrect, PTL DEF Spec

-----------------------------------------------------------------------------
(***************************************************************************)
(* The order of the buffers.                                               *)
(***************************************************************************)

\* Every step keeps the buffers in the order of the topic until shutdown.
LEMMA NextInTopicOrder ==
    TypeOK /\ RowsAccountedFor /\ InTopicOrder /\ [Next]_vars => InTopicOrder'
<1> SUFFICES ASSUME TypeOK, RowsAccountedFor, InTopicOrder, [Next]_vars,
                    ~cancelled'
             PROVE  /\ IsRun(batch["ticker"], insertedRows)'
                    /\ IsRun(currentBatch, insertedRows + Len(batch["ticker"]))'
                    /\ IsRun(cevents, insertedRows + Len(batch["ticker"])
                                          + Len(currentBatch))'
  BY DEF InTopicOrder
<1> USE DEF consumerVars, writerVars, bounds
<1> DEFINE Goal == /\ IsRun(batch["ticker"], insertedRows)'
                   /\ IsRun(currentBatch, insertedRows + Len(batch["ticker"]))'
                   /\ IsRun(cevents, insertedRows + Len(batch["ticker"])
                                         + Len(currentBatch))'
<1>a. /\ batch["ticker"] \in Seq(Offsets) /\ currentBatch \in Seq(Offsets)
      /\ cevents \in Seq(Offsets) /\ insertedRows \in Nat
      /\ batch \in [Flushers -> Seq(Offsets)]
  BY DEF TypeOK, Flushers
<1>b. ASSUME ~cancelled
      PROVE  /\ IsRun(batch["ticker"], insertedRows)
             /\ IsRun(currentBatch, insertedRows + Len(batch["ticker"]))
             /\ IsRun(cevents, insertedRows + Len(batch["ticker"])
                                   + Len(currentBatch))
  BY <1>b DEF InTopicOrder
<1>c. ASSUME ~cancelled PROVE fpc["main"] = "wait" /\ batch["main"] = <<>>
  BY <1>c DEF TypeOK, Flushers
<1>g. (batch["ticker"] # <<>>) => (fpc["ticker"] \in {"insert", "requeue"})
  BY DEF TypeOK, Flushers
<1>d. \A x : IsRun(<<>>, x)
  BY DEF IsRun
<1>e. CASE Restart
  BY <1>e, <1>d, StartValues DEF Restart, Flushers
<1>f. ASSUME ~Restart PROVE ~cancelled
  BY <1>f DEF Next, ConsumerLoop, FetchSome, ConsumeBatch, AddEvents,
     SignalFlush, TickerStop, TickerTick, TickerSignal, TickerRecv, FlushSwap,
     InsertOk, InsertFail, Requeue, Shutdown, MainReturn, Stopped, vars
<1>1. CASE ~Restart /\ Quiet
  BY <1>1, <1>b, <1>f DEF Quiet
<1>2. ASSUME NEW n \in 0..MaxFetch, ConsumeBatch(n), ~Restart PROVE Goal
  <2>1. /\ n \in Nat
        /\ UNCHANGED <<insertedRows, batch, currentBatch>>
        /\ cevents' = [i \in 1..n |-> fetched + i]
    BY <1>2, ConstantsAssumption DEF ConsumeBatch
  <2>2. cevents = <<>>
    BY <1>2 DEF ConsumeBatch, TypeOK
  <2>3. fetched = insertedRows + Len(batch["ticker"]) + Len(currentBatch)
    <3> DEFINE a == Len(cevents)          b == Len(currentBatch)
               c == Len(batch["ticker"])  d == Len(batch["main"])
    <3>1. fetched = insertedRows + a + b + c + d
      BY DEF RowsAccountedFor
    <3>2. a = 0 /\ b \in Nat /\ c \in Nat /\ d = 0
      BY <1>a, <1>c, <1>f, <1>2, <2>2
    <3> HIDE DEF a, b, c, d
    <3>3. fetched = insertedRows + c + b
      BY <1>a, <3>1, <3>2
    <3> QED BY <3>3 DEF b, c
  <2>4. IsRun(cevents', fetched)
    BY <2>1 DEF IsRun
  <2> QED BY <1>b, <1>f, <1>2, <2>1, <2>3, <2>4
<1>3. CASE ~Restart /\ AddEvents
  <2>1. /\ UNCHANGED <<insertedRows, batch>>
        /\ currentBatch' = currentBatch \o cevents
        /\ cevents' = <<>>
    BY <1>3 DEF AddEvents
  <2>2. insertedRows + Len(batch["ticker"]) \in Int
    BY <1>a
  <2>3. IsRun(currentBatch \o cevents, insertedRows + Len(batch["ticker"]))
    BY <1>a, <1>b, <1>f, <1>3, <2>2, RunConcat
  <2> QED BY <1>b, <1>d, <1>f, <1>3, <2>1, <2>3
<1>4. ASSUME NEW f \in Flushers, f = "ticker", ~Restart,
             FlushSwap(f) \/ InsertOk(f) \/ InsertFail(f) \/ Requeue(f)
      PROVE  Goal
  <2>1. CASE FlushSwap(f)
    <3>1. /\ batch'["ticker"] = currentBatch /\ currentBatch' = <<>>
          /\ UNCHANGED <<insertedRows, cevents>>
      BY <1>a, <1>4, <2>1 DEF FlushSwap
    <3>a. fpc["ticker"] = "swap"
      BY <1>4, <2>1 DEF FlushSwap
    <3>b. batch["ticker"] = <<>>
      BY <3>a, <1>g
    <3>2. batch["ticker"] = <<>> /\ Len(batch["ticker"]) = 0
      BY <3>b
    <3>3. /\ insertedRows + Len(batch["ticker"]) = insertedRows
          /\ insertedRows + Len(batch["ticker"]) + Len(currentBatch)
                = insertedRows + Len(batch'["ticker"]) + Len(currentBatch')
      BY <1>a, <3>1, <3>2
    <3> QED BY <1>b, <1>d, <1>f, <1>4, <3>1, <3>3
  <2>2. CASE InsertOk(f)
    <3>1. /\ batch'["ticker"] = <<>>
          /\ insertedRows' = insertedRows + Len(batch["ticker"])
          /\ UNCHANGED <<currentBatch, cevents>>
      BY <1>a, <1>4, <2>2 DEF InsertOk
    <3>2. insertedRows' + Len(batch'["ticker"])
            = insertedRows + Len(batch["ticker"])
      BY <1>a, <3>1
    <3> QED BY <1>b, <1>d, <1>f, <1>4, <3>1, <3>2
  <2>3. CASE InsertFail(f)
    <3>1. UNCHANGED <<insertedRows, batch, currentBatch, cevents>>
      BY <2>3 DEF InsertFail
    <3> QED BY <1>b, <1>f, <1>4, <3>1
  <2>4. CASE Requeue(f)
    <3>1. /\ batch'["ticker"] = <<>>
          /\ currentBatch' = batch["ticker"] \o currentBatch
          /\ UNCHANGED <<insertedRows, cevents>>
      BY <1>a, <1>4, <2>4 DEF Requeue
    <3>2. IsRun(batch["ticker"] \o currentBatch, insertedRows)
      BY <1>a, <1>b, <1>f, <1>4, RunConcat
    <3>3. /\ insertedRows' + Len(batch'["ticker"]) = insertedRows
          /\ insertedRows' + Len(batch'["ticker"]) + Len(currentBatch')
                = insertedRows + Len(batch["ticker"]) + Len(currentBatch)
      BY <1>a, <3>1
    <3> QED BY <1>b, <1>d, <1>f, <1>4, <3>1, <3>2, <3>3
  <2> QED BY <1>4, <2>1, <2>2, <2>3, <2>4
<1>5. ASSUME NEW f \in Flushers, f # "ticker", ~Restart,
             FlushSwap(f) \/ InsertOk(f) \/ InsertFail(f) \/ Requeue(f)
      PROVE  Goal
  BY <1>5, <1>c, <1>f DEF FlushSwap, InsertOk, InsertFail, Requeue, Flushers
<1> QED
  BY <1>e, <1>1, <1>2, <1>3, <1>4, <1>5, QuietActions, ConstantsAssumption
     DEF Next, FetchSome

\* Until shutdown, what the worker holds is the topic from the last counted
\* row on, in order: no failing insert lets a newer event overtake an older.
THEOREM BuffersInTopicOrder == Spec => []InTopicOrder
<1>1. Init => InTopicOrder
  BY StartValues DEF Init, InTopicOrder, IsRun, Flushers
<1> QED BY <1>1, NextInTopicOrder, RowsAreAccountedFor, TypeCorrect, PTL DEF Spec

-----------------------------------------------------------------------------
(***************************************************************************)
(* The flush signal.                                                       *)
(***************************************************************************)

\* A flusher requeues only what a failing insert left it, which is what makes
\* FullBufferSignalled inductive.
RequeueAfterFailure ==
    failures = 0 => \A f \in Flushers : fpc[f] # "requeue"

SignalInv == FullBufferSignalled /\ RequeueAfterFailure

\* Every step keeps a full buffer signalled until an insert fails.
LEMMA NextSignalInv == TypeOK /\ SignalInv /\ [Next]_vars => SignalInv'
<1> SUFFICES ASSUME TypeOK, SignalInv, [Next]_vars PROVE SignalInv'
  OBVIOUS
<1> USE DEF SignalInv, FullBufferSignalled, RequeueAfterFailure, consumerVars,
    writerVars, bounds
<1>a. /\ fpc \in [Flushers -> {"select", "tick", "swap", "insert", "requeue",
                               "done", "wait", "close", "exit"}]
      /\ failures \in Nat
      /\ cancelled <=> fpc["main"] # "wait"
      /\ "ticker" \in Flushers /\ "main" \in Flushers
  BY ConstantsAssumption DEF TypeOK, Flushers
<1>1. CASE ConsumerLoop
  BY <1>a, <1>1 DEF ConsumerLoop
<1>2. CASE ConsumeBatch(0)
  BY <1>a, <1>2 DEF ConsumeBatch
<1>3. CASE FetchSome
  BY <1>a, <1>3 DEF FetchSome, ConsumeBatch
<1>4. CASE AddEvents
  BY <1>a, <1>4 DEF AddEvents
<1>5. CASE SignalFlush
  BY <1>a, <1>5 DEF SignalFlush
<1>6. CASE TickerStop
  BY <1>a, <1>6 DEF TickerStop
<1>7. CASE TickerTick
  BY <1>a, <1>7 DEF TickerTick
<1>8. CASE TickerSignal
  BY <1>a, <1>8 DEF TickerSignal
<1>9. CASE TickerRecv
  BY <1>a, <1>9 DEF TickerRecv
<1>10. ASSUME NEW f \in Flushers, FlushSwap(f) PROVE SignalInv'
  <2>1. Len(currentBatch') < BatchSize
    BY <1>10, ConstantsAssumption DEF FlushSwap
  <2>2. \A g \in Flushers : fpc'[g] # "requeue" \/ fpc'[g] = fpc[g]
    BY <1>a, <1>10 DEF FlushSwap, AfterFlush
  <2>3. failures' = failures
    BY <1>10 DEF FlushSwap
  <2> HIDE DEF FullBufferSignalled, RequeueAfterFailure
  <2>4. FullBufferSignalled'
    BY <2>1, ConstantsAssumption DEF FullBufferSignalled
  <2>5. RequeueAfterFailure'
    BY <2>2, <2>3 DEF RequeueAfterFailure
  <2> QED BY <2>4, <2>5
<1>11. ASSUME NEW f \in Flushers, InsertOk(f) PROVE SignalInv'
  BY <1>a, <1>11 DEF InsertOk, AfterFlush, Flushers
<1>12. ASSUME NEW f \in Flushers, InsertFail(f) PROVE SignalInv'
  BY <1>a, <1>12 DEF InsertFail
<1>13. ASSUME NEW f \in Flushers, Requeue(f) PROVE SignalInv'
  BY <1>a, <1>13 DEF Requeue
<1>14. CASE Shutdown
  BY <1>a, <1>14 DEF Shutdown
<1>15. CASE MainReturn
  BY <1>a, <1>15 DEF MainReturn
<1>16. CASE Restart
  BY <1>a, <1>16, ConstantsAssumption DEF Restart, FlushersStart, Flushers
<1>17. CASE Stopped
  BY <1>a, <1>17 DEF Stopped, vars
<1>18. CASE UNCHANGED vars
  BY <1>a, <1>18 DEF vars
<1> QED
  BY <1>1, <1>2, <1>3, <1>4, <1>5, <1>6, <1>7, <1>8, <1>9,
     <1>10, <1>11, <1>12, <1>13, <1>14, <1>15, <1>16, <1>17, <1>18 DEF Next

\* No wake-up is lost: a buffer that reaches the batch size is flushed without
\* waiting for the timer, as long as no insert has failed.
THEOREM FullBufferIsSignalled == Spec => []FullBufferSignalled
<1>1. Init => SignalInv
  BY ConstantsAssumption DEF Init, SignalInv, FullBufferSignalled,
     RequeueAfterFailure, FlushersStart, Flushers
<1>2. SignalInv => FullBufferSignalled
  BY DEF SignalInv
<1> QED BY <1>1, <1>2, NextSignalInv, TypeCorrect, PTL DEF Spec

-----------------------------------------------------------------------------
(***************************************************************************)
(* The worker implements Delivery.                                         *)
(***************************************************************************)

\* An event is in one buffer only, and only events that were delivered are.
\* Without this an insert that succeeds could leave a copy behind.
HeldOnce ==
    /\ Pending \subseteq 1..fetched
    /\ Range(cevents) \cap Range(currentBatch) = {}
    /\ \A f \in Flushers :
          /\ Range(batch[f]) \cap Range(cevents) = {}
          /\ Range(batch[f]) \cap Range(currentBatch) = {}
    /\ Range(batch["ticker"]) \cap Range(batch["main"]) = {}

\* The goroutine that is not f.
Other(f) == IF f = "ticker" THEN "main" ELSE "ticker"

\* The buffers as seen from one flusher: its own batch and the other one's.
LEMMA TwoFlushers ==
    ASSUME NEW f \in Flushers
    PROVE  /\ Other(f) \in Flushers \ {f}
           /\ Pending = Range(cevents) \cup Range(currentBatch)
                          \cup Range(batch[f]) \cup Range(batch[Other(f)])
           /\ HeldOnce <=>
                 /\ Pending \subseteq 1..fetched
                 /\ Range(cevents) \cap Range(currentBatch) = {}
                 /\ Range(batch[f]) \cap Range(cevents) = {}
                 /\ Range(batch[f]) \cap Range(currentBatch) = {}
                 /\ Range(batch[Other(f)]) \cap Range(cevents) = {}
                 /\ Range(batch[Other(f)]) \cap Range(currentBatch) = {}
                 /\ Range(batch[f]) \cap Range(batch[Other(f)]) = {}
<1> USE DEF Flushers, Other
<1>1. f = "ticker" \/ f = "main"
  OBVIOUS
<1>2. Other(f) \in Flushers \ {f}
  OBVIOUS
<1>3. Pending = Range(cevents) \cup Range(currentBatch)
                  \cup Range(batch[f]) \cup Range(batch[Other(f)])
  BY <1>1, Zenon DEF Pending
<1>4. CASE f = "ticker"
  BY <1>2, <1>3, <1>4 DEF HeldOnce
<1>5. CASE f = "main"
  BY <1>2, <1>3, <1>5 DEF HeldOnce
<1> QED BY <1>1, <1>4, <1>5

\* The empty buffer holds nothing.
LEMMA RangeEmpty == Range(<<>>) = {}
BY DEF Range

\* Each step of the worker is a step of Delivery, or one that Delivery does not
\* see, and keeps every event in one buffer.
LEMMA NextDelivery ==
    TypeOK /\ HeldOnce /\ [Next]_vars =>
        /\ HeldOnce'
        /\ [Promise!Next]_(Promise!vars)
<1> SUFFICES ASSUME TypeOK, HeldOnce, [Next]_vars
             PROVE  HeldOnce' /\ [Promise!Next]_(Promise!vars)
  OBVIOUS
<1> DEFINE Goal == HeldOnce' /\ [Promise!Next]_(Promise!vars)
<1> USE DEF consumerVars, writerVars, bounds
<1>a. /\ fetched \in Nat /\ LogLen \in Nat /\ fetched <= LogLen
      /\ cevents \in Seq(Offsets)
      /\ currentBatch \in Seq(Offsets)
      /\ batch \in [Flushers -> Seq(Offsets)]
      /\ stored \subseteq Offsets
  BY ConstantsAssumption DEF TypeOK
<1>b. ASSUME UNCHANGED <<fetched, cevents, currentBatch, batch, stored, failures>>
      PROVE  Goal
  BY <1>b, Zenon DEF HeldOnce, Pending, Promise!vars
<1>c. ASSUME Pending' = Pending, UNCHANGED <<fetched, stored, failures>>
      PROVE  UNCHANGED Promise!vars
  BY <1>c DEF Promise!vars
<1>d. Pending \subseteq Offsets
  BY <1>a, RangeOffsets DEF Pending, Flushers
<1>1. CASE \/ ConsumerLoop \/ SignalFlush \/ TickerStop \/ TickerTick
           \/ TickerSignal \/ TickerRecv \/ Shutdown \/ MainReturn \/ Stopped
           \/ UNCHANGED vars
  <2>1. UNCHANGED <<fetched, cevents, currentBatch, batch, stored, failures>>
    BY <1>1 DEF ConsumerLoop, SignalFlush, TickerStop, TickerTick,
       TickerSignal, TickerRecv, Shutdown, MainReturn, Stopped, vars
  <2> QED BY <1>b, <2>1
<1>2. ASSUME NEW n \in 0..MaxFetch, ConsumeBatch(n) PROVE Goal
  <2> DEFINE S == (fetched + 1)..(fetched + n)
  <2>1. /\ n \in Nat /\ n <= LogLen - fetched /\ fetched' = fetched + n
        /\ cevents = <<>> /\ cevents' = [i \in 1..n |-> fetched + i]
        /\ UNCHANGED <<currentBatch, batch, stored, failures>>
    BY <1>2, ConstantsAssumption DEF ConsumeBatch, TypeOK
  <2>2. Range(cevents) = {}
    BY <2>1, RangeEmpty
  <2>3. Range(cevents') = S
    <3>1. ASSUME NEW x \in S PROVE x \in Range(cevents')
      <4>1. x - fetched \in 1..n /\ x = fetched + (x - fetched)
        BY <1>a, <2>1
      <4> QED BY <2>1, <4>1 DEF Range
    <3>2. ASSUME NEW x \in Range(cevents') PROVE x \in S
      BY <1>a, <2>1, <3>2 DEF Range
    <3> QED BY <3>1, <3>2
  <2>4. /\ S \subseteq Offsets \ (1..fetched)
        /\ 1..fetched' = (1..fetched) \cup S
    BY <1>a, <2>1 DEF Offsets
  <2>5. Pending' = Pending \cup S
    BY <2>1, <2>2, <2>3, Zenon DEF Pending
  <2> HIDE DEF S
  <2>6. HeldOnce'
    <3>1. Pending \cap S = {}
      BY <2>4 DEF HeldOnce
    <3>2. Pending' \subseteq 1..fetched'
      BY <2>4, <2>5 DEF HeldOnce
    <3>3. /\ Range(currentBatch) \cap S = {}
          /\ \A f \in Flushers : Range(batch[f]) \cap S = {}
      BY <3>1 DEF Pending, Flushers
    <3> QED BY <2>1, <2>3, <3>2, <3>3 DEF HeldOnce
  <2>7. Promise!Take(S)
    BY <2>1, <2>4, <2>5 DEF Promise!Take
  <2> QED BY <2>4, <2>6, <2>7 DEF Promise!Next
<1>3. CASE AddEvents
  <2>1. /\ currentBatch' = currentBatch \o cevents /\ cevents' = <<>>
        /\ UNCHANGED <<fetched, batch, stored, failures>>
    BY <1>3 DEF AddEvents
  <2>2. /\ Range(currentBatch') = Range(currentBatch) \cup Range(cevents)
        /\ Range(cevents') = {}
    BY <1>a, <2>1, RangeConcat, RangeEmpty
  <2>3. Pending' = Pending
    BY <2>1, <2>2 DEF Pending
  <2>4. HeldOnce'
    BY <2>1, <2>2, <2>3 DEF HeldOnce
  <2> QED BY <1>c, <2>1, <2>3, <2>4
<1>4. ASSUME NEW f \in Flushers,
             FlushSwap(f) \/ InsertOk(f) \/ InsertFail(f) \/ Requeue(f)
      PROVE  Goal
  <2> DEFINE A == Range(cevents)    B == Range(currentBatch)
             C == Range(batch[f])   D == Range(batch[Other(f)])
  <2>1. /\ Other(f) \in Flushers \ {f}
        /\ Pending = A \cup B \cup C \cup D
        /\ Pending \subseteq 1..fetched
        /\ A \cap B = {} /\ C \cap A = {} /\ C \cap B = {}
        /\ D \cap A = {} /\ D \cap B = {} /\ C \cap D = {}
    BY TwoFlushers
  <2>2. /\ Pending' = A' \cup B' \cup C' \cup D'
        /\ HeldOnce' <=>
              /\ Pending' \subseteq 1..fetched'
              /\ A' \cap B' = {} /\ C' \cap A' = {} /\ C' \cap B' = {}
              /\ D' \cap A' = {} /\ D' \cap B' = {} /\ C' \cap D' = {}
    <3>1. CASE f = "ticker"
      BY <3>1 DEF HeldOnce, Pending, Other, Flushers
    <3>2. CASE f = "main"
      BY <3>2 DEF HeldOnce, Pending, Other, Flushers
    <3> QED BY <3>1, <3>2 DEF Flushers
  <2>3. ASSUME FlushSwap(f) PROVE Goal
    <3>1. batch[f] = <<>> /\ currentBatch' = <<>>
      BY <2>3 DEF FlushSwap, TypeOK
    <3>2. batch'[f] = currentBatch /\ batch'[Other(f)] = batch[Other(f)]
      BY <1>a, <2>1, <2>3 DEF FlushSwap
    <3>3. C = {} /\ B' = {} /\ C' = B /\ D' = D /\ A' = A
      BY <2>3, <3>1, <3>2, RangeEmpty DEF FlushSwap
    <3>4. UNCHANGED <<fetched, stored, failures>>
      BY <2>3 DEF FlushSwap
    <3> HIDE DEF A, B, C, D
    <3>5. Pending' = Pending
      BY <2>1, <2>2, <3>3
    <3>6. HeldOnce'
      BY <2>1, <2>2, <3>3, <3>4, <3>5
    <3> QED BY <1>c, <3>4, <3>5, <3>6
  <2>4. ASSUME InsertOk(f) PROVE Goal
    <3>1. batch'[f] = <<>> /\ batch'[Other(f)] = batch[Other(f)]
      BY <1>a, <2>1, <2>4 DEF InsertOk
    <3>2. C' = {} /\ D' = D /\ A' = A /\ B' = B
      BY <2>4, <3>1, RangeEmpty DEF InsertOk
    <3>3. /\ UNCHANGED <<fetched, failures>>
          /\ stored' = stored \cup C
      BY <2>4 DEF InsertOk
    <3> HIDE DEF A, B, C, D
    <3>4. Pending' = Pending \ C /\ C \subseteq Pending
      BY <2>1, <2>2, <3>2
    <3>5. HeldOnce'
      BY <2>1, <2>2, <3>2, <3>3, <3>4
    <3>6. Promise!Store(C)
      BY <3>3, <3>4 DEF Promise!Store
    <3> QED BY <1>d, <3>4, <3>5, <3>6 DEF Promise!Next
  <2>5. ASSUME InsertFail(f) PROVE Goal
    <3>1. UNCHANGED <<fetched, cevents, currentBatch, batch>>
      BY <2>5 DEF InsertFail
    <3>2. PICK S \in {{}, C} : stored' = stored \cup S
      BY <2>5 DEF InsertFail
    <3>3. HeldOnce' /\ Pending' = Pending
      BY <3>1, Zenon DEF HeldOnce, Pending
    <3>4. failures' = failures + 1
      BY <2>5 DEF InsertFail
    <3> HIDE DEF A, B, C, D
    <3>5. S \subseteq Pending
      BY <2>1, <3>2
    <3>6. Promise!StoreError(S)
      BY <3>1, <3>2, <3>3, <3>4, <3>5 DEF Promise!StoreError
    <3> QED BY <1>d, <3>3, <3>5, <3>6 DEF Promise!Next
  <2>6. ASSUME Requeue(f) PROVE Goal
    <3>1. batch'[f] = <<>> /\ batch'[Other(f)] = batch[Other(f)]
      BY <1>a, <2>1, <2>6 DEF Requeue
    <3>2. B' = C \cup B
      <4>1. currentBatch' = batch[f] \o currentBatch
        BY <2>6 DEF Requeue
      <4> QED BY <1>a, <4>1, RangeConcat
    <3>3. C' = {} /\ D' = D /\ A' = A
      BY <2>6, <3>1, RangeEmpty DEF Requeue
    <3>4. UNCHANGED <<fetched, stored, failures>>
      BY <2>6 DEF Requeue
    <3> HIDE DEF A, B, C, D
    <3>5. Pending' = Pending
      BY <2>1, <2>2, <3>2, <3>3
    <3>6. HeldOnce'
      BY <2>1, <2>2, <3>2, <3>3, <3>4, <3>5
    <3> QED BY <1>c, <3>4, <3>5, <3>6
  <2> QED BY <1>4, <2>3, <2>4, <2>5, <2>6
<1>5. CASE Restart
  <2>1. /\ fetched' = 0 /\ UNCHANGED <<stored, failures>>
        /\ cevents' = <<>> /\ currentBatch' = <<>>
        /\ \A f \in Flushers : batch'[f] = <<>>
    BY <1>5, StartValues DEF Restart, CommittedOffset
  <2>2. /\ Range(cevents') = {} /\ Range(currentBatch') = {}
        /\ \A f \in Flushers : Range(batch'[f]) = {}
    BY <2>1, RangeEmpty
  <2>3. Pending' = {}
    BY <2>2 DEF Pending, Flushers
  <2>4. 1..fetched' = {}
    BY <2>1
  <2>5. HeldOnce'
    BY <2>2, <2>3 DEF HeldOnce, Flushers
  <2>6. Promise!Crash
    BY <2>1, <2>3, <2>4 DEF Promise!Crash
  <2> QED BY <2>5, <2>6 DEF Promise!Next
<1>6. \/ \E f \in Flushers :
            FlushSwap(f) \/ InsertOk(f) \/ InsertFail(f) \/ Requeue(f)
      \/ \E n \in 0..MaxFetch : ConsumeBatch(n)
      \/ AddEvents
      \/ Restart
      \/ ConsumerLoop \/ SignalFlush \/ TickerStop \/ TickerTick
      \/ TickerSignal \/ TickerRecv \/ Shutdown \/ MainReturn \/ Stopped
      \/ UNCHANGED vars
  BY ConstantsAssumption DEF Next, FetchSome
<1> QED BY <1>1, <1>2, <1>3, <1>4, <1>5, <1>6

\* The worker implements Delivery for every topic, batch size and schedule: an
\* event it took is in memory until an insert of it succeeds, leaves with that
\* insert as a whole, with no copy in another buffer, and stays after an error.
THEOREM WorkerImplementsDelivery == Spec => ImplementsDelivery
<1>1. Init => HeldOnce /\ Promise!Init
  <2> SUFFICES ASSUME Init PROVE HeldOnce /\ Promise!Init
    OBVIOUS
  <2>1. /\ Range(cevents) = {} /\ Range(currentBatch) = {}
        /\ \A f \in Flushers : Range(batch[f]) = {}
    BY StartValues, RangeEmpty DEF Init
  <2>2. Pending = {}
    BY <2>1 DEF Pending, Flushers
  <2>3. 1..fetched = {}
    BY DEF Init
  <2>4. HeldOnce
    BY <2>1, <2>2 DEF HeldOnce, Flushers
  <2>5. Promise!Init
    BY <2>2, <2>3 DEF Init, Promise!Init
  <2> QED BY <2>4, <2>5
<1> QED
  BY <1>1, NextDelivery, TypeCorrect, PTL DEF Spec, ImplementsDelivery,
     Promise!Spec

-----------------------------------------------------------------------------
(***************************************************************************)
(* The rows the worker writes.  A batch that is requeued was already given *)
(* its defaults, so what is inserted on a retry is EventRow's business.    *)
(***************************************************************************)

\* The int32 sum of two counts is a count again.
LEMMA AddInt32Type ==
    ASSUME WidthAssumption, NEW a \in Int32, NEW b \in Int32
    PROVE  AddInt32(a, b) \in Int32
BY DEF WidthAssumption, AddInt32, Int32, MaxInt32, MinInt32

\* The defaults make an event of an event.
LEMMA DefaultType ==
    ASSUME WidthAssumption, NEW e \in Events
    PROVE  Default(e) \in Events
<1>1. AddInt32(e.input, e.output) \in Int
  <2>1. e.input \in Int32 /\ e.output \in Int32
    BY DEF Events
  <2>2. AddInt32(e.input, e.output) \in Int32
    BY <2>1, AddInt32Type
  <2> QED BY <2>2 DEF WidthAssumption, Int32, MaxInt32, MinInt32
<1> DEFINE t == IF e.total = 0 THEN AddInt32(e.input, e.output) ELSE e.total
           m == IF e.mode = "" THEN "direct_ingest" ELSE e.mode
<1>2. t \in Int /\ m \in SourceModes
  BY <1>1 DEF Events, SourceModes
<1>3. Default(e) = [e EXCEPT !.total = t, !.mode = m]
  BY DEF Default
<1> HIDE DEF t, m
<1> QED BY <1>2, <1>3, ZenonT(60) DEF Events

\* A batch whose insert failed is put back with its defaults already filled in:
\* inserting it again changes no row, also where the sum is zero.
THEOREM RetryKeepsRow ==
    ASSUME WidthAssumption, NEW e \in Events
    PROVE  Default(Default(e)) = Default(e)
<1>1. /\ Default(e).input = e.input /\ Default(e).output = e.output
      /\ Default(e).total = IF e.total = 0 THEN AddInt32(e.input, e.output) ELSE e.total
      /\ Default(e).mode # ""
  BY DEF Events, Default
<1>2. Default(Default(e)).total = Default(e).total
  BY <1>1, DefaultType DEF Events, Default
<1>3. Default(Default(e)).mode = Default(e).mode
  BY <1>1, DefaultType DEF Events, Default
<1>4. Default(Default(e)) \in Events /\ Default(e) \in Events
  BY DefaultType
<1> QED BY <1>2, <1>3, <1>4, ZenonT(60) DEF Events, Default

\* The total of a validated event that came without one is the sum of its counts
\* exactly when the sum fits an int32; otherwise the row gets a negative total,
\* one that Validate itself refuses.
THEOREM TotalIsSumOrNegative ==
    ASSUME WidthAssumption, NEW e \in Events, Validate(e), e.total = 0
    PROVE  /\ e.input + e.output <= MaxInt32 => Default(e).total = e.input + e.output
           /\ e.input + e.output > MaxInt32 => ~Validate(Default(e))
<1>1. Default(e).total = AddInt32(e.input, e.output)
  BY DEF Events, Default
<1>2. e.input \in Int32 /\ e.output \in Int32 /\ e.input >= 0 /\ e.output >= 0
  BY DEF Events, Validate
<1> DEFINE a == e.input
           b == e.output
<1>3. a \in 0..MaxInt32 /\ b \in 0..MaxInt32
  BY <1>2 DEF WidthAssumption, Int32, MaxInt32, MinInt32
<1> HIDE DEF a, b
<1>4. /\ a + b <= MaxInt32 => AddInt32(a, b) = a + b
      /\ a + b > MaxInt32 => ~(AddInt32(a, b) >= 0)
  BY <1>3 DEF WidthAssumption, AddInt32, MaxInt32, MinInt32
<1> QED BY <1>1, <1>4 DEF Validate, a, b

\* Under one key, the organization, the key id and the source mode of an event
\* do not depend on what the client wrote.  The customer does exactly when the
\* key has none: then the two clients' customers stay as they were written, and
\* they differ if those did.  Enriching an event again changes nothing.
THEOREM KeyDecidesScope ==
    ASSUME NEW e1 \in Events, NEW e2 \in Events, NEW kc \in KeyContexts,
           NEW f1 \in Names, NEW f2 \in Names, f1 # ""
    PROVE  LET d1 == EnrichFromKeyContext(e1, kc, f1)
               d2 == EnrichFromKeyContext(e2, kc, f2)
           IN  /\ <<d1.org, d1.key, d1.mode>> = <<d2.org, d2.key, d2.mode>>
               /\ <<d1.org, d1.key, d1.mode>> = <<kc.org, kc.key, kc.mode>>
               /\ d1.customer = d2.customer
                     <=> (kc.customer # "" \/ e1.customer = e2.customer)
               /\ kc.customer = "" => d1.customer = e1.customer
               /\ EnrichFromKeyContext(d1, kc, f2) = d1
<1> DEFINE d1 == EnrichFromKeyContext(e1, kc, f1)
           d2 == EnrichFromKeyContext(e2, kc, f2)
<1>1. /\ d1.org = kc.org /\ d1.key = kc.key /\ d1.mode = kc.mode
      /\ d2.org = kc.org /\ d2.key = kc.key /\ d2.mode = kc.mode
  BY DEF Events, KeyContexts, EnrichFromKeyContext
<1>2. /\ d1.customer = IF kc.customer # "" THEN kc.customer ELSE e1.customer
      /\ d2.customer = IF kc.customer # "" THEN kc.customer ELSE e2.customer
  BY DEF Events, KeyContexts, EnrichFromKeyContext
<1>3. EnrichFromKeyContext(d1, kc, f2) = d1
  BY ZenonT(60) DEF Events, KeyContexts, EnrichFromKeyContext
<1> HIDE DEF d1, d2
<1>4. QED BY <1>1, <1>2, <1>3 DEF d1, d2

=============================================================================
