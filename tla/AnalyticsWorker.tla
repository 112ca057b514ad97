--------------------------- MODULE AnalyticsWorker ---------------------------
(***************************************************************************)
(* The analytics worker: the consumer goroutine and the shutdown sequence  *)
(* of engine/cmd/analytics-worker/main.go, the AnalyticsService of         *)
(* engine/internal/orchestration/analytics_service.go (AddEvents, the      *)
(* flush goroutine of Start, Flush) and the ClickHouse writer it calls.    *)
(*                                                                         *)
(* An event is its offset in the usage-events topic, 1..LogLen.  Each      *)
(* section of code under the mutex, each channel operation and each call   *)
(* of the writer is one atomic step.  Flush runs in two goroutines: the    *)
(* flush goroutine ("ticker") and, at shutdown, main ("main").             *)
(*                                                                         *)
(* ConsumeBatch and InsertEventBatch are placeholders in this commit (the  *)
(* one returns nothing, the other never fails).  They are modelled as      *)
(* their callers use them: ConsumeBatch as the fetch loop its comment      *)
(* gives, InsertEventBatch with the error that Flush handles.              *)
(***************************************************************************)
EXTENDS Integers, Sequences, Functions

CONSTANTS
    LogLen,       \* events in the topic
    BatchSize,    \* ANALYTICS_BATCH_SIZE: a buffer this long asks for a flush
    MaxFetch,     \* the largest number of events one ConsumeBatch returns
    MaxFailures,  \* bound: failing inserts (0 is the writer of this commit)
    MaxRestarts   \* bound: times the process is killed or restarted

ASSUME ConstantsAssumption ==
    /\ LogLen \in Nat
    /\ BatchSize \in Nat \ {0}
    /\ MaxFetch \in Nat \ {0}
    /\ MaxFailures \in Nat
    /\ MaxRestarts \in Nat

Offsets == 1..LogLen

\* The goroutines that call Flush.
Flushers == {"ticker", "main"}

VARIABLES
    fetched,       \* position of the reader: offsets 1..fetched were delivered
    cpc,           \* consumer goroutine: where it is
    cevents,       \* consumer goroutine: events returned and not yet added
    currentBatch,  \* AnalyticsService.currentBatch
    flushCh,       \* tokens in the flushCh channel, whose capacity is 1
    fpc,           \* fpc[f]: where flusher f is
    batch,         \* batch[f]: the batch flusher f has swapped out
    cancelled,     \* the context shared by the goroutines was cancelled
    insertedRows,  \* Writer.InsertedRows, a counter of this process
    stored,        \* offsets with a row in ClickHouse (survives the process)
    failures,      \* failing inserts so far
    restarts       \* restarts so far

consumerVars == <<fetched, cpc, cevents>>
writerVars == <<insertedRows, stored>>
bounds == <<failures, restarts>>

vars == <<fetched, cpc, cevents, currentBatch, flushCh, fpc, batch, cancelled,
          insertedRows, stored, failures, restarts>>

-----------------------------------------------------------------------------

\* Where the two flushers are when the process starts: main has started the
\* flush goroutine, which waits in its select, and waits for a signal.
FlushersStart == [f \in Flushers |-> IF f = "ticker" THEN "select" ELSE "wait"]

NoBatch == [f \in Flushers |-> <<>>]

Init ==
    /\ fetched = 0
    /\ cpc = "loop"
    /\ cevents = <<>>
    /\ currentBatch = <<>>
    /\ flushCh = 0
    /\ fpc = FlushersStart
    /\ batch = NoBatch
    /\ cancelled = FALSE
    /\ insertedRows = 0
    /\ stored = {}
    /\ failures = 0
    /\ restarts = 0

\* main has returned: every goroutine of the process is gone.
Running == fpc["main"] # "exit"

-----------------------------------------------------------------------------
(* The consumer goroutine. *)

\* Top of the loop: leave when the context is cancelled.
ConsumerLoop ==
    /\ Running
    /\ cpc = "loop"
    /\ cpc' = IF cancelled THEN "done" ELSE "fetch"
    /\ UNCHANGED <<fetched, cevents, currentBatch, flushCh, fpc, batch,
                   cancelled, writerVars, bounds>>

\* ConsumeBatch returns the next n events of the topic, none when it times out.
ConsumeBatch(n) ==
    /\ Running
    /\ cpc = "fetch"
    /\ n <= LogLen - fetched
    /\ fetched' = fetched + n
    /\ cevents' = [i \in 1..n |-> fetched + i]
    /\ cpc' = IF n = 0 THEN "loop" ELSE "add"
    /\ UNCHANGED <<currentBatch, flushCh, fpc, batch, cancelled, writerVars,
                   bounds>>

\* Mutant of AddEvents: the flush is asked for one event too late.
AddEventsLateSignal ==
    /\ Running
    /\ cpc = "add"
    /\ currentBatch' = currentBatch \o cevents
    /\ cevents' = <<>>
    /\ cpc' = IF Len(currentBatch') > BatchSize THEN "signal" ELSE "loop"
    /\ UNCHANGED <<fetched, flushCh, fpc, batch, cancelled, writerVars, bounds>>

\* AddEvents, the section under the mutex.  The buffer is not bounded: above
\* 2 * BatchSize the code writes a warning and goes on.
AddEvents ==
    /\ Running
    /\ cpc = "add"
    /\ currentBatch' = currentBatch \o cevents
    /\ cevents' = <<>>
    /\ cpc' = IF Len(currentBatch') >= BatchSize THEN "signal" ELSE "loop"
    /\ UNCHANGED <<fetched, flushCh, fpc, batch, cancelled, writerVars, bounds>>

\* Mutant of SignalFlush: the channel has no capacity that bounds the sends.
SignalFlushUnbounded ==
    /\ Running
    /\ cpc = "signal"
    /\ flushCh' = flushCh + 1
    /\ cpc' = "loop"
    /\ UNCHANGED <<fetched, cevents, currentBatch, fpc, batch, cancelled,
                   writerVars, bounds>>

\* AddEvents after the unlock: a send that gives up when the channel is full.
SignalFlush ==
    /\ Running
    /\ cpc = "signal"
    /\ flushCh' = 1
    /\ cpc' = "loop"
    /\ UNCHANGED <<fetched, cevents, currentBatch, fpc, batch, cancelled,
                   writerVars, bounds>>

-----------------------------------------------------------------------------
(* The flush goroutine of Start. *)

\* case <-ctx.Done()
TickerStop ==
    /\ Running
    /\ fpc["ticker"] = "select"
    /\ cancelled
    /\ fpc' = [fpc EXCEPT !["ticker"] = "done"]
    /\ UNCHANGED <<consumerVars, currentBatch, flushCh, batch, cancelled,
                   writerVars, bounds>>

\* Mutant of TickerTick: the timer only flushes a buffer that is full.
TickerTickWhenFull ==
    /\ Running
    /\ fpc["ticker"] = "select"
    /\ Len(currentBatch) >= BatchSize
    /\ fpc' = [fpc EXCEPT !["ticker"] = "tick"]
    /\ UNCHANGED <<consumerVars, currentBatch, flushCh, batch, cancelled,
                   writerVars, bounds>>

\* case <-ticker.C with a buffer that is not empty; a tick that finds it empty
\* changes nothing.
TickerTick ==
    /\ Running
    /\ fpc["ticker"] = "select"
    /\ currentBatch # <<>>
    /\ fpc' = [fpc EXCEPT !["ticker"] = "tick"]
    /\ UNCHANGED <<consumerVars, currentBatch, flushCh, batch, cancelled,
                   writerVars, bounds>>

\* The tick's send, after the unlock, that gives up when the channel is full.
TickerSignal ==
    /\ Running
    /\ fpc["ticker"] = "tick"
    /\ flushCh' = 1
    /\ fpc' = [fpc EXCEPT !["ticker"] = "select"]
    /\ UNCHANGED <<consumerVars, currentBatch, batch, cancelled, writerVars,
                   bounds>>

\* case <-s.flushCh: enter Flush.
TickerRecv ==
    /\ Running
    /\ fpc["ticker"] = "select"
    /\ flushCh = 1
    /\ flushCh' = 0
    /\ fpc' = [fpc EXCEPT !["ticker"] = "swap"]
    /\ UNCHANGED <<consumerVars, currentBatch, batch, cancelled, writerVars,
                   bounds>>

-----------------------------------------------------------------------------
(* Flush, in either goroutine. *)

\* Where flusher f goes when Flush returns.
AfterFlush(f) == IF f = "ticker" THEN "select" ELSE "close"

\* Mutant of FlushSwap: the buffer is copied and not emptied.
FlushSwapCopies(f) ==
    /\ Running
    /\ fpc[f] = "swap"
    /\ batch' = [batch EXCEPT ![f] = currentBatch]
    /\ fpc' = [fpc EXCEPT ![f] = IF currentBatch = <<>> THEN AfterFlush(f)
                                                        ELSE "insert"]
    /\ UNCHANGED <<consumerVars, currentBatch, flushCh, cancelled, writerVars, bounds>>

\* The first section under the mutex: an empty buffer returns at once.
FlushSwap(f) ==
    /\ Running
    /\ fpc[f] = "swap"
    /\ batch' = [batch EXCEPT ![f] = currentBatch]
    /\ currentBatch' = <<>>
    /\ fpc' = [fpc EXCEPT ![f] = IF currentBatch = <<>> THEN AfterFlush(f)
                                                        ELSE "insert"]
    /\ UNCHANGED <<consumerVars, flushCh, cancelled, writerVars, bounds>>

\* InsertEventBatch returns nil: the rows are stored and counted.
InsertOk(f) ==
    /\ Running
    /\ fpc[f] = "insert"
    /\ stored' = stored \cup Range(batch[f])
    /\ insertedRows' = insertedRows + Len(batch[f])
    /\ batch' = [batch EXCEPT ![f] = <<>>]
    /\ fpc' = [fpc EXCEPT ![f] = AfterFlush(f)]
    /\ UNCHANGED <<consumerVars, currentBatch, flushCh, cancelled, bounds>>

\* Mutant of InsertFail: the rows are counted before the error is known.
InsertFailCounted(f) ==
    /\ Running
    /\ fpc[f] = "insert"
    /\ failures < MaxFailures
    /\ failures' = failures + 1
    /\ stored' \in {stored, stored \cup Range(batch[f])}
    /\ insertedRows' = insertedRows + Len(batch[f])
    /\ fpc' = [fpc EXCEPT ![f] = "requeue"]
    /\ UNCHANGED <<consumerVars, currentBatch, flushCh, batch, cancelled,
                   restarts>>

\* InsertEventBatch returns an error.  The caller cannot tell whether the
\* server kept the rows, so both outcomes are possible.
InsertFail(f) ==
    /\ Running
    /\ fpc[f] = "insert"
    /\ failures < MaxFailures
    /\ failures' = failures + 1
    /\ stored' \in {stored, stored \cup Range(batch[f])}
    /\ fpc' = [fpc EXCEPT ![f] = "requeue"]
    /\ UNCHANGED <<consumerVars, currentBatch, flushCh, batch, cancelled,
                   insertedRows, restarts>>

\* Mutant of Requeue: the failed batch goes behind the newer events.
RequeueAtBack(f) ==
    /\ Running
    /\ fpc[f] = "requeue"
    /\ currentBatch' = currentBatch \o batch[f]
    /\ batch' = [batch EXCEPT ![f] = <<>>]
    /\ fpc' = [fpc EXCEPT ![f] = AfterFlush(f)]
    /\ UNCHANGED <<consumerVars, flushCh, cancelled, writerVars, bounds>>

\* The second section under the mutex: the failed batch goes to the front.
Requeue(f) ==
    /\ Running
    /\ fpc[f] = "requeue"
    /\ currentBatch' = batch[f] \o currentBatch
    /\ batch' = [batch EXCEPT ![f] = <<>>]
    /\ fpc' = [fpc EXCEPT ![f] = AfterFlush(f)]
    /\ UNCHANGED <<consumerVars, flushCh, cancelled, writerVars, bounds>>

-----------------------------------------------------------------------------
(* main, and the process as a whole. *)

\* SIGINT or SIGTERM: cancel the context, then call Flush.  Nothing waits for
\* the two goroutines.
Shutdown ==
    /\ fpc["main"] = "wait"
    /\ cancelled' = TRUE
    /\ fpc' = [fpc EXCEPT !["main"] = "swap"]
    /\ UNCHANGED <<consumerVars, currentBatch, flushCh, batch, writerVars,
                   bounds>>

\* The consumer and the writer are closed and main returns.
MainReturn ==
    /\ fpc["main"] = "close"
    /\ fpc' = [fpc EXCEPT !["main"] = "exit"]
    /\ UNCHANGED <<consumerVars, currentBatch, flushCh, batch, cancelled,
                   writerVars, bounds>>

\* Mutant of CommittedOffset: offsets are committed when they are fetched.
CommittedOnFetch == fetched

\* The offset the consumer group resumes from.  CommitMessages has no caller,
\* so the group never has a committed offset and starts from the first one.
CommittedOffset == 0

\* The process is killed at any moment, or has exited, and a new one starts.
Restart ==
    /\ restarts < MaxRestarts
    /\ restarts' = restarts + 1
    /\ fetched' = CommittedOffset
    /\ cpc' = "loop"
    /\ cevents' = <<>>
    /\ currentBatch' = <<>>
    /\ flushCh' = 0
    /\ fpc' = FlushersStart
    /\ batch' = NoBatch
    /\ cancelled' = FALSE
    /\ insertedRows' = 0
    /\ UNCHANGED <<stored, failures>>

\* The process has exited and is not started again.
Stopped ==
    /\ ~Running
    /\ UNCHANGED vars

-----------------------------------------------------------------------------

FetchSome == \E n \in 1..MaxFetch : ConsumeBatch(n)

Next ==
    \/ ConsumerLoop
    \/ ConsumeBatch(0)
    \/ FetchSome
    \/ AddEvents
    \/ SignalFlush
    \/ TickerStop
    \/ TickerTick
    \/ TickerSignal
    \/ TickerRecv
    \/ \E f \in Flushers :
          FlushSwap(f) \/ InsertOk(f) \/ InsertFail(f) \/ Requeue(f)
    \/ Shutdown
    \/ MainReturn
    \/ Restart
    \/ Stopped

Spec == Init /\ [][Next]_vars

(***************************************************************************)
(* Fairness.  A goroutine that can run does run (weak fairness).  The     *)
(* select of Start picks a ready case at random and its ticker keeps      *)
(* firing, so a case that is ready again and again is taken (strong       *)
(* fairness).  The broker keeps delivering what the topic holds.          *)
(* Signals, restarts and failures are not fair: they may never happen.    *)
(***************************************************************************)
Fairness ==
    /\ WF_vars(ConsumerLoop)
    /\ WF_vars(ConsumeBatch(0))
    /\ SF_vars(FetchSome)
    /\ WF_vars(AddEvents)
    /\ WF_vars(SignalFlush)
    /\ SF_vars(TickerTick)
    /\ WF_vars(TickerSignal)
    /\ SF_vars(TickerRecv)
    /\ \A f \in Flushers : /\ WF_vars(FlushSwap(f))
                           /\ WF_vars(InsertOk(f) \/ InsertFail(f))
                           /\ WF_vars(Requeue(f))

FairSpec == Spec /\ Fairness

-----------------------------------------------------------------------------
(* Properties. *)

\* Every variable has its type, and a goroutine holds events only at the
\* places of the code where it does.
TypeOK ==
    /\ fetched \in 0..LogLen
    /\ cpc \in {"loop", "fetch", "add", "signal", "done"}
    /\ cevents \in Seq(Offsets)
    /\ (cevents # <<>>) => (cpc = "add")
    /\ currentBatch \in Seq(Offsets)
    /\ flushCh \in 0..1
    /\ fpc \in [Flushers -> {"select", "tick", "swap", "insert", "requeue",
                             "done", "wait", "close", "exit"}]
    /\ batch \in [Flushers -> Seq(Offsets)]
    /\ \A f \in Flushers :
          (batch[f] # <<>>) => (fpc[f] \in {"insert", "requeue"})
    /\ cancelled \in BOOLEAN
    /\ cancelled <=> fpc["main"] # "wait"
    /\ insertedRows \in Nat
    /\ stored \subseteq Offsets
    /\ failures \in 0..MaxFailures
    /\ restarts \in 0..MaxRestarts

\* Whatever the interleaving of AddEvents, of the two flushers, of failing
\* inserts and of restarts, an event the reader has delivered is in ClickHouse
\* or in a buffer of the process.  Once main has returned no flush takes it from
\* there: the restart reads it again, because no offset has been committed.
NoEventLost ==
    \A o \in 1..fetched :
        \/ o \in stored
        \/ o \in Range(cevents) \cup Range(currentBatch)
        \/ \E f \in Flushers : o \in Range(batch[f])

\* InsertedRows and the buffers account for every delivered event exactly
\* once: no path of Flush drops a batch, counts it twice or requeues a batch
\* that was counted.
RowsAccountedFor ==
    fetched = insertedRows + Len(cevents) + Len(currentBatch)
                + Len(batch["ticker"]) + Len(batch["main"])

\* s holds the offsets that follow a, in order and without a gap.
IsRun(s, a) == \A i \in 1..Len(s) : s[i] = a + i

\* Until shutdown the buffers, read from the batch being inserted to the
\* events being added, are the topic from the last counted row on, in order:
\* a failed batch goes back in front of what arrived while it was written.
InTopicOrder ==
    ~cancelled =>
        /\ IsRun(batch["ticker"], insertedRows)
        /\ IsRun(currentBatch, insertedRows + Len(batch["ticker"]))
        /\ IsRun(cevents,
                 insertedRows + Len(batch["ticker"]) + Len(currentBatch))

\* A full buffer is never left to the timer: until the first failing insert or
\* the shutdown, a buffer of BatchSize events has a token in flushCh, a
\* consumer about to send one, or a flush goroutine about to swap the buffer.
FullBufferSignalled ==
    (failures = 0 /\ ~cancelled /\ Len(currentBatch) >= BatchSize) =>
        \/ flushCh = 1
        \/ cpc = "signal"
        \/ fpc["ticker"] = "swap"

\* Unless the worker is shut down for good, every event of the topic reaches
\* ClickHouse, through failing inserts and through restarts that lose the
\* buffers.
EventuallyStored ==
    (<>[]~cancelled) => <>(Offsets \subseteq stored)

\* What is in memory, in any of the buffers.
Pending ==
    Range(cevents) \cup Range(currentBatch)
        \cup Range(batch["ticker"]) \cup Range(batch["main"])

Promise == INSTANCE Delivery WITH
    Items <- Offsets, taken <- 1..fetched, pending <- Pending, errors <- failures

\* The worker keeps the promise of Delivery, also while main and the flush
\* goroutine flush at the same time: an event leaves the memory with the insert
\* that succeeds, with no copy of it in another buffer, and is never inserted
\* again by the same process; after an error it stays.
ImplementsDelivery == Promise!Spec

\* The final Flush drains the service: when main has returned, every event
\* that was handed to AddEvents is in ClickHouse.
DrainedAtExit ==
    ~Running => 1..fetched \subseteq stored \cup Range(cevents)

=============================================================================
