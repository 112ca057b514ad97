-------------------------------- MODULE EventRow --------------------------------
(***************************************************************************)
(* What the engine does to the fields of one usage event: Validate and     *)
(* EnrichFromKeyContext of engine/internal/models/models.go on its way in, *)
(* the defaults of InsertEventBatch (engine/internal/clickhouse/writer.go) *)
(* on its way to a row.  Token counts are Go's int32, whose sum wraps;     *)
(* total_tokens is a float64, exact for every value it gets here.  The     *)
(* batch path enriches its events and does not validate them.              *)
(***************************************************************************)
EXTENDS Integers

CONSTANTS
    Names,    \* organizations, customers, keys, event ids; "" is absent
    TwoTo31   \* 2^31

\* What the proofs need to know of 2^31: they hold for every width.
WidthAssumption == TwoTo31 \in Nat \ {0}

MaxInt32 == TwoTo31 - 1
MinInt32 == -TwoTo31
Int32 == MinInt32..MaxInt32

SourceModes == {"", "direct_ingest", "virtual_key", "byok"}

Events ==
    [id : Names \cup {""}, org : Names \cup {""}, customer : Names \cup {""},
     key : Names \cup {""}, mode : SourceModes, type : Names \cup {""},
     model : Names \cup {""}, input : Int32, output : Int32, thinking : Int32,
     total : Int]

KeyContexts ==
    [org : Names, customer : Names \cup {""}, key : Names \cup {""}, mode : SourceModes]

-----------------------------------------------------------------------------

\* UsageEvent.Validate returns no error.
Validate(e) ==
    /\ e.type # ""
    /\ e.model # ""
    /\ e.input >= 0
    /\ e.output >= 0
    /\ e.thinking >= 0
    /\ e.total >= 0

\* EnrichFromKeyContext; fresh is what newEventID returns.
EnrichFromKeyContext(e, kc, fresh) ==
    [e EXCEPT !.org = kc.org,
              !.customer = IF kc.customer # "" THEN kc.customer ELSE @,
              !.mode = kc.mode,
              !.key = kc.key,
              !.id = IF @ = "" THEN fresh ELSE @]

\* An int32 sum: two's complement, modulo 2^32.
AddInt32(a, b) ==
    IF a + b > MaxInt32 THEN a + b - 2 * TwoTo31
    ELSE IF a + b < MinInt32 THEN a + b + 2 * TwoTo31
    ELSE a + b

\* defaultEvent, applied in place to every event of a batch before the insert,
\* and again when a batch that failed is inserted once more.
Default(e) ==
    [e EXCEPT !.total = IF @ = 0 THEN AddInt32(e.input, e.output) ELSE @,
              !.mode = IF @ = "" THEN "direct_ingest" ELSE @]

=============================================================================
