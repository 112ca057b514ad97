------------------------------- MODULE ApiKeys -------------------------------
(***************************************************************************)
(* API keys: CreateKey and RevokeKey of engine/internal/keys/service.go,   *)
(* behind the handlers of engine/cmd/keys-api, and ValidateAPIKey of       *)
(* engine/internal/auth/redis_provider.go, which the ingest API runs       *)
(* before every request.  ListKeys only reads, and is left out.            *)
(*                                                                         *)
(* A raw key is a model value; its row in Postgres and its context in      *)
(* Redis are its status.  Each statement sent to Postgres and each command *)
(* sent to Redis is one atomic step, so creations, revocations and         *)
(* authentications interleave.  All keys are of one organization.          *)
(***************************************************************************)
EXTENDS Naturals

CONSTANTS
    Keys,       \* raw keys
    Preset,     \* those put in Redis by hand (scripts/warm-redis.sh)
    MaxFaults   \* bound: Postgres statements or Redis commands that fail

ASSUME KeysAssumption ==
    /\ Preset \subseteq Keys
    /\ MaxFaults \in Nat

\* What apikey:{raw_key} holds: nothing, a JSON context with its status, JSON
\* with another status, or a plain organization id.
Contexts == {"none", "active", "revoked", "expired", "other", "plain"}

VARIABLES
    row,      \* row[k]: its status in developer.api_keys, or "absent"
    ctx,      \* ctx[k]: what Redis holds for it
    kpc,      \* kpc[k]: where the CreateKey that generates it is
    revoked,  \* the keys whose revocation was answered 200
    auth,     \* the last authentication: its key and its status
    faults    \* failures so far

vars == <<row, ctx, kpc, revoked, auth, faults>>

-----------------------------------------------------------------------------

NoAuth == [key |-> "none", status |-> 0]

Init ==
    /\ row = [k \in Keys |-> IF k \in Preset THEN "active" ELSE "absent"]
    /\ ctx \in [Keys -> Contexts]
    /\ \A k \in Keys \ Preset : ctx[k] = "none"
    /\ kpc = [k \in Keys |-> IF k \in Preset THEN "issued" ELSE "new"]
    /\ revoked = {}
    /\ auth = NoAuth
    /\ faults = 0

Fault ==
    /\ faults < MaxFaults
    /\ faults' = faults + 1

Goto(k, pc) == kpc' = [kpc EXCEPT ![k] = pc]

-----------------------------------------------------------------------------
(* POST /v1/keys *)

\* Mutant of CreateKey: the context is cached before the row is written.
CreateKeyCacheFirst(k) ==
    /\ kpc[k] = "new"
    /\ Goto(k, "set")
    /\ UNCHANGED <<row, ctx, revoked, auth, faults>>

\* The request is valid and generateKey returns a fresh key.  A request that
\* is not valid changes nothing.
CreateKey(k) ==
    /\ kpc[k] = "new"
    /\ Goto(k, "insert")
    /\ UNCHANGED <<row, ctx, revoked, auth, faults>>

AddRow(k) == row' = [row EXCEPT ![k] = "active"]

\* Mutant of InsertRow: the key is answered before its context is cached.
InsertRowAnswers(k) ==
    /\ kpc[k] = "insert"
    /\ AddRow(k)
    /\ Goto(k, "issued")
    /\ UNCHANGED <<ctx, revoked, auth, faults>>

\* INSERT INTO developer.api_keys.
InsertRow(k) ==
    /\ kpc[k] = "insert"
    /\ AddRow(k)
    /\ Goto(k, "set")
    /\ UNCHANGED <<ctx, revoked, auth, faults>>

\* The INSERT fails, maybe after Postgres has executed it: the error is logged
\* and the key is cached all the same.
InsertRowError(k) ==
    /\ kpc[k] = "insert"
    /\ Fault
    /\ AddRow(k) \/ UNCHANGED row
    /\ Goto(k, "set")
    /\ UNCHANGED <<ctx, revoked, auth>>

\* Mutant of SetContext: the status has the case of the control plane's.
SetContextUpperCase(k) ==
    /\ kpc[k] = "set"
    /\ ctx' = [ctx EXCEPT ![k] = "ACTIVE"]
    /\ Goto(k, "issued")
    /\ UNCHANGED <<row, revoked, auth, faults>>

\* SET apikey:{raw_key}, without a TTL; then 201 with the raw key.
SetContext(k) ==
    /\ kpc[k] = "set"
    /\ ctx' = [ctx EXCEPT ![k] = "active"]
    /\ Goto(k, "issued")
    /\ UNCHANGED <<row, revoked, auth, faults>>

\* The SET fails, maybe after Redis has executed it: its error is not looked
\* at, and the answer is 201.
SetContextError(k) ==
    /\ kpc[k] = "set"
    /\ Fault
    /\ ctx' \in {ctx, [ctx EXCEPT ![k] = "active"]}
    /\ Goto(k, "issued")
    /\ UNCHANGED <<row, revoked, auth>>

\* keys-api dies: creations in flight end where they are, and the client never
\* gets its key.
Crash ==
    /\ \E k \in Keys : kpc[k] \in {"insert", "set"}
    /\ kpc' = [k \in Keys |-> IF kpc[k] \in {"insert", "set"} THEN "dead" ELSE kpc[k]]
    /\ UNCHANGED <<row, ctx, revoked, auth, faults>>

-----------------------------------------------------------------------------
(* DELETE /v1/keys/{id} *)

\* UPDATE ... RETURNING key_hash: a row is marked, whatever its status, and the
\* answer is 200.  Redis is not touched.  Without a row the answer is 404.
RevokeKey(k) ==
    /\ row[k] # "absent"
    /\ row' = [row EXCEPT ![k] = "revoked"]
    /\ revoked' = revoked \cup {k}
    /\ UNCHANGED <<ctx, kpc, auth, faults>>

\* The UPDATE fails: 404.  Postgres may have executed it.
RevokeKeyError(k) ==
    /\ row[k] # "absent"
    /\ Fault
    /\ row' \in {row, [row EXCEPT ![k] = "revoked"]}
    /\ UNCHANGED <<ctx, kpc, revoked, auth>>

-----------------------------------------------------------------------------
(* AuthMiddleware *)

\* What ValidateAPIKey makes of the value in Redis: 200 stands for a request
\* that goes on to its handler.
Verdict(v) == IF v \in {"active", "plain"} THEN 200 ELSE 401

\* A request with key k is authenticated from Redis alone.
ValidateAPIKey(k) ==
    /\ auth' = [key |-> k, status |-> Verdict(ctx[k])]
    /\ UNCHANGED <<row, ctx, kpc, revoked, faults>>

\* The GET fails or takes longer than 2 seconds: 503.
ValidateAPIKeyError(k) ==
    /\ Fault
    /\ auth' = [key |-> k, status |-> 503]
    /\ UNCHANGED <<row, ctx, kpc, revoked>>

Step(k) ==
    \/ CreateKey(k)
    \/ InsertRow(k)
    \/ InsertRowError(k)
    \/ SetContext(k)
    \/ SetContextError(k)
    \/ RevokeKey(k)
    \/ RevokeKeyError(k)
    \/ ValidateAPIKey(k)
    \/ ValidateAPIKeyError(k)

Next == Crash \/ \E k \in Keys : Step(k)

Spec == Init /\ [][Next]_vars

-----------------------------------------------------------------------------
(* Properties. *)

\* Every variable has its type: what CreateKey caches is a status that
\* ValidateAPIKey knows.
TypeOK ==
    /\ row \in [Keys -> {"absent", "active", "revoked"}]
    /\ ctx \in [Keys -> Contexts]
    /\ kpc \in [Keys -> {"new", "insert", "set", "issued", "dead"}]
    /\ revoked \subseteq Keys
    /\ auth \in [key : Keys \cup {"none"}, status : {0, 200, 401, 503}]
    /\ faults \in 0..MaxFaults

\* Unless a call has failed, a key that authenticates has a row, at every step
\* of its creation and wherever keys-api dies: it can be revoked.
UsableKeyHasRow ==
    faults = 0 =>
        \A k \in Keys : Verdict(ctx[k]) = 200 => row[k] # "absent"

\* Unless a call has failed, a client that has got its key can use it at once,
\* until the key is revoked, however creations and revocations interleave.
IssuedKeyWorks ==
    faults = 0 =>
        \A k \in Keys \ Preset :
            (kpc[k] = "issued" /\ row[k] = "active") => Verdict(ctx[k]) = 200

\* A request that comes after the revocation of its key is rejected.
RevokedKeyRejected ==
    [][\A k \in revoked :
          (auth' # auth /\ auth'.key = k) => auth'.status # 200]_vars

=============================================================================
