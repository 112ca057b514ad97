---------------------------- MODULE ExistenceCache ----------------------------
(***************************************************************************)
(* The existence cache org:{id} and org:{id}:enduser:{id} in Redis, and    *)
(* everyone who writes it: the control plane (identity.service.ts and      *)
(* enduser.service.ts, through redis.service.ts), the warming daemon of    *)
(* the ingest API (cache_daemon.go) and the read-through lookups of the    *)
(* ingest handlers (verifyOrg and verifyEndUser of ingest_handler.go over  *)
(* postgres/fallback.go).  Postgres holds the truth.                       *)
(*                                                                         *)
(* An entity is what an existence key names: an organization, or an end    *)
(* user in an organization.  The daemon also derives keys from the rows of *)
(* developer.api_keys (keys/service.go writes them), which name any end    *)
(* user next to any organization.  Each statement sent to Postgres and     *)
(* each command sent to Redis is one atomic step.  The audit entry each    *)
(* control-plane request writes last is left out: nothing that writes or   *)
(* reads the cache looks at it.                                            *)
(***************************************************************************)
EXTENDS Naturals

CONSTANTS
    Orgs,        \* organizations
    EndUsers,    \* end users
    NoEntity,    \* no entity
    Admins,      \* concurrent control-plane requests
    Lookups,     \* concurrent lookups of the ingest API
    MaxFaults    \* bound: Redis commands or Postgres queries that fail

\* An end user in an organization, and the organization.
Users == Orgs \X EndUsers
OrgOf(u) == u[1]

Entities == Orgs \cup Users

ASSUME CacheAssumption ==
    /\ Orgs \cap Users = {}
    /\ NoEntity \notin Entities
    /\ MaxFaults \in Nat

VARIABLES
    status,  \* status[x] in Postgres; "absent" before x is created
    home,    \* home[e]: the organization end user e belongs to, if it is one
             \*          of Orgs; it never changes
    keyed,   \* keyed[u]: whether an API key names u: "never", "active" or, when
             \*           every such key is revoked, "revoked"
    cache,   \* the entities whose existence key is in Redis
    apc,     \* apc[a]: where control-plane request a is
    aop,     \* aop[a]: the entity it works on, what it asks for, the status it
             \*         has read, until it is used, and the Redis command it has
             \*         to send
    dpc,     \* the daemon: the table it is warming from
    drows,   \* the daemon: rows of that table still to be written to Redis
    lpc,     \* lpc[l]: where lookup l is
    lx,      \* lx[l]: the entity it asks for
    faults   \* failures so far

postgres == <<status, home, keyed>>
admin == <<apc, aop>>
daemon == <<dpc, drows>>
lookup == <<lpc, lx>>
vars == <<postgres, cache, admin, daemon, lookup, faults>>

-----------------------------------------------------------------------------

\* No request: the value of aop[a] between two requests.
NoOp == [x |-> NoEntity, want |-> "none", read |-> "none", redis |-> "none"]

Init ==
    /\ status = [x \in Entities |-> "absent"]
    /\ home \in [EndUsers -> Orgs \cup {"elsewhere"}]
    /\ keyed = [u \in Users |-> "never"]
    /\ cache = {}
    /\ apc = [a \in Admins |-> "idle"]
    /\ aop = [a \in Admins |-> NoOp]
    /\ dpc = "sleep"
    /\ drows = {}
    /\ lpc = [l \in Lookups |-> "idle"]
    /\ lx = [l \in Lookups |-> NoEntity]
    /\ faults = 0

Fault ==
    /\ faults < MaxFaults
    /\ faults' = faults + 1

-----------------------------------------------------------------------------
(* The control plane. *)

\* Request a goes to place pc with operation op; between requests op is NoOp.
AdminGoto(a, pc, op) ==
    /\ apc' = [apc EXCEPT ![a] = pc]
    /\ aop' = [aop EXCEPT ![a] = op]

AdminReturn(a) == AdminGoto(a, "idle", NoOp)

\* End user u[2] belongs to organization u[1].
IsMember(u) == home[u[2]] = OrgOf(u)

\* create: the row is inserted as active, then the key is set.  An end user is
\* created in the one organization it belongs to, which has a row by then.
Create(a, x) ==
    /\ apc[a] = "idle"
    /\ status[x] = "absent"
    /\ x \in Users => IsMember(x) /\ status[OrgOf(x)] # "absent"
    /\ status' = [status EXCEPT ![x] = "active"]
    /\ AdminGoto(a, "redis", [x |-> x, want |-> "active", read |-> "none",
                              redis |-> "set"])
    /\ UNCHANGED <<home, keyed, cache, daemon, lookup, faults>>

\* update and suspend start with findOne.  suspend returns at once when the
\* organization is suspended already.
Read(a, x, want) ==
    /\ apc[a] = "idle"
    /\ status[x] # "absent"
    /\ ~(x \in Orgs /\ want = "suspended" /\ status[x] = "suspended")
    /\ AdminGoto(a, "write", [x |-> x, want |-> want, read |-> status[x],
                              redis |-> "none"])
    /\ UNCHANGED <<postgres, cache, daemon, lookup, faults>>

\* The Redis command that follows the write: suspending deletes the key;
\* activating sets it for an end user that was not active when it was read,
\* and never for an organization.
RedisAfter(op) ==
    IF op.want = "suspended" THEN "del"
    ELSE IF op.x \in Users /\ op.read # "active" THEN "set"
    ELSE "none"

\* Mutant of Write: the request goes on to Redis when it has no command.
WriteThenRedis(a) ==
    LET op == aop[a] IN
    /\ apc[a] = "write"
    /\ status' = [status EXCEPT ![op.x] = op.want]
    /\ AdminGoto(a, "redis", [op EXCEPT !.read = "none", !.redis = RedisAfter(op)])
    /\ UNCHANGED <<home, keyed, cache, daemon, lookup, faults>>

\* The row is written from what the request asks and what it has read.  The
\* update of an organization that was read as active leaves its status alone.
Write(a) ==
    LET op == aop[a] IN
    /\ apc[a] = "write"
    /\ status' = IF op.x \in Orgs /\ op.want = "active" /\ op.read = "active"
                 THEN status
                 ELSE [status EXCEPT ![op.x] = op.want]
    /\ IF RedisAfter(op) = "none"
       THEN AdminReturn(a)
       ELSE AdminGoto(a, "redis", [op EXCEPT !.read = "none",
                                             !.redis = RedisAfter(op)])
    /\ UNCHANGED <<home, keyed, cache, daemon, lookup, faults>>

\* RedisService: set with a TTL of an hour, or delete.
WriteThrough(a) ==
    /\ apc[a] = "redis"
    /\ cache' = IF aop[a].redis = "set" THEN cache \cup {aop[a].x}
                                        ELSE cache \ {aop[a].x}
    /\ AdminReturn(a)
    /\ UNCHANGED <<postgres, daemon, lookup, faults>>

\* RedisService swallows every error.
WriteThroughError(a) ==
    /\ apc[a] = "redis"
    /\ Fault
    /\ AdminReturn(a)
    /\ UNCHANGED <<postgres, cache, daemon, lookup>>

-----------------------------------------------------------------------------
(* The rows of developer.api_keys that name an end user and a customer; the  *)
(* daemon cannot scan the NULL of any other.                                 *)

\* CreateKey's INSERT: the organization and the end user must have rows, which
\* the end users of other organizations have, but the end user need not belong
\* to the organization.
InsertKey(u) ==
    /\ keyed[u] # "active"
    /\ status[OrgOf(u)] # "absent"
    /\ \A v \in Users : (v[2] = u[2] /\ IsMember(v)) => status[v] # "absent"
    /\ keyed' = [keyed EXCEPT ![u] = "active"]
    /\ UNCHANGED <<status, home, cache, admin, daemon, lookup, faults>>

\* RevokeKey's UPDATE, of the last active key that names u.
RevokeKey(u) ==
    /\ keyed[u] = "active"
    /\ keyed' = [keyed EXCEPT ![u] = "revoked"]
    /\ UNCHANGED <<status, home, cache, admin, daemon, lookup, faults>>

-----------------------------------------------------------------------------
(* The daemon: warmAll, every SYNC_INTERVAL. *)

\* What the active API keys name: end users, each with its key's organization.
NamedBy(us) == us \cup {OrgOf(u) : u \in us}
NamedByKeys == NamedBy({u \in Users : keyed[u] = "active"})

\* Mutant of WarmRows: the status literal has the wrong case, no row matches.
WarmRowsWrongCase(table) ==
    CASE table = "orgs"  -> {x \in Orgs : status[x] = "Active"}
      [] table = "keys"  -> NamedByKeys
      [] table = "users" -> {x \in Users : status[x] = "Active"}

\* Mutant of WarmRows: the query over api_keys takes revoked keys too.
WarmRowsAnyKey(table) ==
    CASE table = "orgs"  -> {x \in Orgs : status[x] = "active"}
      [] table = "keys"  -> NamedBy({u \in Users : keyed[u] # "never"})
      [] table = "users" -> {x \in Users : status[x] = "active"}

\* The rows each query of warmAll returns.  The query over api_keys looks at
\* the status of the key, not at that of its organization or end user, nor at
\* whether the end user belongs to the organization.
WarmRows(table) ==
    CASE table = "orgs"  -> {x \in Orgs : status[x] = "active"}
      [] table = "keys"  -> NamedByKeys
      [] table = "users" -> {x \in Users : status[x] = "active"}

\* The table after the one at hand.
NextTable == [sleep |-> "orgs", orgs |-> "keys", keys |-> "users"]

\* The next query, when the rows of the last one have been written.
WarmQuery ==
    /\ drows = {}
    /\ dpc # "users"
    /\ dpc' = NextTable[dpc]
    /\ drows' = WarmRows(NextTable[dpc])
    /\ UNCHANGED <<postgres, cache, admin, lookup, faults>>

\* The query fails: its table is skipped.
WarmQueryError ==
    /\ drows = {}
    /\ dpc # "users"
    /\ Fault
    /\ dpc' = NextTable[dpc]
    /\ UNCHANGED <<postgres, cache, admin, drows, lookup>>

\* The row at hand is written to Redis, with a TTL of an hour.
WarmSet(x) ==
    /\ x \in drows
    /\ cache' = cache \cup {x}
    /\ drows' = drows \ {x}
    /\ UNCHANGED <<postgres, admin, dpc, lookup, faults>>

\* The SET fails: warmAll does not look at its error.
WarmSetError(x) ==
    /\ x \in drows
    /\ Fault
    /\ drows' = drows \ {x}
    /\ UNCHANGED <<postgres, cache, admin, dpc, lookup>>

\* The last table is done: wait for the next tick.
WarmDone ==
    /\ drows = {}
    /\ dpc = "users"
    /\ dpc' = "sleep"
    /\ UNCHANGED <<postgres, cache, admin, drows, lookup, faults>>

-----------------------------------------------------------------------------
(* verifyOrg and verifyEndUser. *)

LookupGoto(l, pc, x) ==
    /\ lpc' = [lpc EXCEPT ![l] = pc]
    /\ lx' = [lx EXCEPT ![l] = x]

\* The lookup returns; whether it found the entity is its caller's business.
LookupReturn(l) == LookupGoto(l, "idle", NoEntity)

\* The lookup starts with EXISTS, and a miss asks Postgres.  A hit is the
\* answer, and changes nothing.
Exists(l, x) ==
    /\ lpc[l] = "idle"
    /\ x \notin cache
    /\ LookupGoto(l, "pg", x)
    /\ UNCHANGED <<postgres, cache, admin, daemon, faults>>

\* An error of EXISTS is a miss.
ExistsError(l, x) ==
    /\ lpc[l] = "idle"
    /\ Fault
    /\ LookupGoto(l, "pg", x)
    /\ UNCHANGED <<postgres, cache, admin, daemon>>

\* Mutant of PgKnows: the query does not look at the status.
PgKnowsAnyStatus(x) == status[x] # "absent"

\* OrgExists wants an ACTIVE organization; EndUserInOrg only wants the row, of
\* an end user of that organization.
PgKnows(x) ==
    IF x \in Orgs THEN status[x] = "active" ELSE status[x] # "absent"

\* Mutant of PgRead: an entity that is not found is written to the cache too.
PgReadBackfillsAll(l) ==
    /\ lpc[l] = "pg"
    /\ LookupGoto(l, "backfill", lx[l])
    /\ UNCHANGED <<postgres, cache, admin, daemon, faults>>

\* The fallback query; an entity that is not found ends the lookup.
PgRead(l) ==
    /\ lpc[l] = "pg"
    /\ IF PgKnows(lx[l]) THEN LookupGoto(l, "backfill", lx[l]) ELSE LookupReturn(l)
    /\ UNCHANGED <<postgres, cache, admin, daemon, faults>>

\* The query fails: as if the entity was not found.
PgReadError(l) ==
    /\ lpc[l] = "pg"
    /\ Fault
    /\ LookupReturn(l)
    /\ UNCHANGED <<postgres, cache, admin, daemon>>

\* The key is set from the row that was read, with a TTL of an hour.
Backfill(l) ==
    /\ lpc[l] = "backfill"
    /\ cache' = cache \cup {lx[l]}
    /\ LookupReturn(l)
    /\ UNCHANGED <<postgres, admin, daemon, faults>>

BackfillError(l) ==
    /\ lpc[l] = "backfill"
    /\ Fault
    /\ LookupReturn(l)
    /\ UNCHANGED <<postgres, cache, admin, daemon>>

\* A key reaches its TTL.
Expire(x) ==
    /\ x \in cache
    /\ cache' = cache \ {x}
    /\ UNCHANGED <<postgres, admin, daemon, lookup, faults>>

-----------------------------------------------------------------------------

AdminStep(a) ==
    \/ Write(a)
    \/ WriteThrough(a)
    \/ WriteThroughError(a)

DaemonStep ==
    \/ WarmQuery
    \/ WarmQueryError
    \/ \E x \in Entities : WarmSet(x) \/ WarmSetError(x)
    \/ WarmDone

LookupStep(l) ==
    \/ PgRead(l)
    \/ PgReadError(l)
    \/ Backfill(l)
    \/ BackfillError(l)

Next ==
    \/ \E a \in Admins, x \in Entities :
          \/ Create(a, x)
          \/ \E want \in {"active", "suspended"} : Read(a, x, want)
    \/ \E a \in Admins : AdminStep(a)
    \/ \E u \in Users : InsertKey(u) \/ RevokeKey(u)
    \/ DaemonStep
    \/ \E l \in Lookups, x \in Entities : Exists(l, x) \/ ExistsError(l, x)
    \/ \E l \in Lookups : LookupStep(l)
    \/ \E x \in Entities : Expire(x)

Spec == Init /\ [][Next]_vars

\* The daemon refreshes x at every round: SYNC_INTERVAL (5 minutes) is shorter
\* than the TTL (an hour), so such a key is not bound to expire.
Refreshed(x) == \E table \in {"orgs", "keys", "users"} : x \in WarmRows(table)

(***************************************************************************)
(* Fairness.  The daemon ticks for ever, and a key that nobody refreshes   *)
(* reaches its TTL.  Requests, lookups and failures may never come, and a  *)
(* request or lookup may stop anywhere: the Redis client of the control    *)
(* plane has no command timeout.                                           *)
(***************************************************************************)
Fairness ==
    /\ WF_vars(DaemonStep)
    /\ \A x \in Entities : WF_vars(~Refreshed(x) /\ Expire(x))

FairSpec == Spec /\ Fairness

-----------------------------------------------------------------------------
(* Properties. *)

\* Every variable has its type, and a control-plane request carries a Redis
\* command exactly while it has one to send.
TypeOK ==
    /\ status \in [Entities -> {"absent", "active", "suspended"}]
    /\ home \in [EndUsers -> Orgs \cup {"elsewhere"}]
    /\ keyed \in [Users -> {"never", "active", "revoked"}]
    /\ cache \subseteq Entities
    /\ apc \in [Admins -> {"idle", "write", "redis"}]
    /\ \A a \in Admins :
          /\ aop[a].x \in Entities \cup {NoEntity}
          /\ aop[a].want \in {"none", "active", "suspended"}
          /\ aop[a].read \in {"none", "active", "suspended"}
          /\ aop[a].redis \in {"none", "set", "del"}
          /\ (apc[a] = "idle") <=> (aop[a] = NoOp)
          /\ (apc[a] = "redis") <=> (aop[a].redis # "none")
    /\ dpc \in {"sleep", "orgs", "keys", "users"}
    /\ drows \subseteq Entities
    /\ lpc \in [Lookups -> {"idle", "pg", "backfill"}]
    /\ lx \in [Lookups -> Entities \cup {NoEntity}]
    /\ faults \in 0..MaxFaults

\* Nothing is cached that Postgres has never had as a row of its own or in the
\* row of an API key, through stale rows of the daemon, stale backfills and
\* reordered writes of the control plane.  (A key alone is enough: the end user
\* it names need not belong to its organization.)
NoPhantom ==
    \A x \in cache : status[x] # "absent" \/ (x \in Users /\ keyed[x] # "never")

\* An organization that stays suspended, while no active API key names it,
\* leaves the cache for good: a stale backfill, a stale row of the daemon or a
\* lost delete delays that by a TTL at most.
SuspendedOrgForgotten ==
    \A o \in Orgs :
        (<>[](status[o] = "suspended" /\ o \notin NamedByKeys)) =>
            <>[](o \notin cache)

\* An end user that an API key has put in the cache under an organization it
\* does not belong to leaves it for good once the key stays revoked: no lookup
\* and no stale row brings it back for ever.
StrangerForgotten ==
    \A u \in Users :
        (<>[](~IsMember(u) /\ keyed[u] # "active")) => <>[](u \notin cache)

\* An organization that stays active is in the cache again and again, also
\* after a reactivation, which does not write the cache itself.
ActiveOrgWarmed ==
    \A o \in Orgs : (<>[](status[o] = "active")) => []<>(o \in cache)

=============================================================================
