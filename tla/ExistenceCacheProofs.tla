-------------------------- MODULE ExistenceCacheProofs --------------------------
(***************************************************************************)
(* Proof that the existence cache holds nothing that Postgres has never    *)
(* had in a row, for any number of organizations, end users, API keys,     *)
(* control-plane requests and lookups.                                     *)
(***************************************************************************)
EXTENDS ExistenceCache, TLAPS

\* The operations of control-plane requests, with the one between two requests.
Ops ==
    [x : Entities \cup {NoEntity}, want : {"none", "active", "suspended"},
     read : {"none", "active", "suspended"}, redis : {"none", "set", "del"}]

\* TypeOK, the shape of aop, and that who is at work has something to work on.
TypeInv ==
    /\ TypeOK
    /\ aop \in [Admins -> Ops]
    /\ \A a \in Admins :
          apc[a] # "idle" => aop[a].x \in Entities /\ aop[a].want # "none"
    /\ \A l \in Lookups : lpc[l] # "idle" => lx[l] \in Entities

\* What an actor is about to write to Redis, or has read before writing, has a
\* row by now, or an API key that names it.
Known(x) == status[x] # "absent" \/ (x \in Users /\ keyed[x] # "never")
AdminKnows == \A a \in Admins : apc[a] # "idle" => status[aop[a].x] # "absent"
DaemonKnows == \A x \in drows : Known(x)
LookupKnows == \A l \in Lookups : lpc[l] = "backfill" => status[lx[l]] # "absent"

\* The organization of an API key has a row.
KeyKnows == \A u \in Users : keyed[u] # "never" => status[OrgOf(u)] # "absent"

KnownInv ==
    /\ AdminKnows
    /\ DaemonKnows
    /\ LookupKnows
    /\ KeyKnows
    /\ NoPhantom

\* The initial state: nothing exists, nothing runs.
LEMMA InvInit == Init => TypeInv /\ KnownInv
BY CacheAssumption
   DEF Init, TypeInv, TypeOK, Ops, NoOp, KnownInv, AdminKnows, DaemonKnows,
       LookupKnows, KeyKnows, Known, NoPhantom

\* The rows of a query are entities with a row, or named by an API key.
LEMMA WarmRowsKnown ==
    ASSUME KeyKnows, NEW table \in {"orgs", "keys", "users"}
    PROVE  WarmRows(table) \subseteq {x \in Entities : Known(x)}
<1>1. \A u \in Users : OrgOf(u) \in Orgs
  BY DEF Users, OrgOf
<1> QED BY <1>1 DEF WarmRows, NamedByKeys, NamedBy, Entities, Known, KeyKnows

\* A step of the control plane: rows are added and changed, never removed.
LEMMA AdminPreserves ==
    ASSUME TypeInv, KnownInv, NEW a \in Admins,
           \/ \E x \in Entities :
                 Create(a, x) \/ \E want \in {"active", "suspended"} : Read(a, x, want)
           \/ AdminStep(a)
    PROVE  TypeInv' /\ KnownInv'
<1> USE DEF TypeInv, TypeOK, AdminGoto
<1> USE DEF KnownInv, AdminKnows, DaemonKnows, LookupKnows, KeyKnows, Known, NoPhantom
<1>1. ASSUME NEW x \in Entities, Create(a, x) PROVE TypeInv' /\ KnownInv'
  <2> DEFINE op == [x |-> x, want |-> "active", read |-> "none", redis |-> "set"]
  <2>1. op \in Ops /\ op # NoOp
    BY DEF Ops, NoOp
  <2>2. TypeInv'
    BY <1>1, <2>1 DEF Create, daemon, lookup, Ops
  <2>3. KnownInv'
    BY <1>1, <2>1 DEF Create, daemon, lookup
  <2> QED BY <2>2, <2>3
<1>2. ASSUME NEW x \in Entities, NEW want \in {"active", "suspended"}, Read(a, x, want)
      PROVE  TypeInv' /\ KnownInv'
  <2> DEFINE op == [x |-> x, want |-> want, read |-> status[x], redis |-> "none"]
  <2>1. op \in Ops /\ op # NoOp
    BY <1>2 DEF Ops, NoOp, Read
  <2>2. TypeInv'
    BY <1>2, <2>1 DEF Read, postgres, daemon, lookup, Ops
  <2>3. KnownInv'
    BY <1>2, <2>1 DEF Read, postgres, daemon, lookup
  <2> QED BY <2>2, <2>3
<1>3. ASSUME Write(a) PROVE TypeInv' /\ KnownInv'
  <2> DEFINE old == aop[a]
             op == [old EXCEPT !.read = "none", !.redis = RedisAfter(old)]
  <2>1. old \in Ops /\ old.x \in Entities /\ old.want \in {"active", "suspended"}
    BY <1>3 DEF Write, Ops
  <2>2. RedisAfter(old) \in {"none", "set", "del"}
    BY DEF RedisAfter
  <2>3. op \in Ops /\ op # NoOp /\ op.x = old.x /\ op.want = old.want
        /\ op.redis = RedisAfter(old)
    <3>1. op.x = old.x /\ op.want = old.want /\ op.redis = RedisAfter(old)
      BY <2>1 DEF Ops
    <3>2. op \in Ops
      BY <2>1, <2>2 DEF Ops
    <3>3. NoOp.want = "none"
      BY DEF NoOp
    <3> HIDE DEF op
    <3> QED BY <2>1, <3>1, <3>2, <3>3
  <2>4. NoOp \in Ops /\ NoOp.redis = "none"
    BY DEF Ops, NoOp
  <2>5. /\ status' \in [Entities -> {"absent", "active", "suspended"}]
        /\ \A x \in Entities : status[x] # "absent" => status'[x] # "absent"
    BY <1>3, <2>1 DEF Write
  <2>6. CASE RedisAfter(old) = "none"
    <3>1. apc' = [apc EXCEPT ![a] = "idle"] /\ aop' = [aop EXCEPT ![a] = NoOp]
      BY <1>3, <2>6 DEF Write, AdminReturn
    <3>2. TypeInv'
      BY <1>3, <2>4, <2>5, <3>1 DEF Write, daemon, lookup, Ops
    <3>3. KnownInv'
      BY <1>3, <2>5, <3>1 DEF Write, daemon, lookup
    <3> QED BY <3>2, <3>3
  <2>7. CASE RedisAfter(old) # "none"
    <3>1. apc' = [apc EXCEPT ![a] = "redis"] /\ aop' = [aop EXCEPT ![a] = op]
      BY <1>3, <2>7 DEF Write
    <3> HIDE DEF op, old
    <3>2. TypeInv'
      BY <1>3, <2>1, <2>3, <2>5, <2>7, <3>1 DEF Write, daemon, lookup, Ops
    <3>3. KnownInv'
      <4>1. status[old.x] # "absent"
        BY <1>3 DEF Write, old
      <4> QED BY <1>3, <2>1, <2>3, <2>5, <3>1, <4>1 DEF Write, daemon, lookup
    <3> QED BY <3>2, <3>3
  <2> QED BY <2>6, <2>7
<1>4. ASSUME WriteThrough(a) \/ WriteThroughError(a) PROVE TypeInv' /\ KnownInv'
  <2>1. NoOp \in Ops /\ NoOp.redis = "none"
    BY DEF Ops, NoOp
  <2>2. TypeInv'
    <3>1. AdminReturn(a) /\ UNCHANGED <<postgres, daemon, lookup>>
      BY <1>4 DEF WriteThrough, WriteThroughError
    <3>2. faults' \in 0..MaxFaults
      BY <1>4, CacheAssumption DEF WriteThrough, WriteThroughError, Fault
    <3>3. cache' \subseteq Entities
      BY <1>4 DEF WriteThrough, WriteThroughError
    <3>4. /\ apc' = [apc EXCEPT ![a] = "idle"] /\ aop' = [aop EXCEPT ![a] = NoOp]
      BY <3>1 DEF AdminReturn, AdminGoto
    <3>5. aop' \in [Admins -> Ops]
      BY <2>1, <3>4
    <3>6. /\ apc' \in [Admins -> {"idle", "write", "redis"}]
          /\ \A c \in Admins : /\ (apc'[c] = "idle") <=> (aop'[c] = NoOp)
                               /\ (apc'[c] = "redis") <=> (aop'[c].redis # "none")
      BY <2>1, <3>4
    <3>7. \A c \in Admins : apc'[c] # "idle" => aop'[c].x \in Entities /\ aop'[c].want # "none"
      BY <3>4
    <3>8. \A c \in Admins : /\ aop'[c].x \in Entities \cup {NoEntity}
                            /\ aop'[c].want \in {"none", "active", "suspended"}
                            /\ aop'[c].read \in {"none", "active", "suspended"}
                            /\ aop'[c].redis \in {"none", "set", "del"}
      BY <3>5 DEF Ops
    <3> QED BY <3>1, <3>2, <3>3, <3>5, <3>6, <3>7, <3>8 DEF postgres, daemon, lookup
  <2>3. KnownInv'
    BY <1>4, <2>1 DEF WriteThrough, WriteThroughError, AdminReturn, postgres, daemon, lookup
  <2> QED BY <2>2, <2>3
<1> QED BY <1>1, <1>2, <1>3, <1>4 DEF AdminStep

\* A step of the daemon.
LEMMA DaemonPreserves ==
    ASSUME TypeInv, KnownInv, DaemonStep
    PROVE  TypeInv' /\ KnownInv'
<1> USE DEF TypeInv, TypeOK
<1> USE DEF KnownInv, AdminKnows, DaemonKnows, LookupKnows, KeyKnows, Known, NoPhantom
<1>1. ASSUME WarmQuery PROVE TypeInv' /\ KnownInv'
  <2>1. NextTable[dpc] \in {"orgs", "keys", "users"}
    BY <1>1 DEF WarmQuery, NextTable
  <2>2. drows' \subseteq {x \in Entities : Known(x)}
    BY <1>1, <2>1, WarmRowsKnown DEF WarmQuery
  <2> QED BY <1>1, <2>1, <2>2 DEF WarmQuery, postgres, admin, lookup
<1>2. ASSUME WarmQueryError PROVE TypeInv' /\ KnownInv'
  <2>1. NextTable[dpc] \in {"orgs", "keys", "users"}
    BY <1>2 DEF WarmQueryError, NextTable
  <2> QED BY <1>2, <2>1, CacheAssumption DEF WarmQueryError, Fault, postgres, admin, lookup
<1>3. ASSUME NEW x \in Entities, WarmSet(x) \/ WarmSetError(x)
      PROVE  TypeInv' /\ KnownInv'
  BY <1>3, CacheAssumption DEF WarmSet, WarmSetError, Fault, postgres, admin, lookup
<1>4. ASSUME WarmDone PROVE TypeInv' /\ KnownInv'
  BY <1>4 DEF WarmDone, postgres, admin, lookup
<1> QED BY <1>1, <1>2, <1>3, <1>4 DEF DaemonStep

\* A step of a lookup.
LEMMA LookupPreserves ==
    ASSUME TypeInv, KnownInv, NEW l \in Lookups,
           (\E x \in Entities : Exists(l, x) \/ ExistsError(l, x)) \/ LookupStep(l)
    PROVE  TypeInv' /\ KnownInv'
<1> USE DEF TypeInv, TypeOK, LookupGoto, LookupReturn
<1> USE DEF KnownInv, AdminKnows, DaemonKnows, LookupKnows, KeyKnows, Known, NoPhantom
<1>1. ASSUME NEW x \in Entities, Exists(l, x) \/ ExistsError(l, x)
      PROVE  TypeInv' /\ KnownInv'
  BY <1>1, CacheAssumption DEF Exists, ExistsError, Fault, postgres, admin, daemon
<1>2. ASSUME PgRead(l) \/ PgReadError(l) PROVE TypeInv' /\ KnownInv'
  BY <1>2, CacheAssumption DEF PgRead, PgReadError, PgKnows, Fault, postgres, admin, daemon
<1>3. ASSUME Backfill(l) \/ BackfillError(l) PROVE TypeInv' /\ KnownInv'
  BY <1>3, CacheAssumption DEF Backfill, BackfillError, Fault, postgres, admin, daemon
<1> QED BY <1>1, <1>2, <1>3 DEF LookupStep

\* An API key is inserted or revoked.
LEMMA KeyPreserves ==
    ASSUME TypeInv, KnownInv, NEW u \in Users, InsertKey(u) \/ RevokeKey(u)
    PROVE  TypeInv' /\ KnownInv'
<1>1. /\ keyed' \in [Users -> {"never", "active", "revoked"}]
      /\ \A v \in Users : keyed[v] # "never" => keyed'[v] # "never"
      /\ \A v \in Users : keyed'[v] # "never" => keyed[v] # "never" \/ v = u
      /\ status[OrgOf(u)] # "absent"
      /\ UNCHANGED <<status, home, cache, admin, daemon, lookup, faults>>
  BY DEF InsertKey, RevokeKey, TypeInv, TypeOK, KnownInv, KeyKnows
<1>2. TypeInv'
  BY <1>1 DEF TypeInv, TypeOK, admin, daemon, lookup
<1>3. KnownInv'
  BY <1>1 DEF KnownInv, AdminKnows, DaemonKnows, LookupKnows, KeyKnows, Known, NoPhantom,
     admin, daemon, lookup
<1> QED BY <1>2, <1>3

\* Every step preserves both invariants.
LEMMA InvNext == TypeInv /\ KnownInv /\ [Next]_vars => TypeInv' /\ KnownInv'
<1> SUFFICES ASSUME TypeInv, KnownInv, [Next]_vars PROVE TypeInv' /\ KnownInv'
  OBVIOUS
<1>1. ASSUME NEW x \in Entities, Expire(x) PROVE TypeInv' /\ KnownInv'
  BY <1>1 DEF Expire, postgres, admin, daemon, lookup, TypeInv, TypeOK, KnownInv, AdminKnows,
              DaemonKnows, LookupKnows, KeyKnows, Known, NoPhantom
<1>2. CASE UNCHANGED vars
  BY <1>2 DEF vars, postgres, admin, daemon, lookup, TypeInv, TypeOK, KnownInv, AdminKnows,
              DaemonKnows, LookupKnows, KeyKnows, Known, NoPhantom
<1> QED BY <1>1, <1>2, AdminPreserves, KeyPreserves, DaemonPreserves,
   LookupPreserves DEF Next

\* Every variable of the cache and its writers has its type, for any sets of
\* entities, requests and lookups.
THEOREM TypeCorrect == Spec => []TypeOK
<1>1. TypeInv => TypeOK
  BY DEF TypeInv
<1> QED BY <1>1, InvInit, InvNext, PTL DEF Spec

\* Nothing is cached that Postgres has never had, as a row of its own or named by
\* an API key: each writer of the cache has seen such a row before it writes, and
\* rows are never removed.
THEOREM NoPhantoms == Spec => []NoPhantom
<1>1. KnownInv => NoPhantom
  BY DEF KnownInv
<1> QED BY <1>1, InvInit, InvNext, PTL DEF Spec

=============================================================================
