----------------------------- MODULE AnalyticsRead -----------------------------
(***************************************************************************)
(* Reading usage: the routes of control-plane/src/bff/                     *)
(* bff-proxy.controller.ts, proxyRequest of bff-proxy.service.ts with its  *)
(* response cache in Redis, and the analytics API it forwards to           *)
(* (engine/cmd/analytics-api, engine/internal/analytics).                  *)
(*                                                                         *)
(* A path is the sequence of its segments, and so is the text of an id: a  *)
(* controller puts the decoded :orgId of its route in the path it forwards *)
(* as it is, so it may be several segments, and one with a '?' or a '#'    *)
(* ends the path.  (Ids with an empty or dot segment or a percent sign,    *)
(* which the HTTP client or the API's mux rewrites, are left out.)         *)
(*                                                                         *)
(* Of a query only org_id is kept (from and to travel the same way).  The  *)
(* API of this version computes no totals: an answer is the shape its      *)
(* handler gives it and the values the handler copies from the request.    *)
(* It reads neither the service token nor the trusted headers.             *)
(***************************************************************************)
EXTENDS Naturals, Sequences

CONSTANTS
    Readers,    \* requests to the control plane or to the analytics API
    OrgIds,     \* organization ids in paths
    QueryIds,   \* organization ids in queries and tokens
    Before,     \* Before[s]: what stands before the '?' or '#' of segment s
    MaxFaults   \* bound: Redis calls that fail

\* The segments of the routes below.
Words ==
    {"v1", "orgs", "analytics", "summary", "customers", "models", "services", "cost",
     "usage", "hourly", "daily", "weekly", "monthly"}

ASSUME ReadAssumption ==
    /\ MaxFaults \in Nat
    /\ \A id \in OrgIds \cup QueryIds : id \in Seq(STRING) /\ id # <<>>
    /\ DOMAIN Before \cap Words = {}

\* A parameter or claim that is absent is empty.
OptQueryIds == QueryIds \cup {<<>>}
OptIds == OrgIds \cup OptQueryIds

-----------------------------------------------------------------------------
(* The routes of BffProxyController. *)

\* What follows /v1/orgs/{org_id}, by the last segment of usage/orgs/:orgId/...
OrgTails ==
    [summary   |-> <<"summary">>,
     customers |-> <<"customers", "usage">>,
     models    |-> <<"models", "usage">>,
     services  |-> <<"services", "usage">>,
     cost      |-> <<"cost">>]

\* Mutant of AnalyticsTails: the platform routes are forwarded as they come in.
AnalyticsTailsAsReceived ==
    [t \in {"hourly", "daily", "weekly", "monthly", "models", "services", "cost"}
        |-> <<t>>]

\* What follows /v1/analytics, by the last segment of usage/analytics/...
AnalyticsTails ==
    [hourly   |-> <<"hourly">>,
     daily    |-> <<"daily">>,
     weekly   |-> <<"weekly">>,
     monthly  |-> <<"monthly">>,
     models   |-> <<"models", "usage">>,
     services |-> <<"services", "usage">>,
     cost     |-> <<"cost">>]

\* The requests users make: an organization route, or an analytics route with
\* the org_id of its query, and the org_id claim of the user's token.  (An
\* organization route puts the id of its path over the org_id of the query.)
OrgCalls ==
    [kind : {"orgs"}, route : DOMAIN OrgTails, id : OrgIds, claim : OptQueryIds]
AnalyticsCalls ==
    [kind : {"analytics"}, route : DOMAIN AnalyticsTails, query : OptQueryIds,
     claim : OptQueryIds]
Calls == OrgCalls \cup AnalyticsCalls

\* The path a call is forwarded to, as it is put together, and the org_id of its
\* query.
PathOf(c) ==
    IF c.kind = "orgs" THEN <<"v1", "orgs">> \o c.id \o OrgTails[c.route]
                       ELSE <<"v1", "analytics">> \o AnalyticsTails[c.route]
QueryOf(c) == IF c.kind = "orgs" THEN c.id ELSE c.query

\* The organization of the service token and of X-QB-Org-Id.
ScopeOf(c) == IF c.claim # <<>> THEN c.claim ELSE QueryOf(c)

\* path.includes('/analytics/').
IsCached(path) == \E i \in 1..(Len(path) - 1) : path[i] = "analytics"

\* Mutant of CacheKey: the query is not part of the key.
CacheKeyPathOnly(c) == <<PathOf(c), <<>>>>

\* bff:analytics:{path}:{query}
CacheKey(c) == <<PathOf(c), QueryOf(c)>>

-----------------------------------------------------------------------------
(* The analytics API. *)

\* The path of the URL the HTTP client makes of a path: what follows the first
\* '?' or '#' is query or fragment.  (The client adds the parameters to it.)
UrlPath(path) ==
    LET cuts == {i \in DOMAIN path : path[i] \in DOMAIN Before}
        cut == CHOOSE i \in cuts : \A j \in cuts : i <= j
        head == SubSeq(path, 1, cut - 1)
    IN  IF cuts = {} THEN path
        ELSE IF Before[path[cut]] = "" THEN head
        ELSE Append(head, Before[path[cut]])

\* The routing table: patterns and the handlers they lead to.
Routes ==
    {<<<<"v1", "orgs", "*", "summary">>, "OrgSummary">>,
     <<<<"v1", "orgs", "*", "customers", "usage">>, "OrgCustomersUsage">>,
     <<<<"v1", "orgs", "*", "models", "usage">>, "OrgModelsUsage">>,
     <<<<"v1", "orgs", "*", "services", "usage">>, "OrgServicesUsage">>,
     <<<<"v1", "orgs", "*", "cost">>, "OrgCost">>,
     <<<<"v1", "customers", "*", "summary">>, "CustomerSummary">>,
     <<<<"v1", "customers", "*", "end-users", "usage">>, "CustomerEndUsersUsage">>,
     <<<<"v1", "customers", "*", "models", "usage">>, "CustomerModelsUsage">>,
     <<<<"v1", "customers", "*", "cost">>, "CustomerCost">>,
     <<<<"v1", "end-users", "*", "summary">>, "EndUserSummary">>,
     <<<<"v1", "end-users", "*", "daily">>, "EndUserDaily">>,
     <<<<"v1", "analytics", "hourly">>, "Trend">>,
     <<<<"v1", "analytics", "daily">>, "Trend">>,
     <<<<"v1", "analytics", "weekly">>, "Trend">>,
     <<<<"v1", "analytics", "monthly">>, "Trend">>,
     <<<<"v1", "analytics", "models", "usage">>, "ModelsUsage">>,
     <<<<"v1", "analytics", "services", "usage">>, "ServicesUsage">>,
     <<<<"v1", "analytics", "cost">>, "CostReport">>}

\* A pattern matches a path of its length, segment by segment.
Match(path, pattern) ==
    /\ Len(path) = Len(pattern)
    /\ \A i \in DOMAIN pattern : pattern[i] \in {"*", path[i]}

\* The segment at a position counted from zero, "" beyond the end.
PathParam(path, index) == IF index < Len(path) THEN path[index + 1] ELSE ""

\* The handlers that copy pathParam(r, 3) into their answer.
NamesItsPath ==
    {"OrgSummary", "OrgCost", "CustomerSummary", "CustomerCost", "EndUserSummary"}

\* An answer: the handler's shape, the trend's granularity, and the id it has.
Body(handler, path, org) ==
    [shape |-> handler,
     granularity |-> IF handler = "Trend" THEN path[3]
                     ELSE IF handler = "EndUserDaily" THEN "daily" ELSE "",
     id |-> IF handler \in NamesItsPath THEN <<PathParam(path, 3)>>
            ELSE IF handler = "Trend" THEN org ELSE <<>>]

\* No answer, for a reason.
None(reason) == [shape |-> reason, granularity |-> "", id |-> <<>>]

\* The routes that match a path.
Matching(path) == {rt \in Routes : Match(path, rt[1])}

\* What the API answers to a request: the headers are not looked at.
Reply(path, query, scope) ==
    LET url == UrlPath(path)
    IN  IF Matching(url) = {} THEN None("not found")
        ELSE Body((CHOOSE rt \in Matching(url) : TRUE)[2], url, query)

-----------------------------------------------------------------------------

VARIABLES
    pc,      \* pc[r]: where the request is
    call,    \* call[r]: what was asked of the BFF
    data,    \* data[r]: the answer at hand, or the reason why there is none
    cache,   \* the cached responses in Redis, by key
    faults   \* failing Redis calls so far

vars == <<pc, call, data, cache, faults>>

NoCall == [kind |-> "none"]

Init ==
    /\ pc = [r \in Readers |-> "idle"]
    /\ call = [r \in Readers |-> NoCall]
    /\ data = [r \in Readers |-> None("none")]
    /\ cache = <<>>
    /\ faults = 0

Goto(r, place) == pc' = [pc EXCEPT ![r] = place]

\* The request ends with an answer or a reason.
Return(r, d) ==
    /\ Goto(r, "done")
    /\ data' = [data EXCEPT ![r] = d]

Fault ==
    /\ faults < MaxFaults
    /\ faults' = faults + 1

\* The cache with the response of a call, and without a key.
Stored(c, d) == [k \in DOMAIN cache \cup {CacheKey(c)} |->
                    IF k = CacheKey(c) THEN d ELSE cache[k]]
Without(k) == [j \in DOMAIN cache \ {k} |-> cache[j]]

-----------------------------------------------------------------------------

\* AuthGuard or OrgAdminGuard: no valid token, or neither SUPER_ADMIN nor
\* ORG_ADMIN among its roles.
Deny(r) ==
    /\ pc[r] = "idle"
    /\ Return(r, None("denied"))
    /\ UNCHANGED <<call, cache, faults>>

\* A controller method hands its path and query to proxyRequest, which mints a
\* token; analytics paths try the cache first.
Ask(r, c) ==
    /\ pc[r] = "idle"
    /\ call' = [call EXCEPT ![r] = c]
    /\ Goto(r, IF IsCached(PathOf(c)) THEN "get" ELSE "forward")
    /\ UNCHANGED <<data, cache, faults>>

\* GET of the cache key: a hit is the answer.
CacheGet(r) ==
    /\ pc[r] = "get"
    /\ IF CacheKey(call[r]) \in DOMAIN cache
       THEN Return(r, cache[CacheKey(call[r])])
       ELSE Goto(r, "forward") /\ UNCHANGED data
    /\ UNCHANGED <<call, cache, faults>>

\* The GET fails: the request is forwarded.
CacheGetError(r) ==
    /\ pc[r] = "get"
    /\ Fault
    /\ Goto(r, "forward")
    /\ UNCHANGED <<call, data, cache>>

\* Mutant of ApiAnswers: what is not read from the cache is cached as well.
ApiAnswersCacheAll(r) ==
    /\ pc[r] = "forward"
    /\ LET c == call[r]
           d == Reply(PathOf(c), QueryOf(c), ScopeOf(c))
       IN  IF d = None("not found")
           THEN Return(r, d)
           ELSE Goto(r, "set") /\ data' = [data EXCEPT ![r] = d]
    /\ UNCHANGED <<call, cache, faults>>

\* The API answers.  A status that is not 2xx is an exception of the client,
\* which the BFF throws on; nothing is cached.
ApiAnswers(r) ==
    /\ pc[r] = "forward"
    /\ LET c == call[r]
           d == Reply(PathOf(c), QueryOf(c), ScopeOf(c))
       IN  IF d = None("not found") \/ ~IsCached(PathOf(c))
           THEN Return(r, d)
           ELSE Goto(r, "set") /\ data' = [data EXCEPT ![r] = d]
    /\ UNCHANGED <<call, cache, faults>>

\* Mutant of GiveUp: only a refused connection ends the wait, and the API
\* accepts connections.
GiveUpNever(r) ==
    /\ pc[r] = "forward"
    /\ pc[r] = "idle"
    /\ Return(r, None("unreachable"))
    /\ UNCHANGED <<call, cache, faults>>

\* No connection, or no answer within 10 seconds: the exception is thrown on.
GiveUp(r) ==
    /\ pc[r] = "forward"
    /\ Return(r, None("unreachable"))
    /\ UNCHANGED <<call, cache, faults>>

\* SET of the cache key, then the answer.
CacheSet(r) ==
    /\ pc[r] = "set"
    /\ cache' = Stored(call[r], data[r])
    /\ Goto(r, "done")
    /\ UNCHANGED <<call, data, faults>>

\* The SET fails, maybe after Redis has executed it; the error is swallowed.
CacheSetError(r) ==
    /\ pc[r] = "set"
    /\ Fault
    /\ cache' \in {cache, Stored(call[r], data[r])}
    /\ Goto(r, "done")
    /\ UNCHANGED <<call, data>>

\* A cached response is 60 seconds old.
Expire(k) ==
    /\ k \in DOMAIN cache
    /\ cache' = Without(k)
    /\ UNCHANGED <<pc, call, data, faults>>

\* The paths of the API, with a segment of a real id for each wildcard.
ApiPaths ==
    UNION {{[i \in DOMAIN rt[1] |-> IF rt[1][i] = "*" THEN id[1] ELSE rt[1][i]]
               : id \in OrgIds} : rt \in Routes}

\* A client that is not the BFF calls the API.
Direct(r, path, query) ==
    /\ pc[r] = "idle"
    /\ Return(r, Reply(path, query, <<>>))
    /\ UNCHANGED <<call, cache, faults>>

\* Every request has been answered.
Idle ==
    /\ \A r \in Readers : pc[r] = "done"
    /\ UNCHANGED vars

\* The steps that the BFF takes by itself.
ProxyStep(r) ==
    \/ CacheGet(r)
    \/ CacheGetError(r)
    \/ GiveUp(r)
    \/ CacheSet(r)
    \/ CacheSetError(r)

Next ==
    \/ \E r \in Readers :
          \/ Deny(r)
          \/ \E c \in Calls : Ask(r, c)
          \/ ProxyStep(r)
          \/ ApiAnswers(r)
          \/ \E path \in ApiPaths, query \in OptQueryIds : Direct(r, path, query)
    \/ \E k \in DOMAIN cache : Expire(k)
    \/ Idle

\* The HTTP client has a timeout, so the BFF does not wait for the API for ever.
\* The Redis client has none: nothing says that a GET or a SET returns.
Spec == Init /\ [][Next]_vars /\ \A r \in Readers : WF_vars(GiveUp(r))

-----------------------------------------------------------------------------
(* Properties. *)

\* What a request may end with when it has no answer of the API.
Reasons == {None(reason) : reason \in {"none", "denied", "unreachable", "not found"}}

Bodies ==
    [shape : {rt[2] : rt \in Routes},
     granularity : {"", "hourly", "daily", "weekly", "monthly"},
     id : OptIds \cup {<<"summary">>, <<"cost">>}]

\* Every variable has its type; only analytics responses are cached, never an
\* error.
TypeOK ==
    /\ pc \in [Readers -> {"idle", "get", "forward", "set", "done"}]
    /\ \A r \in Readers : call[r] \in Calls \cup {NoCall}
    /\ \A r \in Readers : data[r] \in Reasons \cup Bodies
    /\ \A k \in DOMAIN cache : IsCached(k[1]) /\ cache[k] \in Bodies
    /\ faults \in 0..MaxFaults

\* Whatever other users read before or at the same time, an answer out of the
\* cache or from the API is the one the API gives to this very request, with
\* its path, its query and its headers.
AnswerIsOwn ==
    \A r \in Readers :
        (pc[r] = "done" /\ call[r] # NoCall /\ data[r] # None("unreachable")) =>
            data[r] = Reply(PathOf(call[r]), QueryOf(call[r]), ScopeOf(call[r]))

\* The handlers the routes of the BFF are named for.
OrgHandlers ==
    [summary |-> "OrgSummary", customers |-> "OrgCustomersUsage",
     models |-> "OrgModelsUsage", services |-> "OrgServicesUsage", cost |-> "OrgCost"]
AnalyticsHandlers ==
    [hourly |-> "Trend", daily |-> "Trend", weekly |-> "Trend", monthly |-> "Trend",
     models |-> "ModelsUsage", services |-> "ServicesUsage", cost |-> "CostReport"]

\* What a call is meant to get: the shape of its route, a trend in its granularity.
Meant(c) ==
    IF c.kind = "orgs" THEN <<OrgHandlers[c.route], "">>
    ELSE IF AnalyticsHandlers[c.route] = "Trend" THEN <<"Trend", c.route>>
    ELSE <<AnalyticsHandlers[c.route], "">>

\* A call whose id, if it has one, is a single segment without a '?' or '#'.
IsPlain(c) == c.kind = "orgs" => Len(c.id) = 1 /\ c.id[1] \notin DOMAIN Before

\* The two routing tables agree: whatever plain organization id a call has, the
\* API leads its path to the handler the route is named for, and to no other.
\* (An id of another form may lead to another handler, or to none.)
ForwardedIsServed ==
    \A r \in Readers :
        (/\ pc[r] = "done" /\ call[r] # NoCall /\ IsPlain(call[r])
         /\ data[r] # None("unreachable")) =>
            <<data[r].shape, data[r].granularity>> = Meant(call[r])

\* As long as Redis answers or fails every command, every request is answered,
\* also when the API never answers.
EveryReadEnds ==
    (\A r \in Readers : []<>(pc[r] \notin {"get", "set"})) =>
        \A r \in Readers : (pc[r] # "idle") ~> (pc[r] = "done")

=============================================================================
