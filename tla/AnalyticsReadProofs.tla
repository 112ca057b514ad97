-------------------------- MODULE AnalyticsReadProofs --------------------------
(***************************************************************************)
(* Proof that the response cache of the BFF never gives a request the      *)
(* answer to another, for any number of requests and organizations.        *)
(***************************************************************************)
EXTENDS AnalyticsRead, SequenceTheorems, TLAPS

\* The reply to the call of a request.
OwnReply(r) == Reply(PathOf(call[r]), QueryOf(call[r]), ScopeOf(call[r]))

\* The variables of requests are functions on the requests.
Shape ==
    /\ pc \in [Readers -> {"idle", "get", "forward", "set", "done"}]
    /\ DOMAIN call = Readers
    /\ DOMAIN data = Readers

\* A request that has not begun has no call.
NoCallYet == \A r \in Readers : pc[r] = "idle" => call[r] = NoCall

\* What is cached is the reply to its key, for whoever asks.
CacheIsReply ==
    \A k \in DOMAIN cache : \A scope : cache[k] = Reply(k[1], k[2], scope)

\* What is about to be cached is the reply to the request.
FetchedIsReply == \A r \in Readers : pc[r] = "set" => data[r] = OwnReply(r)

CacheInv ==
    /\ Shape
    /\ NoCallYet
    /\ CacheIsReply
    /\ FetchedIsReply
    /\ AnswerIsOwn

\* The API does not look at the headers.
LEMMA ScopeIsIgnored ==
    ASSUME NEW path, NEW query, NEW s1, NEW s2
    PROVE  Reply(path, query, s1) = Reply(path, query, s2)
BY DEF Reply

\* In the beginning nothing is asked, answered or cached.
LEMMA CacheInvInit == Init => CacheInv
<1> SUFFICES ASSUME Init PROVE CacheInv
  OBVIOUS
<1>1. DOMAIN cache = {}
  BY DEF Init
<1> QED BY <1>1 DEF Init, CacheInv, Shape, NoCallYet, CacheIsReply, FetchedIsReply, AnswerIsOwn

\* A response that is stored is the reply to its key.
LEMMA StoredIsReply ==
    ASSUME CacheIsReply, NEW r \in Readers, data[r] = OwnReply(r),
           cache' = Stored(call[r], data[r])
    PROVE  CacheIsReply'
<1> SUFFICES ASSUME NEW k \in DOMAIN cache', NEW scope
             PROVE  cache'[k] = Reply(k[1], k[2], scope)
  BY DEF CacheIsReply
<1>1. k \in DOMAIN cache \cup {CacheKey(call[r])}
  BY DEF Stored
<1>2. CASE k = CacheKey(call[r])
  <2>1. cache'[k] = OwnReply(r)
    BY <1>1, <1>2 DEF Stored
  <2>2. k[1] = PathOf(call[r]) /\ k[2] = QueryOf(call[r])
    BY <1>2 DEF CacheKey
  <2> QED BY <2>1, <2>2, ScopeIsIgnored DEF OwnReply
<1>3. CASE k # CacheKey(call[r])
  <2>1. k \in DOMAIN cache /\ cache'[k] = cache[k]
    BY <1>1, <1>3 DEF Stored
  <2> QED BY <2>1 DEF CacheIsReply
<1> QED BY <1>2, <1>3

\* Every step of a request, and every expiry, preserves the invariant.
LEMMA CacheInvNext == CacheInv /\ [Next]_vars => CacheInv'
<1> SUFFICES ASSUME CacheInv, [Next]_vars PROVE CacheInv'
  OBVIOUS
<1> USE DEF CacheInv
<1> USE DEF Shape, NoCallYet, FetchedIsReply, AnswerIsOwn, OwnReply, Goto, Return
<1>1. ASSUME NEW r \in Readers, Deny(r) PROVE CacheInv'
  <2>1. CacheIsReply'
    BY <1>1 DEF Deny, CacheIsReply
  <2> QED BY <1>1, <2>1 DEF Deny
<1>2. ASSUME NEW r \in Readers, NEW c \in Calls, Ask(r, c) PROVE CacheInv'
  <2>1. CacheIsReply'
    BY <1>2 DEF Ask, CacheIsReply
  <2> QED BY <1>2, <2>1 DEF Ask
<1>3. ASSUME NEW r \in Readers, CacheGet(r) PROVE CacheInv'
  <2>1. CacheIsReply'
    BY <1>3 DEF CacheGet, CacheIsReply
  <2>2. CASE CacheKey(call[r]) \in DOMAIN cache
    <3>1. cache[CacheKey(call[r])] = OwnReply(r)
      BY <2>2 DEF CacheIsReply, CacheKey
    <3> QED BY <1>3, <2>1, <2>2, <3>1 DEF CacheGet
  <2>3. CASE CacheKey(call[r]) \notin DOMAIN cache
    BY <1>3, <2>1, <2>3 DEF CacheGet
  <2> QED BY <2>2, <2>3
<1>4. ASSUME NEW r \in Readers, CacheGetError(r) PROVE CacheInv'
  <2>1. CacheIsReply'
    BY <1>4 DEF CacheGetError, CacheIsReply
  <2> QED BY <1>4, <2>1 DEF CacheGetError
<1>5. ASSUME NEW r \in Readers, ApiAnswers(r) PROVE CacheInv'
  <2>1. CacheIsReply'
    BY <1>5 DEF ApiAnswers, CacheIsReply
  <2>2. CASE Return(r, OwnReply(r))
    BY <1>5, <2>1, <2>2 DEF ApiAnswers
  <2>3. CASE Goto(r, "set") /\ data' = [data EXCEPT ![r] = OwnReply(r)]
    BY <1>5, <2>1, <2>3 DEF ApiAnswers
  <2> QED BY <1>5, <2>2, <2>3 DEF ApiAnswers
<1>6. ASSUME NEW r \in Readers, GiveUp(r) PROVE CacheInv'
  <2>1. CacheIsReply'
    BY <1>6 DEF GiveUp, CacheIsReply
  <2> QED BY <1>6, <2>1 DEF GiveUp
<1>7. ASSUME NEW r \in Readers, CacheSet(r) \/ CacheSetError(r) PROVE CacheInv'
  <2>1. CacheIsReply'
    <3>1. cache' = cache => CacheIsReply'
      BY DEF CacheIsReply
    <3>2. data[r] = OwnReply(r)
      BY <1>7 DEF CacheSet, CacheSetError
    <3> QED BY <1>7, <3>1, <3>2, StoredIsReply DEF CacheSet, CacheSetError
  <2> QED BY <1>7, <2>1 DEF CacheSet, CacheSetError
<1>8. ASSUME NEW r \in Readers, NEW path \in ApiPaths, NEW query \in OptQueryIds,
             Direct(r, path, query)
      PROVE  CacheInv'
  <2>1. CacheIsReply'
    BY <1>8 DEF Direct, CacheIsReply
  <2> QED BY <1>8, <2>1 DEF Direct
<1>9. ASSUME NEW k \in DOMAIN cache, Expire(k) PROVE CacheInv'
  <2>1. CacheIsReply'
    BY <1>9 DEF Expire, Without, CacheIsReply
  <2> QED BY <1>9, <2>1 DEF Expire
<1>10. CASE UNCHANGED vars
  BY <1>10 DEF vars, CacheIsReply
<1> QED BY <1>1, <1>2, <1>3, <1>4, <1>5, <1>6, <1>7, <1>8, <1>9, <1>10
        DEF Next, ProxyStep, Idle

\* Whatever other requests read, fetch, cache or fail to cache, and whenever
\* responses expire, the BFF answers a request with the API's reply to it.
THEOREM AnswersAreOwn == Spec => []AnswerIsOwn
<1>1. CacheInv => AnswerIsOwn
  BY DEF CacheInv
<1> QED BY <1>1, CacheInvInit, CacheInvNext, PTL DEF Spec

-----------------------------------------------------------------------------
(***************************************************************************)
(* The two routing tables agree.                                           *)
(***************************************************************************)

\* Short paths put together.
LEMMA Concat31 ==
    ASSUME NEW a, NEW b, NEW c, NEW d
    PROVE  <<a, b, c>> \o <<d>> = <<a, b, c, d>>
<1> DEFINE s == <<a, b, c>> \o <<d>>
           t == <<a, b, c, d>>
<1>1. s \in Seq({a, b, c, d}) /\ t \in Seq({a, b, c, d})
  OBVIOUS
<1>2. Len(s) = 4 /\ s[1] = a /\ s[2] = b /\ s[3] = c /\ s[4] = d
  OBVIOUS
<1>3. Len(t) = 4 /\ t[1] = a /\ t[2] = b /\ t[3] = c /\ t[4] = d
  OBVIOUS
<1> HIDE DEF s, t
<1>4. \A i \in 1..Len(s) : s[i] = t[i]
  BY <1>2, <1>3
<1>5. s = t
  BY <1>1, <1>2, <1>3, <1>4, SeqEqual
<1> QED BY <1>5 DEF s, t

LEMMA Concat32 ==
    ASSUME NEW a, NEW b, NEW c, NEW d, NEW e
    PROVE  <<a, b, c>> \o <<d, e>> = <<a, b, c, d, e>>
<1> DEFINE s == <<a, b, c>> \o <<d, e>>
           t == <<a, b, c, d, e>>
<1>1. s \in Seq({a, b, c, d, e}) /\ t \in Seq({a, b, c, d, e})
  OBVIOUS
<1>2. Len(s) = 5 /\ s[1] = a /\ s[2] = b /\ s[3] = c /\ s[4] = d /\ s[5] = e
  OBVIOUS
<1>3. Len(t) = 5 /\ t[1] = a /\ t[2] = b /\ t[3] = c /\ t[4] = d /\ t[5] = e
  OBVIOUS
<1> HIDE DEF s, t
<1>4. \A i \in 1..Len(s) : s[i] = t[i]
  BY <1>2, <1>3
<1>5. s = t
  BY <1>1, <1>2, <1>3, <1>4, SeqEqual
<1> QED BY <1>5 DEF s, t

LEMMA Concat21 ==
    ASSUME NEW a, NEW b, NEW c
    PROVE  <<a, b>> \o <<c>> = <<a, b, c>>
<1> DEFINE s == <<a, b>> \o <<c>>
           t == <<a, b, c>>
<1>1. s \in Seq({a, b, c}) /\ t \in Seq({a, b, c})
  OBVIOUS
<1>2. Len(s) = 3 /\ s[1] = a /\ s[2] = b /\ s[3] = c
  OBVIOUS
<1>3. Len(t) = 3 /\ t[1] = a /\ t[2] = b /\ t[3] = c
  OBVIOUS
<1> HIDE DEF s, t
<1>4. \A i \in 1..Len(s) : s[i] = t[i]
  BY <1>2, <1>3
<1>5. s = t
  BY <1>1, <1>2, <1>3, <1>4, SeqEqual
<1> QED BY <1>5 DEF s, t

LEMMA Concat22 ==
    ASSUME NEW a, NEW b, NEW c, NEW d
    PROVE  <<a, b>> \o <<c, d>> = <<a, b, c, d>>
<1> DEFINE s == <<a, b>> \o <<c, d>>
           t == <<a, b, c, d>>
<1>1. s \in Seq({a, b, c, d}) /\ t \in Seq({a, b, c, d})
  OBVIOUS
<1>2. Len(s) = 4 /\ s[1] = a /\ s[2] = b /\ s[3] = c /\ s[4] = d
  OBVIOUS
<1>3. Len(t) = 4 /\ t[1] = a /\ t[2] = b /\ t[3] = c /\ t[4] = d
  OBVIOUS
<1> HIDE DEF s, t
<1>4. \A i \in 1..Len(s) : s[i] = t[i]
  BY <1>2, <1>3
<1>5. s = t
  BY <1>1, <1>2, <1>3, <1>4, SeqEqual
<1> QED BY <1>5 DEF s, t

\* A path without a '?' or '#' is the path of its URL.
LEMMA UncutUrl ==
    ASSUME NEW path, \A i \in DOMAIN path : path[i] \notin DOMAIN Before
    PROVE  UrlPath(path) = path
BY DEF UrlPath

\* No word of a route has one.
LEMMA WordsUncut == ASSUME NEW w \in Words PROVE w \notin DOMAIN Before
BY ReadAssumption

\* A plain id is the sequence of its one segment.
LEMMA PlainId ==
    ASSUME NEW c \in OrgCalls, IsPlain(c)
    PROVE  c.id = <<c.id[1]>> /\ c.id[1] \notin DOMAIN Before /\ c.kind = "orgs"
<1>1. c.kind = "orgs" /\ c.id \in OrgIds
  BY DEF OrgCalls
<1>2. c.id \in Seq(STRING)
  BY <1>1, ReadAssumption
<1>3. Len(c.id) = 1 /\ c.id[1] \notin DOMAIN Before
  BY <1>1 DEF IsPlain
<1>4. c.id = <<c.id[1]>>
  <2> DEFINE t == <<c.id[1]>>
  <2>1. t \in Seq(STRING) /\ Len(t) = 1 /\ t[1] = c.id[1]
    BY <1>2, <1>3
  <2>2. \A i \in 1..Len(c.id) : c.id[i] = t[i]
    BY <1>3, <2>1
  <2> HIDE DEF t
  <2>3. c.id = t
    BY <1>2, <1>3, <2>1, <2>2, SeqEqual
  <2> QED BY <2>3 DEF t
<1> QED BY <1>1, <1>3, <1>4

\* The path of a call, by its route.
LEMMA OrgPath ==
    ASSUME NEW c \in OrgCalls, IsPlain(c)
    PROVE  /\ c.kind = "orgs"
           /\ \/ c.route = "summary" /\ PathOf(c) = <<"v1", "orgs", c.id[1], "summary">>
              \/ c.route = "customers" /\ PathOf(c) = <<"v1", "orgs", c.id[1], "customers", "usage">>
              \/ c.route = "models" /\ PathOf(c) = <<"v1", "orgs", c.id[1], "models", "usage">>
              \/ c.route = "services" /\ PathOf(c) = <<"v1", "orgs", c.id[1], "services", "usage">>
              \/ c.route = "cost" /\ PathOf(c) = <<"v1", "orgs", c.id[1], "cost">>
<1>1. c.kind = "orgs" /\ c.route \in {"summary", "customers", "models", "services", "cost"}
  BY DEF OrgCalls, OrgTails
<1>2. PathOf(c) = <<"v1", "orgs", c.id[1]>> \o OrgTails[c.route]
  <2>1. c.id = <<c.id[1]>>
    BY PlainId
  <2>2. PathOf(c) = <<"v1", "orgs">> \o c.id \o OrgTails[c.route]
    BY <1>1 DEF PathOf
  <2>3. <<"v1", "orgs">> \o <<c.id[1]>> = <<"v1", "orgs", c.id[1]>>
    BY Concat21
  <2> QED BY <2>1, <2>2, <2>3
<1>3. CASE c.route = "summary"
  <2>1. PathOf(c) = <<"v1", "orgs", c.id[1]>> \o <<"summary">>
    BY <1>2, <1>3 DEF OrgTails
  <2>2. <<"v1", "orgs", c.id[1]>> \o <<"summary">> = <<"v1", "orgs", c.id[1], "summary">>
    BY Concat31
  <2> QED BY <1>1, <1>3, <2>1, <2>2
<1>4. CASE c.route = "customers"
  <2>1. PathOf(c) = <<"v1", "orgs", c.id[1]>> \o <<"customers", "usage">>
    BY <1>2, <1>4 DEF OrgTails
  <2>2. <<"v1", "orgs", c.id[1]>> \o <<"customers", "usage">> = <<"v1", "orgs", c.id[1], "customers", "usage">>
    BY Concat32
  <2> QED BY <1>1, <1>4, <2>1, <2>2
<1>5. CASE c.route = "models"
  <2>1. PathOf(c) = <<"v1", "orgs", c.id[1]>> \o <<"models", "usage">>
    BY <1>2, <1>5 DEF OrgTails
  <2>2. <<"v1", "orgs", c.id[1]>> \o <<"models", "usage">> = <<"v1", "orgs", c.id[1], "models", "usage">>
    BY Concat32
  <2> QED BY <1>1, <1>5, <2>1, <2>2
<1>6. CASE c.route = "services"
  <2>1. PathOf(c) = <<"v1", "orgs", c.id[1]>> \o <<"services", "usage">>
    BY <1>2, <1>6 DEF OrgTails
  <2>2. <<"v1", "orgs", c.id[1]>> \o <<"services", "usage">> = <<"v1", "orgs", c.id[1], "services", "usage">>
    BY Concat32
  <2> QED BY <1>1, <1>6, <2>1, <2>2
<1>7. CASE c.route = "cost"
  <2>1. PathOf(c) = <<"v1", "orgs", c.id[1]>> \o <<"cost">>
    BY <1>2, <1>7 DEF OrgTails
  <2>2. <<"v1", "orgs", c.id[1]>> \o <<"cost">> = <<"v1", "orgs", c.id[1], "cost">>
    BY Concat31
  <2> QED BY <1>1, <1>7, <2>1, <2>2
<1> QED BY <1>1, <1>3, <1>4, <1>5, <1>6, <1>7

LEMMA AnalyticsPath ==
    ASSUME NEW c \in AnalyticsCalls
    PROVE  /\ c.kind = "analytics"
           /\ \/ c.route = "hourly" /\ PathOf(c) = <<"v1", "analytics", "hourly">>
              \/ c.route = "daily" /\ PathOf(c) = <<"v1", "analytics", "daily">>
              \/ c.route = "weekly" /\ PathOf(c) = <<"v1", "analytics", "weekly">>
              \/ c.route = "monthly" /\ PathOf(c) = <<"v1", "analytics", "monthly">>
              \/ c.route = "models" /\ PathOf(c) = <<"v1", "analytics", "models", "usage">>
              \/ c.route = "services" /\ PathOf(c) = <<"v1", "analytics", "services", "usage">>
              \/ c.route = "cost" /\ PathOf(c) = <<"v1", "analytics", "cost">>
<1>1. /\ c.kind = "analytics"
      /\ c.route \in {"hourly", "daily", "weekly", "monthly", "models", "services", "cost"}
  BY DEF AnalyticsCalls, AnalyticsTails
<1>2. PathOf(c) = <<"v1", "analytics">> \o AnalyticsTails[c.route]
  BY <1>1 DEF PathOf
<1>3. CASE c.route = "hourly"
  <2>1. PathOf(c) = <<"v1", "analytics">> \o <<"hourly">>
    BY <1>2, <1>3 DEF AnalyticsTails
  <2>2. <<"v1", "analytics">> \o <<"hourly">> = <<"v1", "analytics", "hourly">>
    BY Concat21
  <2> QED BY <1>1, <1>3, <2>1, <2>2
<1>4. CASE c.route = "daily"
  <2>1. PathOf(c) = <<"v1", "analytics">> \o <<"daily">>
    BY <1>2, <1>4 DEF AnalyticsTails
  <2>2. <<"v1", "analytics">> \o <<"daily">> = <<"v1", "analytics", "daily">>
    BY Concat21
  <2> QED BY <1>1, <1>4, <2>1, <2>2
<1>5. CASE c.route = "weekly"
  <2>1. PathOf(c) = <<"v1", "analytics">> \o <<"weekly">>
    BY <1>2, <1>5 DEF AnalyticsTails
  <2>2. <<"v1", "analytics">> \o <<"weekly">> = <<"v1", "analytics", "weekly">>
    BY Concat21
  <2> QED BY <1>1, <1>5, <2>1, <2>2
<1>6. CASE c.route = "monthly"
  <2>1. PathOf(c) = <<"v1", "analytics">> \o <<"monthly">>
    BY <1>2, <1>6 DEF AnalyticsTails
  <2>2. <<"v1", "analytics">> \o <<"monthly">> = <<"v1", "analytics", "monthly">>
    BY Concat21
  <2> QED BY <1>1, <1>6, <2>1, <2>2
<1>7. CASE c.route = "models"
  <2>1. PathOf(c) = <<"v1", "analytics">> \o <<"models", "usage">>
    BY <1>2, <1>7 DEF AnalyticsTails
  <2>2. <<"v1", "analytics">> \o <<"models", "usage">> = <<"v1", "analytics", "models", "usage">>
    BY Concat22
  <2> QED BY <1>1, <1>7, <2>1, <2>2
<1>8. CASE c.route = "services"
  <2>1. PathOf(c) = <<"v1", "analytics">> \o <<"services", "usage">>
    BY <1>2, <1>8 DEF AnalyticsTails
  <2>2. <<"v1", "analytics">> \o <<"services", "usage">> = <<"v1", "analytics", "services", "usage">>
    BY Concat22
  <2> QED BY <1>1, <1>8, <2>1, <2>2
<1>9. CASE c.route = "cost"
  <2>1. PathOf(c) = <<"v1", "analytics">> \o <<"cost">>
    BY <1>2, <1>9 DEF AnalyticsTails
  <2>2. <<"v1", "analytics">> \o <<"cost">> = <<"v1", "analytics", "cost">>
    BY Concat21
  <2> QED BY <1>1, <1>9, <2>1, <2>2
<1> QED BY <1>1, <1>3, <1>4, <1>5, <1>6, <1>7, <1>8, <1>9

\* A reply is that of a route that matches the path of the URL, if there is one.
LEMMA ReplyIsOfRoute ==
    ASSUME NEW path, NEW query, NEW scope, NEW rt \in Routes, Match(UrlPath(path), rt[1])
    PROVE  \E m \in Routes :
              /\ Match(UrlPath(path), m[1])
              /\ Reply(path, query, scope) = Body(m[2], UrlPath(path), query)
<1> DEFINE url == UrlPath(path)
           chosen == CHOOSE m \in Matching(url) : TRUE
<1>1. rt \in Matching(url)
  BY DEF Matching
<1>2. chosen \in Matching(url)
  BY <1>1
<1>3. Reply(path, query, scope) = Body(chosen[2], url, query)
  BY <1>1 DEF Reply
<1>4. chosen \in Routes /\ Match(url, chosen[1])
  BY <1>2 DEF Matching
<1> HIDE DEF chosen
<1> QED BY <1>3, <1>4

\* The reply to a path that one kind of route alone matches.
LEMMA ReplyOfOnly ==
    ASSUME NEW path, NEW query, NEW scope, NEW handler, NEW rt \in Routes,
           UrlPath(path) = path, Match(path, rt[1]),
           \A m \in Routes : Match(path, m[1]) => m[2] = handler
    PROVE  Reply(path, query, scope) = Body(handler, path, query)
<1>1. PICK m \in Routes : /\ Match(path, m[1])
                          /\ Reply(path, query, scope) = Body(m[2], path, query)
  BY ReplyIsOfRoute
<1> QED BY <1>1

\* Every organization route is answered by the handler it is named for, whatever
\* plain organization id it has.
LEMMA OrgCallServed ==
    ASSUME NEW c \in OrgCalls, IsPlain(c), NEW query, NEW scope
    PROVE  LET d == Reply(PathOf(c), query, scope)
           IN  <<d.shape, d.granularity>> = Meant(c)
<1>0. c.id[1] \notin DOMAIN Before /\ \A w \in Words : w \notin DOMAIN Before
  BY PlainId, WordsUncut
<1>1. /\ c.kind = "orgs"
      /\ \/ c.route = "summary" /\ PathOf(c) = <<"v1", "orgs", c.id[1], "summary">>
         \/ c.route = "customers" /\ PathOf(c) = <<"v1", "orgs", c.id[1], "customers", "usage">>
         \/ c.route = "models" /\ PathOf(c) = <<"v1", "orgs", c.id[1], "models", "usage">>
         \/ c.route = "services" /\ PathOf(c) = <<"v1", "orgs", c.id[1], "services", "usage">>
         \/ c.route = "cost" /\ PathOf(c) = <<"v1", "orgs", c.id[1], "cost">>
  BY OrgPath
<1>2. CASE c.route = "summary"
  <2> DEFINE path == <<"v1", "orgs", c.id[1], "summary">>
             rt == <<<<"v1", "orgs", "*", "summary">>, "OrgSummary">>
  <2>0. UrlPath(path) = path
    BY <1>0, UncutUrl DEF Words
  <2>1. rt \in Routes /\ Match(path, rt[1])
    BY DEF Routes, Match
  <2>2. \A m \in Routes : Match(path, m[1]) => m[2] = "OrgSummary"
    BY DEF Routes, Match
  <2>3. PathOf(c) = path /\ Meant(c) = <<"OrgSummary", "">>
    BY <1>1, <1>2 DEF Meant, OrgHandlers
  <2> HIDE DEF path, rt
  <2>4. Reply(path, query, scope) = Body("OrgSummary", path, query)
    BY <2>0, <2>1, <2>2, ReplyOfOnly
  <2>5. /\ Body("OrgSummary", path, query).shape = "OrgSummary"
        /\ Body("OrgSummary", path, query).granularity = ""
    BY DEF Body
  <2> QED BY <2>3, <2>4, <2>5
<1>3. CASE c.route = "customers"
  <2> DEFINE path == <<"v1", "orgs", c.id[1], "customers", "usage">>
             rt == <<<<"v1", "orgs", "*", "customers", "usage">>, "OrgCustomersUsage">>
  <2>0. UrlPath(path) = path
    BY <1>0, UncutUrl DEF Words
  <2>1. rt \in Routes /\ Match(path, rt[1])
    BY DEF Routes, Match
  <2>2. \A m \in Routes : Match(path, m[1]) => m[2] = "OrgCustomersUsage"
    BY DEF Routes, Match
  <2>3. PathOf(c) = path /\ Meant(c) = <<"OrgCustomersUsage", "">>
    BY <1>1, <1>3 DEF Meant, OrgHandlers
  <2> HIDE DEF path, rt
  <2>4. Reply(path, query, scope) = Body("OrgCustomersUsage", path, query)
    BY <2>0, <2>1, <2>2, ReplyOfOnly
  <2>5. /\ Body("OrgCustomersUsage", path, query).shape = "OrgCustomersUsage"
        /\ Body("OrgCustomersUsage", path, query).granularity = ""
    BY DEF Body
  <2> QED BY <2>3, <2>4, <2>5
<1>4. CASE c.route = "models"
  <2> DEFINE path == <<"v1", "orgs", c.id[1], "models", "usage">>
             rt == <<<<"v1", "orgs", "*", "models", "usage">>, "OrgModelsUsage">>
  <2>0. UrlPath(path) = path
    BY <1>0, UncutUrl DEF Words
  <2>1. rt \in Routes /\ Match(path, rt[1])
    BY DEF Routes, Match
  <2>2. \A m \in Routes : Match(path, m[1]) => m[2] = "OrgModelsUsage"
    BY DEF Routes, Match
  <2>3. PathOf(c) = path /\ Meant(c) = <<"OrgModelsUsage", "">>
    BY <1>1, <1>4 DEF Meant, OrgHandlers
  <2> HIDE DEF path, rt
  <2>4. Reply(path, query, scope) = Body("OrgModelsUsage", path, query)
    BY <2>0, <2>1, <2>2, ReplyOfOnly
  <2>5. /\ Body("OrgModelsUsage", path, query).shape = "OrgModelsUsage"
        /\ Body("OrgModelsUsage", path, query).granularity = ""
    BY DEF Body
  <2> QED BY <2>3, <2>4, <2>5
<1>5. CASE c.route = "services"
  <2> DEFINE path == <<"v1", "orgs", c.id[1], "services", "usage">>
             rt == <<<<"v1", "orgs", "*", "services", "usage">>, "OrgServicesUsage">>
  <2>0. UrlPath(path) = path
    BY <1>0, UncutUrl DEF Words
  <2>1. rt \in Routes /\ Match(path, rt[1])
    BY DEF Routes, Match
  <2>2. \A m \in Routes : Match(path, m[1]) => m[2] = "OrgServicesUsage"
    BY DEF Routes, Match
  <2>3. PathOf(c) = path /\ Meant(c) = <<"OrgServicesUsage", "">>
    BY <1>1, <1>5 DEF Meant, OrgHandlers
  <2> HIDE DEF path, rt
  <2>4. Reply(path, query, scope) = Body("OrgServicesUsage", path, query)
    BY <2>0, <2>1, <2>2, ReplyOfOnly
  <2>5. /\ Body("OrgServicesUsage", path, query).shape = "OrgServicesUsage"
        /\ Body("OrgServicesUsage", path, query).granularity = ""
    BY DEF Body
  <2> QED BY <2>3, <2>4, <2>5
<1>6. CASE c.route = "cost"
  <2> DEFINE path == <<"v1", "orgs", c.id[1], "cost">>
             rt == <<<<"v1", "orgs", "*", "cost">>, "OrgCost">>
  <2>0. UrlPath(path) = path
    BY <1>0, UncutUrl DEF Words
  <2>1. rt \in Routes /\ Match(path, rt[1])
    BY DEF Routes, Match
  <2>2. \A m \in Routes : Match(path, m[1]) => m[2] = "OrgCost"
    BY DEF Routes, Match
  <2>3. PathOf(c) = path /\ Meant(c) = <<"OrgCost", "">>
    BY <1>1, <1>6 DEF Meant, OrgHandlers
  <2> HIDE DEF path, rt
  <2>4. Reply(path, query, scope) = Body("OrgCost", path, query)
    BY <2>0, <2>1, <2>2, ReplyOfOnly
  <2>5. /\ Body("OrgCost", path, query).shape = "OrgCost"
        /\ Body("OrgCost", path, query).granularity = ""
    BY DEF Body
  <2> QED BY <2>3, <2>4, <2>5
<1> QED BY <1>1, <1>2, <1>3, <1>4, <1>5, <1>6

\* So is every analytics route, with the granularity that a trend is asked in.
LEMMA AnalyticsCallServed ==
    ASSUME NEW c \in AnalyticsCalls, NEW query, NEW scope
    PROVE  LET d == Reply(PathOf(c), query, scope)
           IN  <<d.shape, d.granularity>> = Meant(c)
<1>0. \A w \in Words : w \notin DOMAIN Before
  BY WordsUncut
<1>1. /\ c.kind = "analytics"
      /\ \/ c.route = "hourly" /\ PathOf(c) = <<"v1", "analytics", "hourly">>
         \/ c.route = "daily" /\ PathOf(c) = <<"v1", "analytics", "daily">>
         \/ c.route = "weekly" /\ PathOf(c) = <<"v1", "analytics", "weekly">>
         \/ c.route = "monthly" /\ PathOf(c) = <<"v1", "analytics", "monthly">>
         \/ c.route = "models" /\ PathOf(c) = <<"v1", "analytics", "models", "usage">>
         \/ c.route = "services" /\ PathOf(c) = <<"v1", "analytics", "services", "usage">>
         \/ c.route = "cost" /\ PathOf(c) = <<"v1", "analytics", "cost">>
  BY AnalyticsPath
<1>2. CASE c.route \in {"hourly", "daily", "weekly", "monthly"}
  <2> DEFINE path == <<"v1", "analytics", c.route>>
             rt == <<path, "Trend">>
  <2>0. UrlPath(path) = path
    BY <1>0, <1>2, UncutUrl DEF Words
  <2>1. rt \in Routes /\ Match(path, rt[1])
    BY <1>2 DEF Routes, Match
  <2>2. \A m \in Routes : Match(path, m[1]) => m[2] = "Trend"
    BY <1>2 DEF Routes, Match
  <2>3. PathOf(c) = path /\ Meant(c) = <<"Trend", c.route>>
    <3>1. AnalyticsHandlers[c.route] = "Trend"
      BY <1>2 DEF AnalyticsHandlers
    <3> QED BY <1>1, <1>2, <3>1 DEF Meant
  <2>4. /\ Body("Trend", path, query).shape = "Trend"
        /\ Body("Trend", path, query).granularity = c.route
    BY DEF Body
  <2> HIDE DEF path, rt
  <2>5. Reply(path, query, scope) = Body("Trend", path, query)
    BY <2>0, <2>1, <2>2, ReplyOfOnly
  <2> QED BY <2>3, <2>4, <2>5
<1>3. CASE c.route = "models"
  <2> DEFINE path == <<"v1", "analytics", "models", "usage">>
             rt == <<path, "ModelsUsage">>
  <2>0. UrlPath(path) = path
    BY <1>0, UncutUrl DEF Words
  <2>1. rt \in Routes /\ Match(path, rt[1])
    BY DEF Routes, Match
  <2>2. \A m \in Routes : Match(path, m[1]) => m[2] = "ModelsUsage"
    BY DEF Routes, Match
  <2>3. PathOf(c) = path /\ Meant(c) = <<"ModelsUsage", "">>
    <3>1. AnalyticsHandlers[c.route] = "ModelsUsage"
      BY <1>3 DEF AnalyticsHandlers
    <3> QED BY <1>1, <1>3, <3>1 DEF Meant
  <2> HIDE DEF path, rt
  <2>4. Reply(path, query, scope) = Body("ModelsUsage", path, query)
    BY <2>0, <2>1, <2>2, ReplyOfOnly
  <2>5. /\ Body("ModelsUsage", path, query).shape = "ModelsUsage"
        /\ Body("ModelsUsage", path, query).granularity = ""
    BY DEF Body
  <2> QED BY <2>3, <2>4, <2>5
<1>4. CASE c.route = "services"
  <2> DEFINE path == <<"v1", "analytics", "services", "usage">>
             rt == <<path, "ServicesUsage">>
  <2>0. UrlPath(path) = path
    BY <1>0, UncutUrl DEF Words
  <2>1. rt \in Routes /\ Match(path, rt[1])
    BY DEF Routes, Match
  <2>2. \A m \in Routes : Match(path, m[1]) => m[2] = "ServicesUsage"
    BY DEF Routes, Match
  <2>3. PathOf(c) = path /\ Meant(c) = <<"ServicesUsage", "">>
    <3>1. AnalyticsHandlers[c.route] = "ServicesUsage"
      BY <1>4 DEF AnalyticsHandlers
    <3> QED BY <1>1, <1>4, <3>1 DEF Meant
  <2> HIDE DEF path, rt
  <2>4. Reply(path, query, scope) = Body("ServicesUsage", path, query)
    BY <2>0, <2>1, <2>2, ReplyOfOnly
  <2>5. /\ Body("ServicesUsage", path, query).shape = "ServicesUsage"
        /\ Body("ServicesUsage", path, query).granularity = ""
    BY DEF Body
  <2> QED BY <2>3, <2>4, <2>5
<1>5. CASE c.route = "cost"
  <2> DEFINE path == <<"v1", "analytics", "cost">>
             rt == <<path, "CostReport">>
  <2>0. UrlPath(path) = path
    BY <1>0, UncutUrl DEF Words
  <2>1. rt \in Routes /\ Match(path, rt[1])
    BY DEF Routes, Match
  <2>2. \A m \in Routes : Match(path, m[1]) => m[2] = "CostReport"
    BY DEF Routes, Match
  <2>3. PathOf(c) = path /\ Meant(c) = <<"CostReport", "">>
    <3>1. AnalyticsHandlers[c.route] = "CostReport"
      BY <1>5 DEF AnalyticsHandlers
    <3> QED BY <1>1, <1>5, <3>1 DEF Meant
  <2> HIDE DEF path, rt
  <2>4. Reply(path, query, scope) = Body("CostReport", path, query)
    BY <2>0, <2>1, <2>2, ReplyOfOnly
  <2>5. /\ Body("CostReport", path, query).shape = "CostReport"
        /\ Body("CostReport", path, query).granularity = ""
    BY DEF Body
  <2> QED BY <2>3, <2>4, <2>5
<1> QED BY <1>1, <1>2, <1>3, <1>4, <1>5

\* What the API replies to any path: an answer, or "not found".
LEMMA ReplyType ==
    ASSUME NEW path, NEW query \in OptIds, NEW scope
    PROVE  Reply(path, query, scope) \in Bodies \cup {None("not found")}
<1>1. CASE \A rt \in Routes : ~Match(UrlPath(path), rt[1])
  BY <1>1 DEF Reply, Matching
<1>2. CASE \E rt \in Routes : Match(UrlPath(path), rt[1])
  <2> DEFINE url == UrlPath(path)
  <2>1. PICK m \in Routes : /\ Match(url, m[1])
                            /\ Reply(path, query, scope) = Body(m[2], url, query)
    BY <1>2, ReplyIsOfRoute
  <2> HIDE DEF url
  <2> DEFINE h == m[2]
             g == IF h = "Trend" THEN url[3] ELSE IF h = "EndUserDaily" THEN "daily" ELSE ""
             i == IF h \in NamesItsPath THEN <<PathParam(url, 3)>>
                  ELSE IF h = "Trend" THEN query ELSE <<>>
  <2>2. h = "Trend" => url[3] \in {"hourly", "daily", "weekly", "monthly"}
    BY <2>1 DEF Routes, Match
  <2>3. h \in NamesItsPath => Len(url) = 4 /\ url[4] \in {"summary", "cost"}
    BY <2>1 DEF Routes, Match, NamesItsPath
  <2>4. h \in {rt[2] : rt \in Routes}
    OBVIOUS
  <2>5. g \in {"", "hourly", "daily", "weekly", "monthly"}
    BY <2>2
  <2>6. h \in NamesItsPath => PathParam(url, 3) \in {"summary", "cost"}
    BY <2>3 DEF PathParam
  <2>7. i \in OptIds \cup {<<"summary">>, <<"cost">>}
    BY <2>6 DEF OptIds, OptQueryIds
  <2>8. Body(h, url, query) = [shape |-> h, granularity |-> g, id |-> i]
    BY DEF Body
  <2> HIDE DEF h, g, i
  <2>9. Body(h, url, query) \in Bodies
    <3> DEFINE H == {rt[2] : rt \in Routes}
               G == {"", "hourly", "daily", "weekly", "monthly"}
               J == OptIds \cup {<<"summary">>, <<"cost">>}
    <3>1. h \in H /\ g \in G /\ i \in J
      BY <2>4, <2>5, <2>7
    <3>2. Bodies = [shape : H, granularity : G, id : J]
      BY DEF Bodies
    <3> HIDE DEF H, G, J
    <3>3. [shape |-> h, granularity |-> g, id |-> i] \in [shape : H, granularity : G, id : J]
      BY <3>1
    <3> QED BY <2>8, <3>2, <3>3
  <2> QED BY <2>1, <2>9 DEF h
<1> QED BY <1>1, <1>2

\* The query a call is forwarded with, and the answers that are none.
LEMMA QueryType == ASSUME NEW c \in Calls PROVE QueryOf(c) \in OptIds
BY DEF Calls, OrgCalls, AnalyticsCalls, QueryOf, OptIds

LEMMA ReasonType ==
    /\ None("none") \in Reasons /\ None("denied") \in Reasons
    /\ None("unreachable") \in Reasons /\ None("not found") \in Reasons
BY DEF Reasons

\* A request past the controller has a call, and what it is about to cache is an
\* answer to a path that is cached.
InProgress ==
    \A r \in Readers :
        /\ pc[r] \in {"get", "forward", "set"} => call[r] \in Calls
        /\ pc[r] = "set" => data[r] \in Bodies /\ IsCached(PathOf(call[r]))

TypeInv ==
    /\ DOMAIN call = Readers
    /\ DOMAIN data = Readers
    /\ TypeOK
    /\ InProgress

\* What is stored in the cache is an answer, under the key of a cached path.
LEMMA StoredType ==
    ASSUME TypeInv, NEW r \in Readers, pc[r] = "set", cache' = Stored(call[r], data[r])
    PROVE  \A k \in DOMAIN cache' : IsCached(k[1]) /\ cache'[k] \in Bodies
<1> SUFFICES ASSUME NEW k \in DOMAIN cache' PROVE IsCached(k[1]) /\ cache'[k] \in Bodies
  OBVIOUS
<1>1. k \in DOMAIN cache \cup {CacheKey(call[r])}
  BY DEF Stored
<1>2. CASE k = CacheKey(call[r])
  <2>1. k[1] = PathOf(call[r])
    BY <1>2 DEF CacheKey
  <2>2. cache'[k] = data[r]
    BY <1>1, <1>2 DEF Stored
  <2> QED BY <2>1, <2>2 DEF TypeInv, InProgress
<1>3. CASE k # CacheKey(call[r])
  <2>1. k \in DOMAIN cache /\ cache'[k] = cache[k]
    BY <1>1, <1>3 DEF Stored
  <2> QED BY <2>1 DEF TypeInv, TypeOK
<1> QED BY <1>2, <1>3

\* The bound on faults.
LEMMA BoundType == MaxFaults \in Nat
BY ReadAssumption

\* Every step keeps the types.
LEMMA TypeInvNext == TypeInv /\ [Next]_vars => TypeInv'
<1> SUFFICES ASSUME TypeInv, [Next]_vars PROVE TypeInv'
  OBVIOUS
<1>0. Fault => faults' \in 0..MaxFaults
  BY BoundType DEF TypeInv, TypeOK, Fault
<1> USE ReasonType DEF TypeInv, TypeOK, InProgress, Goto, Return
<1>1. ASSUME NEW r \in Readers, Deny(r) PROVE TypeInv'
  BY <1>1 DEF Deny
<1>2. ASSUME NEW r \in Readers, NEW c \in Calls, Ask(r, c) PROVE TypeInv'
  BY <1>2 DEF Ask
<1>3. ASSUME NEW r \in Readers, CacheGet(r) PROVE TypeInv'
  BY <1>3 DEF CacheGet
<1>4. ASSUME NEW r \in Readers, CacheGetError(r) PROVE TypeInv'
  BY <1>0, <1>4 DEF CacheGetError
<1>5. ASSUME NEW r \in Readers, ApiAnswers(r) PROVE TypeInv'
  <2> DEFINE d == Reply(PathOf(call[r]), QueryOf(call[r]), ScopeOf(call[r]))
  <2>1. d \in Bodies \cup {None("not found")}
    <3>1. QueryOf(call[r]) \in OptIds
      BY <1>5, QueryType DEF ApiAnswers
    <3> QED BY <3>1, ReplyType
  <2>2. \/ Return(r, d)
        \/ /\ Goto(r, "set") /\ data' = [data EXCEPT ![r] = d]
           /\ d \in Bodies /\ IsCached(PathOf(call[r]))
    BY <1>5, <2>1 DEF ApiAnswers
  <2>3. call[r] \in Calls /\ UNCHANGED <<call, cache, faults>>
    BY <1>5 DEF ApiAnswers
  <2> HIDE DEF d
  <2>4. CASE Return(r, d)
    <3>1. d \in Reasons \cup Bodies
      BY <2>1
    <3> QED BY <2>3, <2>4, <3>1
  <2>5. CASE /\ Goto(r, "set") /\ data' = [data EXCEPT ![r] = d]
             /\ d \in Bodies /\ IsCached(PathOf(call[r]))
    BY <2>3, <2>5
  <2> QED BY <2>2, <2>4, <2>5
<1>6. ASSUME NEW r \in Readers, GiveUp(r) PROVE TypeInv'
  BY <1>6 DEF GiveUp
<1>7. ASSUME NEW r \in Readers, CacheSet(r) \/ CacheSetError(r) PROVE TypeInv'
  <2>1. \A k \in DOMAIN cache' : IsCached(k[1]) /\ cache'[k] \in Bodies
    <3>1. pc[r] = "set" /\ cache' \in {cache, Stored(call[r], data[r])}
      BY <1>7 DEF CacheSet, CacheSetError
    <3> QED BY <3>1, StoredType
  <2>2. /\ pc' = [pc EXCEPT ![r] = "done"] /\ UNCHANGED <<call, data>>
        /\ faults' \in 0..MaxFaults
    BY <1>0, <1>7 DEF CacheSet, CacheSetError
  <2> QED BY <2>1, <2>2
<1>8. ASSUME NEW r \in Readers, NEW path \in ApiPaths, NEW query \in OptQueryIds,
             Direct(r, path, query)
      PROVE  TypeInv'
  <2>1. Reply(path, query, <<>>) \in Bodies \cup Reasons
    BY ReplyType DEF OptIds
  <2> QED BY <1>8, <2>1 DEF Direct
<1>9. ASSUME NEW k \in DOMAIN cache, Expire(k) PROVE TypeInv'
  BY <1>9 DEF Expire, Without
<1>10. CASE UNCHANGED vars
  BY <1>10 DEF vars
<1> QED BY <1>1, <1>2, <1>3, <1>4, <1>5, <1>6, <1>7, <1>8, <1>9, <1>10
        DEF Next, ProxyStep, Idle

LEMMA TypeInvAlways == Spec => []TypeInv
<1>1. Init => TypeInv
  <2> SUFFICES ASSUME Init PROVE TypeInv
    OBVIOUS
  <2>1. DOMAIN cache = {}
    BY DEF Init
  <2>2. faults \in 0..MaxFaults
    BY BoundType DEF Init
  <2>3. \A r \in Readers : call[r] = NoCall /\ data[r] = None("none") /\ pc[r] = "idle"
    BY DEF Init
  <2>4. TypeOK
    BY <2>1, <2>2, <2>3, ReasonType DEF Init, TypeOK
  <2> QED BY <2>3, <2>4 DEF Init, TypeInv, InProgress
<1> QED BY <1>1, TypeInvNext, PTL DEF Spec

\* Whatever is asked of the BFF or of the API, and whatever the routes make of
\* it, only answers to analytics paths are cached, and never an error.
THEOREM TypeCorrect == Spec => []TypeOK
<1>1. TypeInv => TypeOK
  BY DEF TypeInv
<1> QED BY <1>1, TypeInvAlways, PTL

\* Every call that is answered is answered by the handler its route is named for,
\* for every organization id of a single segment without a '?' or '#': the two
\* routing tables agree.
THEOREM ForwardedIsAlwaysServed == Spec => []ForwardedIsServed
<1>1. TypeInv /\ AnswerIsOwn => ForwardedIsServed
  <2> SUFFICES ASSUME TypeInv, AnswerIsOwn, NEW r \in Readers, pc[r] = "done",
                      call[r] # NoCall, IsPlain(call[r]), data[r] # None("unreachable")
               PROVE  <<data[r].shape, data[r].granularity>> = Meant(call[r])
    BY DEF ForwardedIsServed
  <2>1. data[r] = Reply(PathOf(call[r]), QueryOf(call[r]), ScopeOf(call[r]))
    BY DEF AnswerIsOwn
  <2>2. call[r] \in OrgCalls \/ call[r] \in AnalyticsCalls
    BY DEF TypeInv, TypeOK, Calls
  <2> QED BY <2>1, <2>2, OrgCallServed, AnalyticsCallServed
<1> QED BY <1>1, TypeInvAlways, AnswersAreOwn, PTL

=============================================================================
