-------------------------- MODULE CustomerStatusProofs --------------------------
(***************************************************************************)
(* Proof that the audit log knows the status of every customer, for any    *)
(* number of customers and concurrent requests.                            *)
(***************************************************************************)
EXTENDS CustomerStatus, TLAPS

Requests ==
    [c : Customers \cup {"none"}, want : Statuses \cup {"none"},
     old : Statuses \cup {"none"}, new : Statuses \cup {"none"}]

\* TypeOK, the shape of ureq, and that a request at work has a customer, which
\* exists.
TypeInv ==
    /\ TypeOK
    /\ ureq \in [Updates -> Requests]
    /\ \A u \in Updates :
          upc[u] # "idle" => ureq[u].c \in Customers /\ status[ureq[u].c] # "none"

\* Some request has written the status of c and has yet to audit it.
Pending(c) ==
    \E u \in Updates : upc[u] = "audit" /\ ureq[u].c = c /\ ureq[u].new = status[c]

\* An audit entry has written the status of c.
Audited(c) == \E a \in audit : a.c = c /\ a.new = status[c]

AuditInv ==
    faults = 0 => \A c \in Customers : status[c] # "none" => Pending(c) \/ Audited(c)

\* No customer exists in the beginning.
LEMMA InvInit == Init => TypeInv /\ AuditInv
BY CustomerAssumption DEF Init, TypeInv, TypeOK, Requests, NoRequest, Statuses, AuditInv

\* Types are preserved, action by action.
LEMMA TypeNext == TypeInv /\ [Next]_vars => TypeInv'
<1> SUFFICES ASSUME TypeInv, [Next]_vars PROVE TypeInv'
  OBVIOUS
<1> USE DEF TypeInv, TypeOK, Goto
<1>0. NoRequest \in Requests /\ NoRequest.new \notin Statuses
  BY DEF NoRequest, Requests, Statuses
<1>1. ASSUME NEW u \in Updates, NEW c \in Customers, Create(u, c) PROVE TypeInv'
  <2> DEFINE req == [c |-> c, want |-> "ACTIVE", old |-> "none", new |-> "ACTIVE"]
  <2>1. req \in Requests /\ req.new \in Statuses
    BY DEF Requests, Statuses
  <2> QED BY <1>1, <2>1 DEF Create, Requests, Statuses
<1>2. ASSUME NEW u \in Updates, NEW c \in Customers, NEW want \in Statuses \cup {"none"},
             FindOne(u, c, want)
      PROVE  TypeInv'
  <2> DEFINE req == [c |-> c, want |-> want, old |-> status[c], new |-> "none"]
  <2>1. req \in Requests /\ req.new \notin Statuses
    BY DEF Requests, Statuses
  <2> QED BY <1>2, <2>1 DEF FindOne, Requests
<1>3. ASSUME NEW u \in Updates, Write(u) PROVE TypeInv'
  <2> DEFINE new == IF ureq[u].want = "none" THEN status[ureq[u].c] ELSE ureq[u].want
             req == [ureq[u] EXCEPT !.new = new]
  <2>1. new \in Statuses /\ new # "none"
    BY <1>3 DEF Write, Requests, Statuses
  <2>2. req \in Requests /\ req.new = new /\ req.c = ureq[u].c /\ req.c \in Customers
    BY <1>3, <2>1 DEF Write, Requests
  <2>3. /\ status' = [status EXCEPT ![req.c] = new]
        /\ upc' = [upc EXCEPT ![u] = "audit"]
        /\ ureq' = [ureq EXCEPT ![u] = req]
        /\ UNCHANGED <<audit, faults>>
    BY <1>3, <2>2 DEF Write
  <2> HIDE DEF req, new
  <2> QED BY <2>1, <2>2, <2>3 DEF Requests
<1>4. ASSUME NEW u \in Updates, Audit(u) PROVE TypeInv'
  <2>1. [c |-> ureq[u].c, old |-> ureq[u].old, new |-> ureq[u].new]
            \in [c : Customers, old : Statuses \cup {"none"}, new : Statuses]
    BY <1>4 DEF Audit, Requests
  <2> QED BY <1>0, <1>4, <2>1 DEF Audit, Requests
<1>5. ASSUME NEW u \in Updates, AuditError(u) PROVE TypeInv'
  BY <1>0, <1>5, CustomerAssumption DEF AuditError, Requests
<1>6. CASE UNCHANGED vars
  BY <1>6 DEF vars
<1> QED BY <1>1, <1>2, <1>3, <1>4, <1>5, <1>6 DEF Next

\* A status that is written is pending until it is audited or overwritten.
LEMMA AuditNext == TypeInv /\ AuditInv /\ [Next]_vars => AuditInv'
<1> SUFFICES ASSUME TypeInv, AuditInv, [Next]_vars, faults' = 0,
                    NEW d \in Customers, status'[d] # "none"
             PROVE  Pending(d)' \/ Audited(d)'
  BY DEF AuditInv
<1> USE DEF TypeInv, TypeOK, Goto, Pending, Audited
<1>1. ASSUME NEW u \in Updates, NEW c \in Customers, Create(u, c)
      PROVE  Pending(d)' \/ Audited(d)'
  <2>1. CASE d = c
    BY <1>1, <2>1 DEF Create
  <2>2. CASE d # c
    BY <1>1, <2>2 DEF Create, AuditInv
  <2> QED BY <2>1, <2>2
<1>2. ASSUME NEW u \in Updates, NEW c \in Customers, NEW want \in Statuses \cup {"none"},
             FindOne(u, c, want)
      PROVE  Pending(d)' \/ Audited(d)'
  BY <1>2 DEF FindOne, AuditInv
<1>3. ASSUME NEW u \in Updates, Write(u) PROVE Pending(d)' \/ Audited(d)'
  <2>1. CASE d = ureq[u].c
    BY <1>3, <2>1 DEF Write, Requests
  <2>2. CASE d # ureq[u].c
    BY <1>3, <2>2 DEF Write, AuditInv
  <2> QED BY <2>1, <2>2
<1>4. ASSUME NEW u \in Updates, Audit(u) PROVE Pending(d)' \/ Audited(d)'
  <2> DEFINE entry == [c |-> ureq[u].c, old |-> ureq[u].old, new |-> ureq[u].new]
  <2>1. entry \in audit' /\ audit \subseteq audit' /\ status' = status
    BY <1>4 DEF Audit
  <2>2. CASE ureq[u].c = d /\ ureq[u].new = status[d]
    BY <2>1, <2>2
  <2>3. CASE ~(ureq[u].c = d /\ ureq[u].new = status[d])
    BY <1>4, <2>1, <2>3 DEF Audit, AuditInv
  <2> QED BY <2>2, <2>3
<1>5. ASSUME NEW u \in Updates, AuditError(u) PROVE Pending(d)' \/ Audited(d)'
  BY <1>5, CustomerAssumption DEF AuditError
<1>6. CASE UNCHANGED vars
  BY <1>6 DEF vars, AuditInv
<1> QED BY <1>1, <1>2, <1>3, <1>4, <1>5, <1>6 DEF Next

\* Every variable has its type, for any sets of customers and requests.
THEOREM TypeCorrect == Spec => []TypeOK
<1>1. TypeInv => TypeOK
  BY DEF TypeInv
<1> QED BY <1>1, InvInit, TypeNext, PTL DEF Spec

\* Until an audit insert fails, the status of a customer that no request is
\* working on is in the audit log, however many requests race.
THEOREM StatusesAreAudited == Spec => []StatusIsAudited
<1>1. AuditInv => StatusIsAudited
  BY DEF AuditInv, StatusIsAudited, Pending, Audited
<1> QED BY <1>1, InvInit, TypeNext, AuditNext, PTL DEF Spec

=============================================================================
