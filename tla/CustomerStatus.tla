---------------------------- MODULE CustomerStatus ----------------------------
(***************************************************************************)
(* The life cycle of a customer: create, update and                        *)
(* validateStatusTransition of                                             *)
(* control-plane/src/customer/customer.service.ts.  Requests run           *)
(* concurrently; each statement sent to Postgres is one atomic step, and   *)
(* what update has read before its await may be stale after it.            *)
(***************************************************************************)
EXTENDS Naturals

CONSTANTS
    Customers,   \* customers
    Updates,     \* concurrent requests
    MaxFaults    \* bound: audit inserts that fail

ASSUME CustomerAssumption == MaxFaults \in Nat

Statuses == {"ACTIVE", "SUSPENDED", "CHURNED"}

VARIABLES
    status,  \* status[c] in customer.customers, "none" before it is created
    upc,     \* upc[u]: where request u is
    ureq,    \* ureq[u]: its customer, the status it asks for ("none": it leaves
             \*          the status alone), has read, and has written
    audit,   \* entries of the audit log: customer, old and new status
    faults   \* failures so far

vars == <<status, upc, ureq, audit, faults>>

-----------------------------------------------------------------------------

NoRequest == [c |-> "none", want |-> "none", old |-> "none", new |-> "none"]

Init ==
    /\ status = [c \in Customers |-> "none"]
    /\ upc = [u \in Updates |-> "idle"]
    /\ ureq = [u \in Updates |-> NoRequest]
    /\ audit = {}
    /\ faults = 0

Goto(u, pc, req) ==
    /\ upc' = [upc EXCEPT ![u] = pc]
    /\ ureq' = [ureq EXCEPT ![u] = req]

\* Mutant of Create: the status has the case of an end user's.
CreateLowerCase(u, c) ==
    /\ upc[u] = "idle"
    /\ status[c] = "none"
    /\ status' = [status EXCEPT ![c] = "active"]
    /\ Goto(u, "audit", [c |-> c, want |-> "ACTIVE", old |-> "none",
                         new |-> "active"])
    /\ UNCHANGED <<audit, faults>>

\* create: the row is inserted as ACTIVE.
Create(u, c) ==
    /\ upc[u] = "idle"
    /\ status[c] = "none"
    /\ status' = [status EXCEPT ![c] = "ACTIVE"]
    /\ Goto(u, "audit", [c |-> c, want |-> "ACTIVE", old |-> "none",
                         new |-> "ACTIVE"])
    /\ UNCHANGED <<audit, faults>>

\* The transitions the code lists, by the current status.
Transitions == [ACTIVE |-> {"SUSPENDED"},
                SUSPENDED |-> {"ACTIVE", "CHURNED"},
                CHURNED |-> {}]

\* validateStatusTransition does not throw.
ValidTransition(current, next) ==
    \/ next = "none"
    \/ next = current
    \/ next \in Transitions[current]

\* findOne, then the check of the transition against what was read.  A
\* transition that is not valid is answered 409 and changes nothing.
FindOne(u, c, want) ==
    /\ upc[u] = "idle"
    /\ status[c] # "none"
    /\ ValidTransition(status[c], want)
    /\ Goto(u, "write", [c |-> c, want |-> want, old |-> status[c],
                         new |-> "none"])
    /\ UNCHANGED <<status, audit, faults>>

\* Mutant of Write: the request returns before its audit entry is written.
WriteUnaudited(u) ==
    LET new == IF ureq[u].want = "none" THEN status[ureq[u].c] ELSE ureq[u].want
    IN
    /\ upc[u] = "write"
    /\ status' = [status EXCEPT ![ureq[u].c] = new]
    /\ Goto(u, "idle", NoRequest)
    /\ UNCHANGED <<audit, faults>>

\* The row is updated, whatever its status is by now.
Write(u) ==
    LET new == IF ureq[u].want = "none" THEN status[ureq[u].c] ELSE ureq[u].want
    IN
    /\ upc[u] = "write"
    /\ status' = [status EXCEPT ![ureq[u].c] = new]
    /\ Goto(u, "audit", [ureq[u] EXCEPT !.new = new])
    /\ UNCHANGED <<audit, faults>>

\* The audit entry: the status that was read and the one that was written.
Audit(u) ==
    /\ upc[u] = "audit"
    /\ audit' = audit \cup {[c |-> ureq[u].c, old |-> ureq[u].old,
                             new |-> ureq[u].new]}
    /\ Goto(u, "idle", NoRequest)
    /\ UNCHANGED <<status, faults>>

\* The audit insert fails: 500, and the update stays.
AuditError(u) ==
    /\ upc[u] = "audit"
    /\ faults < MaxFaults
    /\ faults' = faults + 1
    /\ Goto(u, "idle", NoRequest)
    /\ UNCHANGED <<status, audit>>

Next ==
    \E u \in Updates :
        \/ \E c \in Customers :
              \/ Create(u, c)
              \/ \E want \in Statuses \cup {"none"} : FindOne(u, c, want)
        \/ Write(u)
        \/ Audit(u)
        \/ AuditError(u)

Spec == Init /\ [][Next]_vars

-----------------------------------------------------------------------------
(* Properties. *)

\* Every variable has its type: a stored status is one the table of
\* transitions knows, and an audit entry names a status that was written.
TypeOK ==
    /\ status \in [Customers -> Statuses \cup {"none"}]
    /\ upc \in [Updates -> {"idle", "write", "audit"}]
    /\ \A u \in Updates :
          /\ ureq[u].c \in Customers \cup {"none"}
          /\ ureq[u].want \in Statuses \cup {"none"}
          /\ ureq[u].old \in Statuses \cup {"none"}
          /\ (upc[u] = "audit") <=> (ureq[u].new \in Statuses)
    /\ audit \subseteq [c : Customers, old : Statuses \cup {"none"},
                         new : Statuses]
    /\ faults \in 0..MaxFaults

\* Unless an audit insert has failed, the status of a customer that no request
\* is working on has an audit entry that wrote it, however updates interleave.
StatusIsAudited ==
    faults = 0 =>
        \A c \in Customers :
            (status[c] # "none" /\ \A u \in Updates : ureq[u].c # c) =>
                \E a \in audit : a.c = c /\ a.new = status[c]

\* CHURNED is terminal: no update takes a churned customer to another status.
ChurnedIsTerminal ==
    [][\A c \in Customers :
          status[c] = "CHURNED" => status'[c] = "CHURNED"]_vars

=============================================================================
