\* Three concurrent single-event requests, one failing call, one crash, one
\* expiry of each key.
SPECIFICATION Spec
CONSTANTS
    Requests = {r1, r2, r3}
    Orgs = {o1, o2}
    KnownOrgs = {o1}
    EventIds = {e1}
    NoEvent = NoEvent
    MaxFaults = 1
    MaxCrashes = 1
    MaxExpiries = 1
INVARIANTS
    TypeOK
    AtMostOnce
    PublishedStaysClaimed
    ClaimBacked
PROPERTIES
    ImplementsLedger
