\* An organization and an end user that may belong to it or to another, with API
\* keys that come and go: safety and liveness.
SPECIFICATION FairSpec
CONSTANTS
    Orgs = {o1}
    EndUsers = {e1}
    NoEntity = NoEntity
    Admins = {a1, a2}
    Lookups = {l1}
    MaxFaults = 1
INVARIANTS
    TypeOK
    NoPhantom
PROPERTIES
    SuspendedOrgForgotten
    StrangerForgotten
    ActiveOrgWarmed
