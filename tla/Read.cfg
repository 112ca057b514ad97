\* Two requests, four forms of organization ids, one failing Redis call.
SPECIFICATION Spec
CONSTANTS
    Readers = {r1, r2}
    OrgIds <- MCOrgIds
    QueryIds <- MCQueryIds
    Before <- MCBefore
    MaxFaults = 1
INVARIANTS
    TypeOK
    AnswerIsOwn
    ForwardedIsServed
PROPERTIES
    EveryReadEnds
