\* A single request, then a batch with the same event; nothing fails.
SPECIFICATION Spec
CONSTANTS
    Requests = {r1}
    Batches = {b1}
    Orgs = {o1}
    KnownOrgs = {o1}
    EventIds = {e1}
    NoEvent = NoEvent
    MaxBatchLen = 1
    MaxFaults = 0
    MaxCrashes = 0
INVARIANTS
    LateBatchRefused
