\* Two concurrent batches of at most two events, one failing call, one crash.
SPECIFICATION Spec
CONSTANTS
    Batches = {b1, b2}
    Orgs = {o1}
    KnownOrgs = {o1}
    EventIds = {e1, e2}
    MaxBatchLen = 2
    MaxFaults = 1
    MaxCrashes = 1
INVARIANTS
    TypeOK
    CountsAddUp
    NoDuplicateInBatch
    DuplicateHasWinner
    NoLateRepublish
