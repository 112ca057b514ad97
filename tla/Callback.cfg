\* A callback with two attempts and a batch of the same organization, one failing
\* call, one crash.
SPECIFICATION Spec
CONSTANTS
    Callbacks = {c1}
    MaxRetries = 2
    ServiceOrg = o1
    EventIds = {e1}
    NoEvent = NoEvent
    Batches = {b1}
    MaxBatchLen = 2
    MaxFaults = 1
    MaxCrashes = 1
INVARIANTS
    TypeOK
    RetriesPublishOnce
    NothingDropped
PROPERTIES
    CallbacksKeepLedger
