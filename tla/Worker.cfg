\* The worker with failing inserts and a restart: safety and liveness.
SPECIFICATION FairSpec
CONSTANTS
    LogLen = 4
    BatchSize = 2
    MaxFetch = 2
    MaxFailures = 1
    MaxRestarts = 1
INVARIANTS
    TypeOK
    NoEventLost
    RowsAccountedFor
    InTopicOrder
    FullBufferSignalled
PROPERTIES
    EventuallyStored
    ImplementsDelivery
