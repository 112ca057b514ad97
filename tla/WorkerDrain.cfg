\* The drain at shutdown the documentation describes, with a writer that
\* never fails.
SPECIFICATION Spec
CONSTANTS
    LogLen = 2
    BatchSize = 1
    MaxFetch = 1
    MaxFailures = 0
    MaxRestarts = 0
INVARIANTS
    DrainedAtExit
