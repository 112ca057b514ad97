\* Three new keys and one put in Redis by hand; one failing call.
SPECIFICATION Spec
CONSTANTS
    Keys = {k1, k2, k3, k4}
    Preset = {k4}
    MaxFaults = 1
INVARIANTS
    TypeOK
    UsableKeyHasRow
    IssuedKeyWorks
