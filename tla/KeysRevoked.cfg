\* A key that is created, revoked and used; nothing fails.
SPECIFICATION Spec
CONSTANTS
    Keys = {k1}
    Preset = {}
    MaxFaults = 0
PROPERTIES
    RevokedKeyRejected
