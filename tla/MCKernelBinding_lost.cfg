SPECIFICATION FairSessions
CONSTANTS
    Bindings = {b1, b2}
    Messages = {m1}
    Creators = {c1}
    Faults = {}
    Sessions = {1, 2}
    HostFaults = {"wipe"}
    MaxMishaps = 1
    None = None
PROPERTY LostIsRebuilt
CHECK_DEADLOCK FALSE
