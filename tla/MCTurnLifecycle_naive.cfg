SPECIFICATION Spec
CONSTANTS
    Messages = {m1, m2}
    Cancellers = {}
    Viewers = {}
    Askers = {m1, m2}
    MaxSlots = 1
    MaxCrashes = 1
    Faults = {"aged"}
    NaiveClock = TRUE
    None = None
PROPERTIES ExpiredLockReleased
CHECK_DEADLOCK FALSE
