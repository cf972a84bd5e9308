SPECIFICATION Spec
CONSTANTS
    Messages = {m1, m2}
    Cancellers = {}
    Viewers = {}
    Askers = {}
    MaxSlots = 1
    MaxCrashes = 0
    Faults = {}
    NaiveClock = TRUE
    None = None
PROPERTIES OnlyOwnEvents
CHECK_DEADLOCK FALSE
