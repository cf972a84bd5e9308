SPECIFICATION FairSpec
CONSTANTS
    Messages = {m1, m2}
    Cancellers = {}
    Viewers = {}
    Askers = {}
    MaxSlots = 1
    MaxCrashes = 0
    Faults = {"transport", "aged"}
    NaiveClock = FALSE
    None = None
PROPERTIES TurnsEnd RequestsEnd
CHECK_DEADLOCK FALSE
