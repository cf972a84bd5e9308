SPECIFICATION Spec
CONSTANTS
    Messages = {m1, m2}
    Cancellers = {}
    Viewers = {}
    Askers = {m1, m2}
    MaxSlots = 1
    MaxCrashes = 0
    Faults = {}
    NaiveClock = TRUE
    None = None
INVARIANTS SidebarInSync
CHECK_DEADLOCK FALSE
