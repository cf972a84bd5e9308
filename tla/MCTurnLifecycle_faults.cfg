SPECIFICATION Spec
CONSTANTS
    Messages = {m1, m2}
    Cancellers = {}
    Viewers = {}
    Askers = {m1, m2}
    MaxSlots = 1
    MaxCrashes = 1
    Faults = {"store", "writer", "transport"}
    NaiveClock = TRUE
    None = None
SYMMETRY Symmetry
INVARIANTS TypeOK RunningTurnShown SlotsBalanced
PROPERTIES SentUnderLock
CHECK_DEADLOCK FALSE
