SPECIFICATION Spec
CONSTANTS
    Messages = {m1, m2}
    Cancellers = {k1}
    Viewers = {v1}
    Askers = {m1, m2}
    MaxSlots = 1
    MaxCrashes = 0
    Faults = {"shutdown"}
    NaiveClock = TRUE
    None = None
ACTION_CONSTRAINT Bounds
SYMMETRY Symmetry
INVARIANTS SuspendedIsProven CompletedIsDurable
PROPERTIES FirstTerminalWins
CHECK_DEADLOCK FALSE
