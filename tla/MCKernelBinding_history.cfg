SPECIFICATION OnlySessions
CONSTANTS
    Bindings = {b1, b2}
    Messages = {m1}
    Creators = {c1, c2}
    Faults = {}
    Sessions = {1, 2, 3}
    HostFaults = {}
    MaxMishaps = 0
    None = None
SYMMETRY Symmetry
INVARIANT HistoryIsKept
