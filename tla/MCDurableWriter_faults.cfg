SPECIFICATION WritersSpec
CONSTANTS
    LastEvent = 4
    Projected <- EvenEvents
    MaxBatch = 2
    Faults = {"store", "abort"}
    browse = browse
    other = other
    Actions = {browse, other}
    Browser = {browse}
    Askai = Askai
    Terminal = 3
    Start <- StartsAt
    MaxRows = 2
    MaxSide = 2
    Mishaps = {"rows", "events", "cancel"}
INVARIANTS TypeOK OnlyServedFlushHangs ChannelTypeOK ParentIsDurableFirst HistoryIsComplete ReplayHasNoHoles
PROPERTIES ImplementsJournal CallsReturn
CHECK_DEADLOCK FALSE
