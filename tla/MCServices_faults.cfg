SPECIFICATION Spec
CONSTANTS
    Workers = {w1, w2}
    Manuals = {m1}
    Schedules <- Plans
    MaxTime = 2
    MaxEvents = 1
    JobFaults = {"slow", "crash", "store"}
    Nil = Nil
    Tasks = {t1, t2}
    Boxes = {1, 2}
    Calls = {1, 2, 3}
    Capacity = 1
    MaxConcurrent = 1
    BoxFaults = {"engine", "script", "restart"}
    NoBox = NoBox
INVARIANTS
    TasksTypeOK OneTurnPerLease CatchesUpOnce EnabledIsScheduled RunningIsWatched
    BoxesTypeOK  FileIsCurrent NothingLeftBehind SlotsAreKept
PROPERTIES
    AdvancesAfterStart SettledRunsStay RunsAreTakenUp CallsEnd
CHECK_DEADLOCK FALSE
