CONSTANTS
    Clients = {alice}
    Backends = {"evicting"}
    Faults = {"client_crash"}
    MaxFaults = 1
    MaxTasks = 2
    MaxCancels = 0
    NoTask = NoTask
SPECIFICATION Spec
CHECK_DEADLOCK FALSE
INVARIANTS
    TaskIdsNeverReused
