CONSTANTS
    Daemons = {d1, d2}
    Clients = {}
    Stoppers = {t1}
    None = None
    Absent = Absent
    MaxFaults = 0
SPECIFICATION Spec
INVARIANT StopRemovesContainers
CHECK_DEADLOCK FALSE
