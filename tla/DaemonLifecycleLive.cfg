CONSTANTS
    Daemons = {d1, d2, d3}
    Clients = {c1}
    Stoppers = {t1}
    None = None
    Absent = Absent
    MaxFaults = 0
SPECIFICATION FairSpec
PROPERTIES SpawnBringsDaemon SignalledEnds
CHECK_DEADLOCK FALSE
