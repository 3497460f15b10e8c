CONSTANTS
    Daemons = {d1, d2, d3}
    Clients = {c1}
    Stoppers = {t1, t2}
    None = None
    Absent = Absent
    MaxFaults = 1
SPECIFICATION Spec
SYMMETRY Symmetry
INVARIANTS TypeOK ListenerReachable HolderRecorded StoppedIsGone
PROPERTY AnsweredByHolder
CHECK_DEADLOCK FALSE
