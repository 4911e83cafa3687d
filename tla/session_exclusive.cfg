SPECIFICATION Spec
CONSTANTS
    t1 = t1
    t2 = t2
    Targets = {t1, t2}
    Commands = {c1, c2}
    Requests <- AllRequests
    Faults <- EarlyFaults
    Crashes = {}
    Exclusive = TRUE
    PidReuse = TRUE
    Pids = {p1, p2}
    Ports = {a, b}
    None = None
    Torn = Torn
INVARIANTS
    TypeOK
    AtMostOneTunnel
    NoOrphanTunnel
    SessionReclaimable
    ReadyIsOwn
PROPERTIES
    HoldsLease
SYMMETRY SlotsAndPids
