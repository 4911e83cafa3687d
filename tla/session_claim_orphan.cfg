SPECIFICATION Spec
CONSTANTS
    t1 = t1
    t2 = t2
    Targets = {t1, t2}
    Commands = {c1}
    Requests <- LocalOnly
    Faults = {"launch"}
    Crashes = {}
    Exclusive = TRUE
    PidReuse = FALSE
    Pids = {p1, p2}
    Ports = {a, b}
    None = None
    Torn = Torn
INVARIANTS
    NoOrphanTunnel
SYMMETRY SlotsAndPids
