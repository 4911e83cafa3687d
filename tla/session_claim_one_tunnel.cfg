SPECIFICATION Spec
CONSTANTS
    t1 = t1
    t2 = t2
    Targets = {t1, t2}
    Commands = {c1, c2}
    Requests <- BareRequests
    Faults = {}
    Crashes = {}
    Exclusive = FALSE
    PidReuse = FALSE
    Pids = {p1, p2}
    Ports = {a, b}
    None = None
    Torn = Torn
INVARIANTS
    AtMostOneTunnel
SYMMETRY SlotsAndPids
