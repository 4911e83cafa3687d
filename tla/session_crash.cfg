SPECIFICATION Spec
CONSTANTS
    t1 = t1
    t2 = t2
    Targets = {t1, t2}
    Commands = {c1}
    Requests <- MixedRequests
    Faults = {"ssh", "save", "remove", "clear"}
    Crashes = {"cli", "supervisor"}
    Exclusive = TRUE
    PidReuse = FALSE
    Pids = {p1, p2}
    Ports = {a, b}
    None = None
    Torn = Torn
INVARIANTS
    LiveSessionUsable
    ConfigNeverUnpinned
SYMMETRY SlotsAndPids
