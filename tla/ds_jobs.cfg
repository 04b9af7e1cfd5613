SPECIFICATION FairSpec
CONSTANTS
    NumDocs = 2
    Texts = {t1}
    Reqs = {r1}
    Workers = {w1, w2}
    QueueSize = 2
    PageSize = 2
    Faults = {"slow", "crash", "late", "listen"}
    Absent = Absent
INVARIANTS OneJobPerDoc NothingStranded
PROPERTIES GracefulExitDrains QueuedIsSettled SignalStops
