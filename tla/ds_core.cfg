SPECIFICATION Spec
CONSTANTS
    NumDocs = 1
    Texts = {t1, t2}
    Reqs = {r1, r2}
    Workers = {w1, w2}
    QueueSize = 1
    PageSize = 1
    Faults = {"db", "unsure", "disk", "crash"}
    Absent = Absent
SYMMETRY Symmetry
INVARIANTS RowHasBlob
PROPERTIES OrphanHasCulprit StaleHasCulprit ImplementsLifecycle
