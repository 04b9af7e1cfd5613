SPECIFICATION FairSpec
CONSTANTS
    NumDocs = 2
    Texts = {t1}
    Reqs = {r1}
    Workers = {w1}
    QueueSize = 3
    PageSize = 1
    Faults = {"crash"}
    Absent = Absent
PROPERTIES RequeueRecoversAll
