SPECIFICATION Spec
CONSTANTS
    NumUploads = 2
    Readers = {g1}
    MaxSize = 2
    BodyLimits = {2, 4}
    Head = 1
    Sizes = {1, 2, 3}
    Overheads = {1}
    Faults = {"db", "disk", "unsure", "crash", "power"}
    Absent = Absent
INVARIANTS WholeOrAbsent RowTellsSize SecondLimitIdle DownloadIsWhole
PROPERTIES BareHasCulprit OrphanHasCulprit LeftoverHasCulprit MissHasCulprit
