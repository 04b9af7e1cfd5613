SPECIFICATION FairSpec
CONSTANTS
    Width = 6
    Shift = 2
    Defaults <- MCDefaults
    Unset = Unset
    NaN = NaN
    p1 = p1
    p2 = p2
    Procs = {p1, p2}
    Web = p1
    NumScripts = 2
    Stmts = 2
    Envs <- MCEnvs
    MaxEnds = 2
    None = None
    StrictBurst = 1
INVARIANTS ExactlyOnce ServesMigrated RunsAsAsked
INVARIANTS RunsOnlyAdmitted LogTellsAnswer
PROPERTIES InOrder AllServe
