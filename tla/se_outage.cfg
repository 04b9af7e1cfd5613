SPECIFICATION FairSpec
CONSTANTS
    Emails = {e1}
    Tokens = {t1}
    Users = {u1}
    Calls = {c1}
    Second = 2
    TTL = 3
    MaxClock = 2
    Faults = {"db"}
    Absent = Absent
PROPERTIES RejectsOnlyDead
