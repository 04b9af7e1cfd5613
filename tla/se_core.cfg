SPECIFICATION FairSpec
CONSTANTS
    Emails = {e1, e2}
    Tokens = {t1, t2}
    Users = {u1, u2}
    Calls = {c1, c2}
    Second = 2
    TTL = 1
    MaxClock = 3
    Faults = {"db", "crash"}
    Absent = Absent
INVARIANTS TypeOK OneAccount
PROPERTIES AdmitsOnlyLive EndsForAReason ExpiredIsSwept
