SPECIFICATION Spec
CONSTANTS
    Reqs = {r1, r2, r3}
    Cost = 2
    Burst = 2
    Quiet = 6
    Skew = 1
    MaxClock = 14
    None = None
SYMMETRY Symmetry
INVARIANTS TypeOK RateBound
