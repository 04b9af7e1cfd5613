SPECIFICATION FairSpec
CONSTANTS
    Producers = {p1, p2, p3}
    Stoppers = {s1, s2}
    Workers = {w1, w2}
    QueueSize = 2
    None = None
INVARIANTS TypeOK NoPanic NilMeansHandled
PROPERTIES ImplementsJobPool CallsReturn AcceptedIsHandled
