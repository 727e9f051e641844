SPECIFICATION Spec
CONSTANTS
    Worker = {w1, w2}
    Eligible = {w1, w2}
    w1 = w1
    w2 = w2
    MaxFaults = 1
    Free = Free
    Ghost = Ghost
    Request = {r1, r2}
    Post = {"load", "truck"}
    New = {"load"}
    Found <- MCFound
    Watcher = {"watcher"}
    Limit = 1
    Capacity = 1
    Before = {"truck"}
    MaxOutages = 1
    None = None
INVARIANTS TypeOK OneDaemon OnlyCommitted LaneLimit  MatchAlertOnce
PROPERTIES Failover Answered
CHECK_DEADLOCK FALSE
