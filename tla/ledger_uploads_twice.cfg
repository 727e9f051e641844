SPECIFICATION Spec
CONSTANTS
    m1 = m1  m2 = m2  m3 = m3  h1 = h1  h2 = h2  h3 = h3
    d1 = d1  d2 = d2  p1 = p1  p2 = p2  u1 = u1
    None = None
    Msg = {m1}
    Media = {m1}
    NoMediaId = {}
    User = {u1}
    UserOf <- OneSender
    Handler = {h1, h2}
    Daemon = {d1}
    Process = {p1, p2}
    Host <- TwoWorkers
    Backlog <- NoRows
    RedisUp = TRUE
    MaxRetries = 2
    MaxDeliveries = 2
    MaxCrashes = 0
    SendCap = 1
INVARIANT UploadsExecuteOnce
