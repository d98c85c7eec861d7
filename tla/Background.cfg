SPECIFICATION BackgroundSpec
CONSTANTS
    u1 = u1
    u2 = u2
    NoUpstream = NoUpstream
    Upstreams = {u1}
    Configs <- Single
    HealthyThreshold = 1
    UnhealthyThreshold = 2
    MaxGen = 2
    Hits = {h1}
    BufferSize = 1
    BatchSize = 1
    MaxForgets = 1
    Tasks = {certificates, alerts}
    Channels = 1
    Subjects = {"down"}
    Intervals = {2}
    QueueSize = 1
    Attempts = 2
    Day = 2
    Admins = {m1, m2}
    MaxRaised = 1
    LastTick = 0
    Clients = {c1}
    SendBuffer = 1
INVARIANT ProbesExclusive
PROPERTY CallsReturn
PROPERTY HealthIsFound
PROPERTY ShutdownCompletes
PROPERTY EditsReachDispatcher
PROPERTY HubReleases
CHECK_DEADLOCK FALSE
