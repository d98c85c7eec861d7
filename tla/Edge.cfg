SPECIFICATION EdgeSpec
CONSTANTS
    u1 = u1
    u2 = u2
    NoUpstream = NoUpstream
    Upstreams = {u1, u2}
    Configs <- OneOrBoth
    HealthyThreshold = 1
    UnhealthyThreshold = 2
    MaxGen = 2
    MinBytes = 2
    MaxBody = 3
    DefaultTTL = 1
    MaxTTL = 2
    Lifetimes = {0, 3}
    Horizon = 2
    Asked <- SomeAsked
    c1 = c1
    c2 = c2
    in = in
    out = out
    Visits = {a1, a2}
    Credentials = {c1, c2}
    Addresses = {in, out}
    Lists <- SomeLists
    AuthTTL = 1
    AuthCacheMax = 1
    Second = 2
    MaxTick = 2
    WeightOf <- Weights
    Clients = {k1}
    MaxScore = 3
    MaxPicks = 7
    MaxChanges = 3
    Hits = {h1, h2}
    BufferSize = 1
    BatchSize = 2
    MaxForgets = 1
    Tasks = {}
    Channels = 1
    Subjects = {"down"}
    Intervals = {1, 2}
    QueueSize = 1
    Attempts = 2
    Day = 2
    Admins = {m1, m2}
    MaxRaised = 1
    LastTick = 3
    Segments = {"/", "*", "a", "b", "c", "d", "w", "x", "y", "api", "ary", "v1", "app"}
    HeaderNames = {"X", "X-Forwarded-For"}
    HostForms <- SomeHosts
    RedirectForms <- SomeRedirects
    Inbound <- SomeRequests
    MaxSwaps = 1
CONSTRAINT Scope
INVARIANT AlertsTruthful
INVARIANT StoredIsWhole
INVARIANT ServedAsPermitted
INVARIANT CachedGrantSound
INVARIANT EntriesAccounted
INVARIANT SamplesConserved
INVARIANT AnsweredByOneTable
PROPERTY DownIsEarned
PROPERTY Delivers
PROPERTY Balanced
PROPERTY ThrottleHolds
CHECK_DEADLOCK FALSE
