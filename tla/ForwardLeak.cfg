SPECIFICATION Spec
CONSTANTS
    u1 = u1
    u2 = u2
    NoUpstream = NoUpstream
    Req = {r1}
    Upstreams = {u1, u2}
    Configs <- Single
    MaxConns = 1
    MaxRetries = 0
    PassiveEnabled = FALSE
    MaxFails = 1
    EjectFor = 1
    MaxGen = 1
    MaxTime = 1
SYMMETRY Interchangeable
INVARIANT ActiveIsInFlight
