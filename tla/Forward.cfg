SPECIFICATION Spec
CONSTANTS
    u1 = u1
    u2 = u2
    NoUpstream = NoUpstream
    Req = {r1, r2, r3}
    Upstreams = {u1, u2}
    Configs <- BothOrSwitched
    MaxConns = 1
    MaxRetries = 1
    PassiveEnabled = TRUE
    MaxFails = 2
    EjectFor = 1
    MaxGen = 2
    MaxTime = 2
CONSTRAINT Scope
SYMMETRY Interchangeable
INVARIANT RetriesSound
INVARIANT StatusHonest
INVARIANT ActiveAccounted
PROPERTY EjectionSound
CHECK_DEADLOCK FALSE
