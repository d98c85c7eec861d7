SPECIFICATION Spec
CONSTANTS
    Off = Off
    Gone = Gone
    Req = {r1, r2}
    Hosts = {h1}
    Addrs = {a1}
    RuleSet <- SlowRules
    Second = 2
    IdleAfter = 3
    MaxPerShard = 1
    MaxRps = 1
    MaxBurst = 3
    MaxSkew = 0
    MaxTime = 6
SYMMETRY Interchangeable
PROPERTY SweepEarned
