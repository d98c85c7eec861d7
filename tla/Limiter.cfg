SPECIFICATION Spec
CONSTANTS
    Off = Off
    Gone = Gone
    Req = {r1, r2}
    Hosts = {h1}
    Addrs = {a1, a2, a3}
    RuleSet <- CapAndRateRules
    Second = 2
    IdleAfter = 3
    MaxPerShard = 1
    MaxRps = 1
    MaxBurst = 3
    MaxSkew = 1
    MaxTime = 5
CONSTRAINT Scope
SYMMETRY Interchangeable
INVARIANT NoPhantomSlot
INVARIANT ActiveIsExact
INVARIANT TableBounded
INVARIANT BucketEnvelope
INVARIANT RetryAfterSuffices
PROPERTY CapHonoured
PROPERTY SweepCostBounded
