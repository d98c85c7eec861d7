SPECIFICATION AuthSpec
CONSTANTS
    c1 = c1
    c2 = c2
    in = in
    out = out
    Visits = {a1, a2}
    Credentials = {c1, c2}
    Addresses = {in, out}
    Lists <- SomeLists
    AuthTTL = 1
    AuthCacheMax = 1
    Second = 2
    MaxTick = 2
INVARIANT VerifiedWasCompared
