SPECIFICATION Spec
CONSTANTS
    Req = {r1, r2}
    Paths = {p1}
    Headers = {h1}
    Variants = {v1}
    Sizes = {1}
    Budgets = {1}
    TTL = 1
    MaxCaches = 1
    MaxVersion = 1
    MaxTime = 0
SYMMETRY Symm
INVARIANT NoReplacedCopy

