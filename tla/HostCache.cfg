SPECIFICATION Spec
CONSTANTS
    Req = {r1, r2}
    Paths = {p1, p2, p3}
    Headers = {h1, h2}
    Variants = {v1}
    Sizes = {1, 2}
    Budgets = {1, 2}
    TTL = 1
    MaxCaches = 2
    MaxVersion = 1
    MaxTime = 1
CONSTRAINT Scope
SYMMETRY Symm
INVARIANT Accounting
INVARIANT NoneStranded
PROPERTY EvictsLeastRecent
