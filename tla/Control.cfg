SPECIFICATION Spec
CONSTANTS
    Calls = {q1, q2}
    MaxUsers = 3
    MaxSessions = 1
    Sources = {s1}
    Attempts = {a1, a2}
    LoginBurst = 2
    LoginWindow = 2
    LoginBlock = 2
    MaxClock = 5
    Editors = {e1, e2}
    HostIds = {h1}
    RedirectIds = {r1}
    ListIds = {l1}
    Domains = {d1}
    None = None
    MaxEdits = 2
    Workers = {Runner, w1}
    Runner = Runner
    CertIds = {c1, c2}
    Nobody = Nobody
    MaxMaterial = 2
    Takers = {b1, b2}
    KeepNewest = 1
    MaxSecond = 1
    MaxVersion = 1
    MaxArchives = 3
    MaxMade = 3
CONSTRAINT Scope
SYMMETRY Interchangeable
INVARIANT AdminRemains
INVARIANT UnguardedOnlyIfReleased
INVARIANT ExactWhenAlone
INVARIANT IssueExclusive
INVARIANT ServesWhatIsStored
INVARIANT ArchivesWhole
PROPERTY LockoutSound
PROPERTY MaterialNeverRegresses
PROPERTY DataSurvives
