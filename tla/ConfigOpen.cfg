SPECIFICATION ConfigurationSpec
CONSTANTS
    Editors = {e1, e2}
    HostIds = {h1}
    RedirectIds = {}
    ListIds = {l1}
    Domains = {d1}
    None = None
    MaxEdits = 2
INVARIANT NeverOpenedUp
