SPECIFICATION Spec
CONSTANTS
    h1 = h1
    h2 = h2
    Header <- MCHeader
    MaxId = 2
    NFiles = 3
    Packages = 2
    Basenames = 1
    Tagged <- MCTagged
    Obsoleting <- MCObsoleting
    Fails = TRUE
INVARIANTS EntriesHaveHeaders InstalledIsFound RemovedIsGone CachesAgree
