SPECIFICATION PackageSpec
CONSTANTS
    File <- MCFile
    Archives <- MCArchives
    Listed = {"a", "b", "c", "d"}
    Device = {"d"}
    Config = {"a", "c"}
    Apart = {"b"}
    Present <- MCPresent
    Fails = TRUE
    Crashes = TRUE
    NSig = 1
    NHdr = 1
    SigSets <- MCSigSets
    Checked = {TRUE, FALSE}
    MaxStarts = 2
INVARIANTS PayloadWhole CutShort DamageRefused
CHECK_DEADLOCK FALSE
