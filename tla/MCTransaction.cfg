SPECIFICATION Spec
CONSTANTS
    a1 = a1
    a2 = a2
    b1 = b1
    Pkg <- MCPkg
    File <- MCFile
    Name <- MCName
    Evr <- MCEvr
    Files <- MCFiles
    Content <- MCContent
    Config <- MCConfig
    NoReplace <- MCNoReplace
    Yields <- MCYields
    Pre <- MCPre
    Post <- MCPost
    Triggering <- MCTriggering
    Pretrans <- MCPretrans
    Posttrans <- MCPosttrans
    MaxEdits = 2
    Fails = TRUE
    Crashes = TRUE
INVARIANTS RecordedFilesPresent DiskMatchesDatabase LastEditKept
PROPERTY NothingOwed
