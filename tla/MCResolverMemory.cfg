SPECIFICATION Spec
CONSTANTS
    a1 = a1
    a2 = a2
    b1 = b1
    b2 = b2
    c1 = c1
    d1 = d1
    Pkg <- MCPkg
    Installed <- MCInstalled
    Name <- MCName
    Evr <- MCEvr
    Arch <- MCArch
    ArchDuplicate <- MCArchDuplicate
    ArchCompat <- MCArchCompat
    NoArch = "noarch"
    Dep <- MCDep
    FileDep <- MCFileDep
    Requires <- MCRequires
    Provides <- MCProvides
    Files <- MCFiles
    Obsoletes <- MCObsoletes
    Conflicts <- MCConflicts
    FileConflict <- MCFileConflict
    ShadowDB = FALSE
    autoerase = TRUE
    oldpackage = FALSE
    exactarch = FALSE
    checkinstalled = FALSE
    noconflicts = FALSE
    nofileconflicts = FALSE
INVARIANTS DatabaseMatchesOperations ChangesRemembered ResolvedBreaksNothing
