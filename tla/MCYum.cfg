SPECIFICATION CommandSpec
CONSTANTS
    app1 = app1
    app2 = app2
    lib1 = lib1
    lib2 = lib2
    tool1 = tool1
    send1 = send1
    mail1 = mail1
    post1 = post1
    k1 = k1
    k2 = k2
    m32 = m32
    m64 = m64
    n32 = n32
    n64 = n64
    doc1 = doc1
    srv1 = srv1
    srv2 = srv2
    srv3 = srv3
    cli1 = cli1
    x32 = x32
    xno = xno
    y32 = y32
    web1 = web1
    gui1 = gui1
    cgi1 = cgi1
    cgi2 = cgi2
    php1 = php1
    Pkg <- MCPkg
    Installed <- MCInstalled
    Name <- MCName
    Evr <- MCEvr
    Arch <- MCArch
    ArchDuplicate <- MCArchDuplicate
    ArchCompat <- MCArchCompat
    NoArch = "noarch"
    Dep <- MCDep
    FileDep <- MCFileDep
    Requires <- MCRequires
    Provides <- MCProvides
    Files <- MCFiles
    Obsoletes <- MCObsoletes
    Conflicts <- MCConflicts
    FileConflict <- MCFileConflict
    ShadowDB = TRUE
    autoerase = TRUE
    oldpackage = FALSE
    exactarch = FALSE
    checkinstalled = FALSE
    noconflicts = FALSE
    nofileconflicts = TRUE
    Available <- MCAvailable
    Requests <- MCRequests
    AlwaysInstall = {"kernel"}
    Exclude = {"tool"}
    LanguageNames <- MCLanguageNames
    Machine = "x86_64"
    BaseArch <- MCBaseArch
    Distance <- MCDistance
    Type <- MCType
    Sense <- MCSense
    Hash <- MCHash
CHECK_DEADLOCK FALSE
INVARIANTS AcceptedBreaksNothing RequestKept DoneIsShown OffersTaken
PROPERTIES ReplacementsInherited Terminates
