SPECIFICATION ReposSpec
CONSTANTS
    a = a
    b = b
    x = x
    l = l
    sql = sql
    xml = xml
    mem = mem
    bin = bin
    lib = lib
    doc = doc
    etc = etc
    Pkg <- MCPkg
    Key <- MCKey
    Tag <- MCTag
    Provides = "provides"
    Keys <- MCKeys
    Name <- MCName
    Last <- MCLast
    Named <- MCNamed
    Repo = {sql, xml}
    Sqlite = {sql}
    MemoryRepo = mem
    From <- MCFrom
    Excluded = {x}
    File = {bin, lib, doc, etc}
    InPrimary = {bin, etc}
    Owns <- MCOwns
    FileRequires <- MCFileRequires
    Required = {bin, lib, doc, etc}
    NotCached = NotCached
INVARIANTS IndexesAgree NothingOverlooked MissingIsMissing
CHECK_DEADLOCK FALSE
