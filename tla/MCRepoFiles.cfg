SPECIFICATION FilesSpec
CONSTANTS
    BaseUrls <- MCBaseUrls
    Listed <- MCListed
    MaxVersion = 2
    HasSqlite = {1}
    MaxStarts = 2
INVARIANTS UsedIsAdvertised LeftoversHarmless
PROPERTY MirrorsTried
CHECK_DEADLOCK FALSE
