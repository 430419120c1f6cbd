SPECIFICATION MCSpec
CONSTANTS
    Machine <- MCMachine
    Lists <- MCLists
INVARIANTS
    ComparisonsRight ReadersAgree KeysRight StreamRight HeaderKept
    SharedRight ConfRight SlackKept InstallerRight
CHECK_DEADLOCK FALSE
