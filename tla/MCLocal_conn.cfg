SPECIFICATION FairSpec
CONSTANTS
    NoAcl = NoAcl
    MaxMessage = 4
    MaxAnswers = 1
    Requests <- MCRequests
    AclFiles <- MCAclFiles
INVARIANTS
    LifetimesNest
    FirstPackageKept
    BlockedNotReached
PROPERTIES
    ConnectionEnds
