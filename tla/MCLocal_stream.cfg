SPECIFICATION Spec
CONSTANTS
    NoAcl = NoAcl
    MaxMessage = 4
    MaxAnswers = 2
    Requests <- MCRequests
    AclFiles <- MCAclFiles
INVARIANT StreamIntact
