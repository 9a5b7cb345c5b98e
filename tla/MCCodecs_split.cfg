SPECIFICATION Spec
CONSTANTS
    Greetings <- MCGreetings
    Requests <- MCRequests
    Payload <- MCPayload
    MaxUp = 5
    MaxDown = 4
    FastAuth = FALSE
    Cuts <- GoodCuts
    Plugins = {"auth_sha1_v4", "auth_aes128", "auth_chain"}
    HeadSize = 1
    UnitLen = 2
    MaxSent = 4
    HeadLens = {1, 3}
    MinRequest = 3
    Chunks = {1, 2, 4}
    MaxBytes = 5
INVARIANT PortSurvivesSplit
