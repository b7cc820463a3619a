SPECIFICATION ApprovalFairSpec
CONSTANTS
    GatekeeperKey = GatekeeperKey
    NoKey = NoKey
    NoNonce = NoNonce
    NoRepo = NoRepo
    NotGit = NotGit
    NoTree = NoTree
    HashError = HashError
    NoEvent = NoEvent
    Unavailable = Unavailable
    Outputs <- MCOutputs
    Requests = {1}
    Events = {"deploy", "orphan", "edit", "blessed", "read"}
    PreBlessed = {"blessed"}
    Classify <- MCClassify
    ServiceRepo <- MCServiceRepo
    Dirs = {"work", "svc"}
    Paths = {"f"}
    Contents = {"a"}
    Worktrees <- MCWorktrees
    Hashers = {1}
    HashFaults = TRUE
    FsFaults = FALSE
    Crashes = TRUE
    TTL = 1
    MaxClock = 3
INVARIANTS ApprovalTypeOK SignedWasAuthorized SignedBindsRepo FilesMatchOutcome

PROPERTY RequestEnds
