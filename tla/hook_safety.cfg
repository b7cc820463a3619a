SPECIFICATION FairSpec
CONSTANTS
    h1 = h1
    GatekeeperKey = GatekeeperKey
    OtherKey = OtherKey
    NoKey = NoKey
    NoNonce = NoNonce
    NoRepo = NoRepo
    NotGit = NotGit
    NoTree = NoTree
    HashError = HashError
    NoEvent = NoEvent
    NoRequest = NoRequest
    Requests = {1, 2}
    Events = {"deploy", "read"}
    Classify <- MCClassify
    ServiceRepo <- MCServiceRepo
    Dirs = {"svc"}
    Paths = {"f"}
    Contents = {"a"}
    Worktrees <- MCWorktrees
    Hashers = {h1}
    Hooks = {h1}
    Modes = {"shadow", "enforce"}
    Inputs = {"readable", "unreadable", "unclassifiable"}
    Streams = {"open", "no-stderr"}
    HashFaults = TRUE
    FsFaults = TRUE
    MaxClock = 1
INVARIANTS HookTypeOK FailPosture ScanMissesNothing
PROPERTIES AllowNeedsIntent HookEnds DriftBlocksEnd
