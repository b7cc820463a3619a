SPECIFICATION GateSpec
CONSTANTS
    v1 = v1
    v2 = v2
    f1 = f1
    f2 = f2
    h1 = h1
    h2 = h2
    GatekeeperKey = GatekeeperKey
    NoKey = NoKey
    NoNonce = NoNonce
    NoRepo = NoRepo
    NotGit = NotGit
    NoTree = NoTree
    HashError = HashError
    NoEvent = NoEvent
    NoRequest = NoRequest
    Unavailable = Unavailable
    Outputs <- MCOutputs
    Requests = {1, 2}
    Events = {"deploy"}
    PreBlessed = {}
    Classify <- MCClassify
    ServiceRepo <- MCServiceRepo
    Dirs = {"svc"}
    Paths = {f1}
    Contents = {v1}
    Worktrees <- MCWorktrees
    Hashers = {1, 2, h1}
    Hooks = {h1}
    Modes = {"enforce"}
    Inputs = {"readable"}
    Streams = {"open"}
    HashFaults = FALSE
    FsFaults = FALSE
    Crashes = FALSE
    TTL = 0
    MaxClock = 1
PROPERTY ImplementsOneShot
