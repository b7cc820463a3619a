SPECIFICATION MCSpec
CONSTANTS
    NoText = NoText
    NoRepo = NoRepo
    NoLabel = NoLabel
    NoScan = NoScan
    None = None
    Words <- MCWords
    Traits <- MCTraits
    Occurs <- MCOccurs
    Surfaces <- MCSurfaces
    Hosts <- MCHosts
    SinkKind <- MCSinkKind
    Terminator <- MCTerminator
    Commands <- MCCommands
    Repos = {"engine", "web"}
    Labels = {"home", "engine", "signer"}
    Components = {"home", "engine", "signer", "opt"}
    MaxLines = 1
    MaxWords = 3
INVARIANT NamedAddressIsCapital
CHECK_DEADLOCK FALSE
