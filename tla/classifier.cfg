SPECIFICATION MCSpec
CONSTANTS
    NoText = NoText
    NoRepo = NoRepo
    NoLabel = NoLabel
    NoScan = NoScan
    None = None
    Words <- MCWords
    Traits <- MCTraits
    Occurs <- MCOccurs
    Surfaces <- MCSurfaces
    Hosts <- MCHosts
    SinkKind <- MCSinkKind
    Terminator <- MCTerminator
    Commands <- MCCommands
    Repos = {"engine", "web"}
    Labels = {"home", "engine", "signer"}
    Components = {"home", "engine", "signer", "opt"}
    MaxLines = 4
    MaxWords = 3
INVARIANTS TypeOK NothingRunIsUnscanned MutationsAreGated BoundRepoIsOfAMentionedService
           AuthoringIsFree NoWordDilutes LabelIsOfNearestRepo
CHECK_DEADLOCK FALSE
