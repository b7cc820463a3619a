SPECIFICATION Spec
CONSTANTS
    GatekeeperKey = GatekeeperKey
    NoKey = NoKey
    NoNonce = NoNonce
    Programs = {"redteam_harness", "shadow_runner"}
    Corpora <- MCCorpora
    Faults = TRUE
INVARIANTS TypeOK CasesAreIndependent ExitCodeIsEarned
PROPERTY KeysDoNotOutlive
CHECK_DEADLOCK FALSE
