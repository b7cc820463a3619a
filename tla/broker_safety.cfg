SPECIFICATION FairSpec
CONSTANTS
    c1 = c1
    c2 = c2
    n1 = n1
    n2 = n2
    GatekeeperKey = GatekeeperKey
    OtherKey = OtherKey
    NoKey = NoKey
    NoNonce = NoNonce
    NoCheck = NoCheck
    Callers = {c1, c2}
    Nonces = {n1, n2}
    Checks <- MCChecks
    Faults = TRUE
    MaxClock = 2
INVARIANTS TypeOK AtMostOnce SpentIsAccounted AcceptedMatches
PROPERTIES ImplementsOneShot ContestIsWon
