CONSTANTS
    i1 = i1
    i2 = i2
    dlane = dlane
    flane = flane
    qlane = qlane
    slane = slane
    NoAttempt = NoAttempt
    Items <- OneItem
    Lanes <- DaemonOnly
    DaemonLanes <- DaemonOnly
    QuickLanes <- NoLanes
    Serves <- ServeAll
    TombstoneAfterAttempts = 2
    StaleTombstoneAttempts = 3
    MaxPendingSilentAttempts = 3
    MaxTimeoutAttempts = 2
    AttemptBound = 4
    FaultBound = 1
SPECIFICATION Spec
INVARIANT AtMostOneInFlight
