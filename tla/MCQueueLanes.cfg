CONSTANTS
    i1 = i1
    i2 = i2
    dlane = dlane
    flane = flane
    qlane = qlane
    slane = slane
    NoAttempt = NoAttempt
    Items <- TwoItems
    Lanes <- TwoLanes
    DaemonLanes <- TwoLanes
    QuickLanes <- QuickOnly
    Serves <- ServeByKind
    TombstoneAfterAttempts = 2
    StaleTombstoneAttempts = 2
    MaxPendingSilentAttempts = 3
    MaxTimeoutAttempts = 2
    AttemptBound = 4
    FaultBound = 0
SPECIFICATION FairSpec
PROPERTY OneDaemonNeverReapsItsOwn
PROPERTY PendingServed
