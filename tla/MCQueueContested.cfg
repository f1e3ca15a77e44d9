CONSTANTS
    i1 = i1
    i2 = i2
    dlane = dlane
    flane = flane
    qlane = qlane
    slane = slane
    NoAttempt = NoAttempt
    Items <- OneItem
    Lanes <- TwoRunners
    DaemonLanes <- DaemonOnly
    QuickLanes <- NoLanes
    Serves <- ServeAll
    TombstoneAfterAttempts = 2
    StaleTombstoneAttempts = 2
    MaxPendingSilentAttempts = 3
    MaxTimeoutAttempts = 2
    AttemptBound = 3
    FaultBound = 2
SPECIFICATION Spec
INVARIANT TypeOK
INVARIANT ErrorFieldConsistent
INVARIANT DoubleDispatchOnlyAfterTheft
PROPERTY TombstoneFinal
PROPERTY ImplementsTickets
