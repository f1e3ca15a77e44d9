CONSTANTS
    wa = wa
    wb = wb
    fig1 = fig1
    fig2 = fig2
    Workers <- BothWorkers
    WindowsOf <- Growing
    Artifacts <- TwoFigures
    VlmCap = 1
    BatchSize = 2
    ClaimBound = 3
    starter = starter
    operator = operator
    DaemonBound = 2
    Commands = {starter, operator}
    Runs <- ShellRuns
    MishapBound = 1
    Parts = {"item", "daemon"}
SPECIFICATION ProcessesSpec
INVARIANT ProcessesTypeOK
INVARIANT AttemptsAddUp
INVARIANT CommandsKeepWord
PROPERTY CandidatesStay
CHECK_DEADLOCK FALSE
