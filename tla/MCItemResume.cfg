CONSTANTS
    wa = wa
    wb = wb
    fig1 = fig1
    fig2 = fig2
    Workers <- OneWorker
    WindowsOf <- Fixed
    Artifacts <- NoFigures
    VlmCap = 1
    BatchSize = 1
    ClaimBound = 3
SPECIFICATION Spec
INVARIANT ResumeLosesNothing
