CONSTANTS
    noteA = noteA
    noteB = noteB
    noteC = noteC
    daemonRun = daemonRun
    inlineRun = inlineRun
    NoNote = NoNote
    Candidates <- ThreeCandidates
    Notes <- ThreeNotes
    NoteOf <- Titles
    Similar <- Resemblance
    Refused <- First
    Legacy <- First
    Ingested <- Pages
    Runs <- TwoRuns
    FaultBound = 1
SPECIFICATION Spec
SYMMETRY AnyRun
CONSTRAINT OneKindOfFault
INVARIANT TypeOK
INVARIANT CandidatesCountOnce
PROPERTY OnlyUnlistedNotesLoseText
PROPERTY RunLeavesNotesSynced
