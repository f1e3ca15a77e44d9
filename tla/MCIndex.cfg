CONSTANTS
  noteN = noteN
  noteM = noteM
  textNa = textNa
  textNb = textNb
  textM = textM
  textBroken = textBroken
  textPoison = textPoison
  LastPath = 2
  NoteIds = {noteN, noteM}
  Texts <- NoteTexts
  IdOf <- NoteIdOf
  LinksOf <- NoteLinks
  Broken = Broken
  Poison = Poison
  NoText = NoText
  NoId = NoId
  Syncers = {x}
  EditBound = 3
  nodeA = nodeA
  nodeB = nodeB
  entityE = entityE
  GraphNotes = {nodeA, nodeB}
  Entities = {entityE}
  RetiredNotes = {}
  LinkChoices <- PageLinks
  Near <- NearPairs
  Duplicate <- NearPairs
  Failures = {nodeA}
  Resolutions = {nodeB}
  GraphEditBound = 3
  GraphStopBound = 1
  usedA = usedA
  usedB = usedB
  sessionS = sessionS
  Knowledge = {usedA, usedB}
  Tasks = {t}
  Sessions = {sessionS}
  Attributions <- PromotedFrom
  Null = null
  TopK = 2
  HitLimit = 2
  MinSamples = 2
  QueryBound = 1
  OutcomeBound = 1
  VanishBound = 1
  FeedbackCap = 1
SPECIFICATION IndexSpec
INVARIANT IndexTypeOK
INVARIANT NodesBacked
PROPERTY SyncConverges
INVARIANT GraphConsistent
PROPERTY OutcomeReachesTrust
CHECK_DEADLOCK FALSE
