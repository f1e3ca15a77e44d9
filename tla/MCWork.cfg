CONSTANTS
  wikiA = wikiA
  wikiB = wikiB
  sessionS = sessionS
  sessionT = sessionT
  titleA = titleA
  titleB = titleB
  Note <- PacketNotes
  Edges <- PacketEdges
  Retired = {}
  Thin = {}
  Anchored = {3, 5}
  Intents = {"historical", "debugging", "comparison", "implementation", "factual"}
  Budgets <- PacketBudgets
  HitBound = 2
  MaxDepth = 2
  MaxAdded = 2
  MaxBranches = 3
  RetryHitBound = 1
  pageA = pageA
  pageB = pageB
  pageC = pageC
  pageD = pageD
  Pages <- SearchedPages
  ChainOf <- PageChain
  NoChain = nochain
  Linked <- PageLinks
  ExactLimit = 2
  FocalLimit = 2
  ExpandLimit = 1
  TopKs = {0, 1, 3}
  MinHits = 2
  MaxHits = 3
  PoolPart = 1
  BudgetHits = 3
  ChainMin = 2
  TurnBound = 1
  Items <- RoutedItems
  NoteIds <- RoutedNotes
  IdOf <- RoutedId
  Refusals = {2}
  ReviewStopBound = 1
  Wiki = {wikiA, wikiB}
  Books = {sessionS, sessionT}
  NoRef = none
  Section <- Sections
  Related <- RelatedNotes
  SourcesOf <- Sources
  EarlierFiles <- LeftBehind
  VaultAtFirst = {wikiA, wikiB, sessionS}
  GameEditBound = 1
  StartBound = 1
  Parts = {"task", "search", "review", "game"}
SPECIFICATION WorkSpec
INVARIANT WorkTypeOK
INVARIANT ReuseOnlyCurrent
INVARIANT ShownOrDeferred
INVARIANT SearchAnswers
INVARIANT VerdictsKept
INVARIANT GameConsistent
PROPERTY EscapesLeave
CHECK_DEADLOCK FALSE
