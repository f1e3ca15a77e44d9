CONSTANTS
  paper = paper
  scan = scan
  memo = memo
  paperText = paperText
  memoText = memoText
  memoHead = memoHead
  NoExtract = NoExtract
  Files <- ArtifactFiles
  FormatOf <- Formats
  TextOf <- ExtractedText
  HeadOf <- ExtractedHead
  Likeness <- ExtractLikeness
  Overlap <- NoOverlap
  LazyPdf = TRUE
  Ingesters = {first, second}
  Summaries = {summary}
  ArchiveBound = 3
  NameBound = 2
  IngestCrashBound = 1
  TokenTarget = 5
  TokenOverlap = 2
  ParagraphSizes = {1, 2, 3, 7}
  ParagraphBound = 6
  Letters = {"a", "b"}
  WordLength = 3
  EventsBound = 3
  IdleTtl = 2
  HardTtl = 4
  LeaseTime = 8
  episodeA = episodeA
  Episodes = {episodeA, episodeB}
  LinesBound = 4
  Clients = {hook}
  Job = daemonJob
  NoOne = NoOne
  NoEpisode = NoEpisode
  EventBound = 3
  FaultBound = 1
  Pages = {note}
  Old = {note}
  VerifiedAt = 2
  CanonicalAt = 4
  NoPage = none
  CountBound = 4
  OperatorBound = 1
  Parts = {"ingest", "windows", "events", "lease", "capture", "episodes", "life"}
SPECIFICATION VaultSpec
SYMMETRY AnyIngester
INVARIANT VaultTypeOK
INVARIANT RedirectsEnd
INVARIANT NoIngestLost
INVARIANT ProjectionKeepsText
INVARIANT NoEventLost
INVARIANT EpisodeRecordsAgree
INVARIANT LifecycleConsistent
CHECK_DEADLOCK FALSE
