-------------------------------- MODULE Ingest --------------------------------
(***************************************************************************)
(* How files and session summaries enter the archive: copy, the search for *)
(* an exact duplicate, text extraction, the row with its identity class,   *)
(* and the enqueue for extraction, by processes that interleave between    *)
(* their transactions and may die there; reprocessing of artifacts.        *)
(***************************************************************************)
EXTENDS Integers, FiniteSets, Sequences

CONSTANTS
    Files,           \* distinct byte contents of source files
    FormatOf,        \* FormatOf[f]: "pdf", "docx" or "text"
    TextOf,          \* TextOf[f]: the text a working connector finds in f
    HeadOf,          \* HeadOf[t]: its first 1000 normalized characters
    Likeness,        \* Likeness[t][u] in 0..100: Jaccard score, 0 when the
                     \* texts share no simhash band
    Overlap,         \* pairs of texts that share a long prefix or suffix
                     \* beyond their Jaccard score: <<t, u, score>>
    NoExtract,
    LazyPdf,         \* config.ingest.lazy_pdf_ingest
    Ingesters,       \* processes: command line, HTTP server, hooks
    Summaries,       \* contents of session summaries
    ArchiveBound,    \* bound on rows of artifacts
    NameBound,       \* bound on session names of one second
    IngestCrashBound \* bound on processes that die

ASSUME IngestAssumption ==
    /\ NoExtract \notin Summaries
    /\ \A f, g \in Files : TextOf[f] # NoExtract /\ TextOf[g] # NoExtract =>
                           Likeness[TextOf[f]][TextOf[g]] \in 0..100
    /\ \A o \in Overlap : o[3] \in 0..100
    /\ ArchiveBound \in Nat /\ NameBound \in Nat /\ IngestCrashBound \in Nat

VARIABLES
    archive,         \* rows of artifacts in the order of ingested_at, id
    sessionFile,     \* suffix of a session name -> content of the file
    sessionRow,      \* suffix of a session name -> content of its chunks
    queued,          \* rows and sessions with a row in extraction_queue
    ingester,        \* process -> what it is about to do
    deaths,
    acked,           \* history: what ingest calls have returned
    stranded,        \* history: rows whose enqueue died with its process
    raced            \* history: session names two processes picked at once

ingestVars == <<archive, sessionFile, sessionRow, queued, ingester, deaths,
                acked, stranded, raced>>

Names == 1..NameBound
NoOneIngests == [pc |-> "idle"]
Own == {"unique", "possible_duplicate", "overlap_related"}
Redirect == {"exact_duplicate", "canonical_duplicate"}
Artifacts == 1..Len(archive)
Extracts == {TextOf[f] : f \in Files} \cup {NoExtract}

ArtifactRow == [file : Files, raw : BOOLEAN, text : Extracts, status : {"accepted", "failed"},
                dup : Own \cup Redirect, canon : 0..ArchiveBound]

IngestTypeOK ==
    /\ archive \in Seq(ArtifactRow) /\ Len(archive) <= ArchiveBound
    /\ \A i \in Artifacts : archive[i].canon \in 0..Len(archive) \ {i}
    /\ sessionFile \in [Names -> Summaries \cup {NoExtract}]
    /\ sessionRow \in [Names -> Summaries \cup {NoExtract}]
    /\ queued \subseteq ({"artifact"} \X Artifacts) \cup ({"session"} \X Names)
    /\ deaths \in 0..IngestCrashBound /\ stranded \subseteq Artifacts
    /\ DOMAIN ingester = Ingesters

IngestInit ==
    /\ archive = <<>>
    /\ sessionFile = [n \in Names |-> NoExtract] /\ sessionRow = [n \in Names |-> NoExtract]
    /\ queued = {}
    /\ ingester = [x \in Ingesters |-> NoOneIngests]
    /\ deaths = 0
    /\ acked = {} /\ stranded = {} /\ raced = {}

Becomes(x, state) == ingester' = [ingester EXCEPT ![x] = state]

-----------------------------------------------------------------------------
(* The connectors: the text and status extract() may come back with.       *)

Accepted(t) == [text |-> t, status |-> "accepted"]
Failed == [text |-> NoExtract, status |-> "failed"]

StatusForText(t) == IF t = NoExtract THEN Failed ELSE Accepted(t)

\* A PDF without text goes to OCR; the libraries may be missing or fail.
PdfExtract(f, lazy) == IF lazy THEN {Accepted(NoExtract)} ELSE {StatusForText(TextOf[f]), Failed}

DocxExtract(f) == {StatusForText(TextOf[f])}
TextExtract(f) == {StatusForText(TextOf[f])}

ConnectorForPath(f, lazy) ==
    CASE FormatOf[f] = "pdf" -> PdfExtract(f, lazy)
      [] FormatOf[f] = "docx" -> DocxExtract(f)
      [] OTHER -> TextExtract(f)

-----------------------------------------------------------------------------
(* Identity.                                                               *)

Least(S) == CHOOSE i \in S : \A j \in S : i <= j
OrNone(S) == IF S = {} THEN 0 ELSE Least(S)

FindExactDuplicate(f) == OrNone({i \in Artifacts : archive[i].raw /\ archive[i].file = f})

Fingerprint(f, t) == <<FormatOf[f], IF t = NoExtract THEN NoExtract ELSE HeadOf[t]>>

SameFingerprint(i, f, t) ==
    {j \in Artifacts \ {i} : /\ archive[j].raw /\ archive[j].dup \in Own
                             /\ Fingerprint(archive[j].file, archive[j].text) = Fingerprint(f, t)}

\* Rows with a band of the simhash in common; only own rows have buckets.
\* Their text is extracted anew, in full.
Candidates(i, t) ==
    IF t = NoExtract THEN {}
    ELSE {j \in Artifacts \ {i} : /\ archive[j].dup \in Own /\ archive[j].text # NoExtract
                                  /\ Likeness[t][archive[j].text] > 0}

OverlapScores(t, j) == {o[3] : o \in {p \in Overlap : p[1] = t /\ p[2] = TextOf[archive[j].file]}}

CandidateScore(t, j) ==
    IF OverlapScores(t, j) # {} THEN CHOOSE s \in OverlapScores(t, j) : TRUE
    ELSE Likeness[t][TextOf[archive[j].file]]

\* Mutant: the fingerprint is looked for among all rows.
ClassifyAmongAll(i, f, t) ==
    LET same == {j \in Artifacts \ {i} : /\ archive[j].raw
                    /\ Fingerprint(archive[j].file, archive[j].text) = Fingerprint(f, t)}
    IN  IF same # {} THEN [dup |-> "canonical_duplicate", canon |-> Least(same)]
        ELSE [dup |-> "unique", canon |-> 0]

\* classify_post_parse_identity.  best_overlap_related is raised by any
\* candidate and stays up for whichever one scores best.
Classify(i, f, t) ==
    LET same == SameFingerprint(i, f, t)
        near == Candidates(i, t)
        best == CHOOSE s \in {CandidateScore(t, j) : j \in near} :
                    \A j \in near : s >= CandidateScore(t, j)
        found == Least({j \in near : CandidateScore(t, j) = best})
        overlapSeen == \E j \in near : OverlapScores(t, j) # {}
    IN  CASE same # {} -> [dup |-> "canonical_duplicate", canon |-> Least(same)]
          [] same = {} /\ (near = {} \/ best < 60) -> [dup |-> "unique", canon |-> 0]
          [] OTHER -> [dup |-> IF overlapSeen THEN "overlap_related"
                               ELSE IF best >= 95 THEN "canonical_duplicate"
                               ELSE "possible_duplicate",
                       canon |-> found]

-----------------------------------------------------------------------------
(* ingest_artifact.                                                        *)

\* Copy, hash and search, the search on a connection of its own.
CopyArtifact(x, f) ==
    /\ ingester[x].pc = "idle" /\ Len(archive) < ArchiveBound
    /\ Becomes(x, IF FindExactDuplicate(f) # 0
                  THEN [pc |-> "refer", file |-> f, row |-> FindExactDuplicate(f)]
                  ELSE [pc |-> "extract", file |-> f])
    /\ UNCHANGED <<archive, sessionFile, sessionRow, queued, deaths, acked, stranded, raced>>

\* The short cut: a row without hash that points to the first; no enqueue.
InsertExactDuplicate(x) ==
    /\ ingester[x].pc = "refer" /\ Len(archive) < ArchiveBound
    /\ archive' = Append(archive, [file |-> ingester[x].file, raw |-> FALSE, text |-> NoExtract,
                                   status |-> "accepted", dup |-> "exact_duplicate",
                                   canon |-> ingester[x].row])
    /\ acked' = acked \cup {<<"artifact", Len(archive) + 1>>}
    /\ Becomes(x, NoOneIngests)
    /\ UNCHANGED <<sessionFile, sessionRow, queued, deaths, stranded, raced>>

\* Row, class and buckets in one transaction; the unique index on hash and
\* size refuses the second of two that both found no duplicate.
InsertArtifact(x) ==
    LET f == ingester[x].file
        i == Len(archive) + 1
    IN  /\ ingester[x].pc = "extract" /\ Len(archive) < ArchiveBound
        /\ \/ /\ FindExactDuplicate(f) # 0
              /\ Becomes(x, NoOneIngests)
              /\ UNCHANGED archive
           \/ /\ FindExactDuplicate(f) = 0
              /\ \E r \in ConnectorForPath(f, LazyPdf) :
                   LET id == Classify(i, f, r.text)
                   IN  archive' = Append(archive,
                          [file |-> f, raw |-> TRUE, text |-> r.text, status |-> r.status,
                           dup |-> id.dup, canon |-> id.canon])
              /\ Becomes(x, [pc |-> "enqueue", what |-> <<"artifact", i>>])
        /\ UNCHANGED <<sessionFile, sessionRow, queued, deaths, acked, stranded, raced>>

\* Mutant: only what is no duplicate is extracted.
EnqueueUnique(x) ==
    /\ ingester[x].pc = "enqueue"
    /\ LET w == ingester[x].what
       IN  queued' = queued \cup {v \in {w} : v[1] = "session" \/ archive[v[2]].dup = "unique"}
    /\ acked' = acked \cup {ingester[x].what}
    /\ Becomes(x, NoOneIngests)
    /\ UNCHANGED <<archive, sessionFile, sessionRow, deaths, stranded, raced>>

EnqueueIngested(x) ==
    /\ ingester[x].pc = "enqueue"
    /\ queued' = queued \cup {ingester[x].what}
    /\ acked' = acked \cup {ingester[x].what}
    /\ Becomes(x, NoOneIngests)
    /\ UNCHANGED <<archive, sessionFile, sessionRow, deaths, stranded, raced>>

-----------------------------------------------------------------------------
(* reprocess_artifact; a redirect returns its canonical row's data and     *)
(* changes nothing.  reprocess_failed_artifacts does this for failed rows. *)

ReadForReprocess(x, i) ==
    /\ ingester[x].pc = "idle"
    /\ archive[i].dup \in Own
    /\ Becomes(x, [pc |-> "reextract", row |-> i])
    /\ UNCHANGED <<archive, sessionFile, sessionRow, queued, deaths, acked, stranded, raced>>

UpdateArtifact(x) ==
    LET i == ingester[x].row
        f == archive[i].file
    IN  /\ ingester[x].pc = "reextract"
        /\ \E r \in ConnectorForPath(f, FALSE) :
             LET id == Classify(i, f, r.text)
             IN  archive' = [archive EXCEPT ![i] =
                    [@ EXCEPT !.text = r.text, !.status = r.status,
                              !.dup = id.dup, !.canon = id.canon]]
        /\ Becomes(x, [pc |-> "enqueue", what |-> <<"artifact", i>>])
        /\ UNCHANGED <<sessionFile, sessionRow, queued, deaths, acked, stranded, raced>>

-----------------------------------------------------------------------------
(* ingest_session: the name has the second in it, so several summaries of  *)
(* one session and second are told apart by a suffix.                      *)

FreeNames == {n \in Names : sessionFile[n] = NoExtract /\ sessionRow[n] = NoExtract}

Picked(n) == \E y \in Ingesters : ingester[y].pc = "write" /\ ingester[y].name = n

PickSessionName(x, c) ==
    /\ ingester[x].pc = "idle" /\ FreeNames # {}
    /\ LET n == Least(FreeNames)
       IN  /\ Becomes(x, [pc |-> "write", name |-> n, content |-> c])
           /\ raced' = IF Picked(n) THEN raced \cup {n} ELSE raced
    /\ UNCHANGED <<archive, sessionFile, sessionRow, queued, deaths, acked, stranded>>

WriteSession(x) ==
    /\ ingester[x].pc = "write"
    /\ sessionFile' = [sessionFile EXCEPT ![ingester[x].name] = ingester[x].content]
    /\ Becomes(x, [ingester[x] EXCEPT !.pc = "insert"])
    /\ UNCHANGED <<archive, sessionRow, queued, deaths, acked, stranded, raced>>

InsertSession(x) ==
    LET n == ingester[x].name
    IN  /\ ingester[x].pc = "insert"
        /\ IF sessionRow[n] = NoExtract
           THEN /\ sessionRow' = [sessionRow EXCEPT ![n] = ingester[x].content]
                /\ Becomes(x, [pc |-> "enqueue", what |-> <<"session", n>>])
           ELSE /\ Becomes(x, NoOneIngests)
                /\ UNCHANGED sessionRow
        /\ UNCHANGED <<archive, sessionFile, queued, deaths, acked, stranded, raced>>

\* A process may die between any two of its steps.
IngesterDies(x) ==
    /\ ingester[x].pc # "idle" /\ deaths < IngestCrashBound
    /\ deaths' = deaths + 1
    /\ stranded' = IF ingester[x].pc = "enqueue" /\ ingester[x].what[1] = "artifact"
                   THEN stranded \cup {ingester[x].what[2]} ELSE stranded
    /\ Becomes(x, NoOneIngests)
    /\ UNCHANGED <<archive, sessionFile, sessionRow, queued, acked, raced>>

IngestStep(x) ==
    \/ \E f \in Files : CopyArtifact(x, f)
    \/ InsertExactDuplicate(x) \/ InsertArtifact(x) \/ EnqueueIngested(x)
    \/ \E i \in Artifacts : ReadForReprocess(x, i)
    \/ UpdateArtifact(x)
    \/ \E c \in Summaries : PickSessionName(x, c)
    \/ WriteSession(x) \/ InsertSession(x) \/ IngesterDies(x)

IngestNext == \E x \in Ingesters : IngestStep(x)

IngestSpec == IngestInit /\ [][IngestNext]_ingestVars

-----------------------------------------------------------------------------
(* Properties.                                                             *)

\* Who follows canonical_archive_id from a duplicate comes to a row that is
\* no duplicate itself, whatever was reprocessed in between and however
\* processes interleave: no set of duplicates only points into itself.
RedirectsEnd ==
    LET redirects == {i \in Artifacts : archive[i].dup \in Redirect}
    IN  \A S \in (SUBSET redirects) \ {{}} : \E i \in S : archive[i].canon \notin S

OnItsWay(i) == \E x \in Ingesters : ingester[x].pc = "enqueue" /\ ingester[x].what = <<"artifact", i>>

\* What an ingest call reported as taken in will be extracted: a session's
\* file holds its content and is queued; an artifact is queued itself, or the
\* row it is an exact duplicate of is, or will be.  Excepted are rows whose
\* first ingest died before its enqueue, and session names picked twice.
NoIngestLost ==
    \A a \in acked :
        IF a[1] = "session"
        THEN a[2] \in raced \/ (a \in queued /\ sessionFile[a[2]] = sessionRow[a[2]])
        ELSE LET i == a[2]
                 j == IF archive[i].raw THEN i ELSE archive[i].canon
             IN  /\ archive[j].raw /\ archive[j].file = archive[i].file
                 /\ <<"artifact", j>> \in queued \/ OnItsWay(j) \/ j \in stranded

=============================================================================
