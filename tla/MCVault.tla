-------------------------------- MODULE MCVault -------------------------------
(***************************************************************************)
(* What comes into the vault and what becomes of a note there, one part    *)
(* per behaviour: the ingest of artifacts, the projection of text and      *)
(* events, the capture of sessions, and the life of a note between audit,  *)
(* promotion and operator.                                                 *)
(***************************************************************************)
EXTENDS Ingest, Projection, SessionCapture, NoteLife, TLC

CONSTANTS
  paper, scan, memo,                              \* files to ingest
  paperText, memoText, memoHead,
  episodeA,                                       \* the one on which a thread may die
  LinesBound,                                     \* bound: lines in two episodes
  Parts

VARIABLE part

(* A paper, a scan whose text is found later, and a memo whose head alone  *)
(* is fingerprinted and resembles the paper.                               *)
ArtifactFiles == {paper, scan, memo}
Formats == (paper :> "pdf") @@ (scan :> "pdf") @@ (memo :> "text")
ExtractedText == (paper :> paperText) @@ (scan :> NoExtract) @@ (memo :> memoText)
ExtractedHead == (paperText :> paperText) @@ (memoText :> memoHead)
ArtifactTexts == {paperText, memoText}
ExtractLikeness == [t \in ArtifactTexts |-> [u \in ArtifactTexts |-> IF t = u THEN 100 ELSE 70]]
NoOverlap == {}

(* The processes that ingest are alike.                                    *)
AnyIngester == Permutations(Ingesters)

vaultVars == <<part, ingestVars, projectionVars, captureVars, lifeVars>>

VaultInit ==
  /\ part \in Parts
  /\ IngestInit /\ ProjectionInit /\ CaptureInit /\ LifeInit
  /\ part # "life" => \A n \in Pages : page[n].count = 0

IngestPart ==
  /\ part = "ingest" /\ IngestNext
  /\ UNCHANGED <<part, projectionVars, captureVars, lifeVars>>

ProjectionPart ==
  /\ \/ part = "windows" /\ WindowStep /\ UNCHANGED <<eventVars, leaseVars>>
     \/ part = "events" /\ EventStep /\ UNCHANGED <<windowVars, leaseVars>>
     \/ part = "lease" /\ LeaseStep /\ UNCHANGED <<windowVars, eventVars>>
  /\ UNCHANGED <<part, ingestVars, captureVars, lifeVars>>

(* One episode with a crash, or two without, and fewer requests.            *)
Requested == \E t \in Threads : At(t, "idle") /\ ~At(t, "idle")'

LineCount == Cardinality(UNION {{e} \X DOMAIN lines[e] : e \in Episodes})

CapturePart ==
  /\ CaptureNext
  /\ \/ part = "capture" /\ \A t \in Threads : thread'[t].ep \in {NoEpisode, episodeA}
     \/ part = "episodes" /\ crashes' = 0 /\ (Requested => LineCount < LinesBound)
  /\ UNCHANGED <<part, ingestVars, projectionVars, lifeVars>>

LifePart ==
  /\ part = "life" /\ LifeNext
  /\ UNCHANGED <<part, ingestVars, projectionVars, captureVars>>

VaultNext == IngestPart \/ ProjectionPart \/ CapturePart \/ LifePart

VaultSpec == VaultInit /\ [][VaultNext]_vaultVars

(* Every variable of every part stays in its range.                        *)
VaultTypeOK == IngestTypeOK /\ ProjectionTypeOK /\ CaptureTypeOK /\ LifeTypeOK
=============================================================================
