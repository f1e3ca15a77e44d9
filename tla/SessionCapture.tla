---------------------------- MODULE SessionCapture ----------------------------
(***************************************************************************)
(* Raw session capture (session_capture.py, and the job of jobs.py that    *)
(* closes idle episodes): hooks, command line, HTTP server and daemon      *)
(* write the episodes of one conversation.  The events file is appended to *)
(* under a file lock; the two manifests are read and replaced, and the     *)
(* index raw_episodes upserted, outside of it.                             *)
(***************************************************************************)
EXTENDS Naturals, Sequences, FiniteSets

CONSTANTS
    Episodes,
    Clients,        \* threads that serve capture requests, one at a time each
    Job,            \* the thread of expire_stale_episodes
    NoOne, NoEpisode,
    EventBound,     \* bound: no request on an episode of that many lines
    FaultBound      \* bound: crashes

Threads == Clients \cup {Job}

ASSUME CaptureAssumption ==
    /\ Job \notin Clients /\ NoOne \notin Threads /\ NoEpisode \notin Episodes
    /\ IsFiniteSet(Clients)
    /\ EventBound \in Nat /\ FaultBound \in Nat

VARIABLES
    lines,          \* events.jsonl of each episode
    holder,         \* who has the flock on events.lock
    listed,         \* episode_ids of the conversation's manifest
    manifest,       \* manifest.json of each episode
    index,          \* its row in raw_episodes
    stale,          \* the row's updated_at is stale_episode_threshold_hours ago
    queuedHash,     \* content_hash of the last enqueue_extraction, 0: none
    thread,         \* what each thread is doing
    todo,           \* rows the job has read and not yet closed
    returned,       \* history: appends that have returned
    torn,           \* history: appends that died in the middle of their line
    met,            \* history: two threads were at the episode at once
    crashes         \* history: crashes so far

captureVars == <<lines, holder, listed, manifest, index, stale, queuedHash, thread, todo,
          returned, torn, met, crashes>>

episodeFiles == <<lines, holder, listed, manifest>>
captureHistory == <<returned, torn, met, crashes>>

-----------------------------------------------------------------------------
\* A line is an event, or what is left of one: "cut" has no newline yet, and
\* the next event, appended to it, makes it "junk".  The file only grows, so
\* its length stands for its hash.
Line == [seq : Nat, type : {"episode_started", "message", "episode_ended", "cut", "junk"}]

Readable(e) == {i \in DOMAIN lines[e] : lines[e][i].type \notin {"cut", "junk"}}

Manifest == [status : {"absent", "active", "success", "partial"}, count : Nat, hash : Nat]

NoManifest == [status |-> "absent", count |-> 0, hash |-> 0]

\* Where a thread goes on from each place in the code: begin_episode (b),
\* append_event (a), end_episode (e).
After == [b_list |-> "b_manifest", a_lock |-> "a_write", a_write |-> "a_readconv",
          a_readconv |-> "a_list", a_list |-> "a_readman", a_readman |-> "a_manifest",
          a_manifest |-> "a_readindex", a_readindex |-> "a_index",
          e_readman |-> "e_manifest", e_manifest |-> "e_readconv",
          e_readconv |-> "e_list", e_list |-> "e_readindex",
          e_readindex |-> "e_index", e_index |-> "e_enqueue"]

Pcs == {"idle", "b_manifest", "a_index", "e_enqueue"} \cup DOMAIN After

\* ends: the append is the one of an end_episode, that is to set status;
\* conv, man, hash: what was read of the two manifests and the events file.
Thread == [pc : Pcs, ep : Episodes \cup {NoEpisode}, seq : Nat,
           type : {"none", "episode_started", "message", "episode_ended"},
           status : {"none", "success", "partial"},
           conv : SUBSET Episodes, man : Manifest, hash : Nat]

Idle == [pc |-> "idle", ep |-> NoEpisode, seq |-> 0, type |-> "none", status |-> "none",
         conv |-> {}, man |-> NoManifest, hash |-> 0]

CaptureTypeOK ==
    /\ lines \in [Episodes -> Seq(Line)]
    /\ holder \in [Episodes -> Threads \cup {NoOne}]
    /\ listed \subseteq Episodes
    /\ manifest \in [Episodes -> Manifest] /\ index \in [Episodes -> Manifest]
    /\ stale \subseteq Episodes
    /\ queuedHash \in [Episodes -> Nat]
    /\ thread \in [Threads -> Thread]
    /\ todo \subseteq Episodes
    /\ returned \in [Episodes -> Nat] /\ torn \in [Episodes -> Nat]
    /\ met \subseteq Episodes
    /\ crashes \in 0..FaultBound

CaptureInit ==
    /\ lines = [e \in Episodes |-> <<>>]
    /\ holder = [e \in Episodes |-> NoOne]
    /\ listed = {}
    /\ manifest = [e \in Episodes |-> NoManifest] /\ index = manifest
    /\ stale = {}
    /\ queuedHash = [e \in Episodes |-> 0]
    /\ thread = [t \in Threads |-> Idle]
    /\ todo = {}
    /\ returned = [e \in Episodes |-> 0] /\ torn = returned
    /\ met = {} /\ crashes = 0

At(t, pc) == thread[t].pc = pc

Goes(t) == After[thread[t].pc]

Step(t) == [thread[t] EXCEPT !.pc = Goes(t)]

\* Thread t turns to episode e.
Arrives(t, e) ==
    met' = IF \E u \in Threads \ {t} : thread[u].ep = e THEN met \cup {e} ELSE met

-----------------------------------------------------------------------------
(* Requests.                                                               *)

\* Mutant: the events file is created anew.
BeginTruncates(t, e) ==
    /\ At(t, "idle") /\ t \in Clients
    /\ lines' = [lines EXCEPT ![e] = <<>>]
    /\ thread' = [thread EXCEPT ![t] = [Idle EXCEPT !.pc = "b_list", !.ep = e,
                                                    !.conv = listed \cup {e}]]
    /\ Arrives(t, e)
    /\ UNCHANGED <<holder, listed, manifest, index, stale, queuedHash, todo, returned, torn, crashes>>

\* begin_episode: makes the directory and the files, reads the conversation's
\* manifest.
BeginEpisode(t, e) ==
    /\ At(t, "idle") /\ t \in Clients
    /\ thread' = [thread EXCEPT ![t] = [Idle EXCEPT !.pc = "b_list", !.ep = e,
                                                    !.conv = listed \cup {e}]]
    /\ Arrives(t, e)
    /\ UNCHANGED <<episodeFiles, index, stale, queuedHash, todo, returned, torn, crashes>>

\* The new manifest; the first event only when there is none.
WriteNewManifest(t) ==
    /\ At(t, "b_manifest")
    /\ LET e == thread[t].ep
       IN  /\ manifest' = [manifest EXCEPT ![e] =
                              [status |-> "active", count |-> Len(lines[e]), hash |-> 0]]
           /\ thread' = [thread EXCEPT ![t] =
                  IF lines[e] = <<>>
                  THEN [Idle EXCEPT !.pc = "a_lock", !.ep = e, !.type = "episode_started"]
                  ELSE [Idle EXCEPT !.pc = "a_readindex", !.ep = e]]
    /\ UNCHANGED <<lines, holder, listed, index, stale, queuedHash, todo, captureHistory>>

\* The ids of an episode come from a begin_episode that has returned.
AppendEvent(t, e) ==
    /\ At(t, "idle") /\ t \in Clients
    /\ manifest[e] # NoManifest /\ Len(lines[e]) < EventBound
    /\ thread' = [thread EXCEPT ![t] = [Idle EXCEPT !.pc = "a_lock", !.ep = e,
                                                    !.type = "message"]]
    /\ Arrives(t, e)
    /\ UNCHANGED <<episodeFiles, index, stale, queuedHash, todo, returned, torn, crashes>>

\* Mutant: the end of an idle episode is given a status no client can give.
EndingAbandoned(e, status) ==
    [Idle EXCEPT !.pc = "a_lock", !.ep = e, !.type = "episode_ended",
                 !.status = IF status = "partial" THEN "expired" ELSE status]

Ending(e, status) == [Idle EXCEPT !.pc = "a_lock", !.ep = e, !.type = "episode_ended",
                                  !.status = status]

EndEpisode(t, e) ==
    /\ At(t, "idle") /\ t \in Clients
    /\ manifest[e] # NoManifest /\ Len(lines[e]) < EventBound
    /\ thread' = [thread EXCEPT ![t] = Ending(e, "success")]
    /\ Arrives(t, e)
    /\ UNCHANGED <<episodeFiles, index, stale, queuedHash, todo, returned, torn, crashes>>

-----------------------------------------------------------------------------
(* The job that closes idle episodes.                                      *)

\* No request takes hours.
HoursPass(e) ==
    /\ index[e].status = "active" /\ e \notin stale
    /\ \A t \in Threads : thread[t].ep # e
    /\ stale' = stale \cup {e}
    /\ UNCHANGED <<episodeFiles, index, queuedHash, thread, todo, captureHistory>>

\* What the job has to close, now.
Expired(e) == e \in stale /\ index[e].status = "active"

ListStaleEpisodes ==
    /\ At(Job, "idle") /\ todo = {}
    /\ todo' = {e \in Episodes : Expired(e) /\ Len(lines[e]) < EventBound}
    /\ todo' # {}
    /\ UNCHANGED <<episodeFiles, index, stale, queuedHash, thread, captureHistory>>

\* The next row of the list, as it was read.
ExpireEpisode(e) ==
    /\ At(Job, "idle") /\ e \in todo
    /\ todo' = todo \ {e}
    /\ thread' = [thread EXCEPT ![Job] = Ending(e, "partial")]
    /\ Arrives(Job, e)
    /\ UNCHANGED <<episodeFiles, index, stale, queuedHash, returned, torn, crashes>>

-----------------------------------------------------------------------------
(* append_event and end_episode.                                           *)

SeqsOf(e) == {lines[e][i].seq : i \in Readable(e)}

LatestSeq(e) == IF SeqsOf(e) = {} THEN 0
                ELSE CHOOSE n \in SeqsOf(e) : \A m \in SeqsOf(e) : m <= n

\* flock, and the number of the event.
Lock(t) ==
    /\ At(t, "a_lock") /\ holder[thread[t].ep] = NoOne
    /\ holder' = [holder EXCEPT ![thread[t].ep] = t]
    /\ thread' = [thread EXCEPT ![t] = [Step(t) EXCEPT !.seq = LatestSeq(thread[t].ep) + 1]]
    /\ UNCHANGED <<lines, listed, manifest, index, stale, queuedHash, todo, captureHistory>>

\* The file with a line appended, or the beginning of one.
Appended(e, line) ==
    LET n == Len(lines[e])
    IN  IF n > 0 /\ lines[e][n].type = "cut"
        THEN [lines[e] EXCEPT ![n].type = IF line.type = "cut" THEN "cut" ELSE "junk"]
        ELSE Append(lines[e], line)

\* Write, fsync, release the lock.
Write(t) ==
    /\ At(t, "a_write")
    /\ LET e == thread[t].ep
       IN  /\ lines' = [lines EXCEPT ![e] =
                           Appended(e, [seq |-> thread[t].seq, type |-> thread[t].type])]
           /\ holder' = [holder EXCEPT ![e] = NoOne]
    /\ thread' = [thread EXCEPT ![t] = [Step(t) EXCEPT !.seq = 0]]
    /\ UNCHANGED <<listed, manifest, index, stale, queuedHash, todo, captureHistory>>

ReadConversation(t) ==
    /\ thread[t].pc \in {"a_readconv", "e_readconv"}
    /\ thread' = [thread EXCEPT ![t] = [Step(t) EXCEPT !.conv = listed]]
    /\ UNCHANGED <<episodeFiles, index, stale, queuedHash, todo, captureHistory>>

\* The conversation's manifest is replaced (last_active_at, new episodes).
WriteConversation(t) ==
    /\ thread[t].pc \in {"b_list", "a_list", "e_list"}
    /\ listed' = thread[t].conv
    /\ thread' = [thread EXCEPT ![t] = [Step(t) EXCEPT !.conv = {}]]
    /\ UNCHANGED <<lines, holder, manifest, index, stale, queuedHash, todo, captureHistory>>

ReadManifest(t) ==
    /\ thread[t].pc \in {"a_readman", "e_readman"}
    /\ LET e == thread[t].ep
       IN  thread' = [thread EXCEPT ![t] =
              [Step(t) EXCEPT !.man = manifest[e],
                              !.hash = IF At(t, "e_readman") THEN Len(lines[e]) ELSE 0]]
    /\ UNCHANGED <<episodeFiles, index, stale, queuedHash, todo, captureHistory>>

\* Mutant: the count goes into the manifest, the hash does not.
ClosedUnhashed(t) ==
    [status |-> thread[t].status, count |-> Len(lines[thread[t].ep]),
     hash |-> thread[t].man.hash]

\* What an end makes of the manifest.
Closed(t) ==
    [status |-> thread[t].status, count |-> Len(lines[thread[t].ep]), hash |-> thread[t].hash]

WriteManifest(t) ==
    /\ thread[t].pc \in {"a_manifest", "e_manifest"}
    /\ LET e == thread[t].ep
       IN  manifest' = [manifest EXCEPT ![e] =
              IF At(t, "e_manifest") THEN Closed(t)
              ELSE [thread[t].man EXCEPT !.count = Len(lines[e])]]
    /\ thread' = [thread EXCEPT ![t] = [Step(t) EXCEPT !.man = NoManifest]]
    /\ UNCHANGED <<lines, holder, listed, index, stale, queuedHash, todo, captureHistory>>

ReadForIndex(t) ==
    /\ thread[t].pc \in {"a_readindex", "e_readindex"}
    /\ thread' = [thread EXCEPT ![t] = [Step(t) EXCEPT !.man = manifest[thread[t].ep]]]
    /\ UNCHANGED <<episodeFiles, index, stale, queuedHash, todo, captureHistory>>

\* Status and hash as read, the lines counted now; an append that is part of an
\* end_episode goes on with it, any other has returned.
UpsertIndex(t) ==
    /\ thread[t].pc \in {"a_index", "e_index"}
    /\ LET e == thread[t].ep
           next == CASE At(t, "e_index") -> [Step(t) EXCEPT !.man = NoManifest]
                     [] At(t, "a_index") /\ thread[t].type = "episode_ended" ->
                            [Ending(e, thread[t].status) EXCEPT !.pc = "e_readman"]
                     [] OTHER -> Idle
       IN  /\ index' = [index EXCEPT ![e] = [thread[t].man EXCEPT !.count = Len(lines[e])]]
           /\ stale' = stale \ {e}
           /\ returned' = IF At(t, "a_index") /\ thread[t].type # "none"
                       THEN [returned EXCEPT ![e] = @ + 1] ELSE returned
           /\ thread' = [thread EXCEPT ![t] = next]
    /\ UNCHANGED <<episodeFiles, queuedHash, todo, torn, met, crashes>>

EnqueueExtraction(t) ==
    /\ At(t, "e_enqueue")
    /\ queuedHash' = [queuedHash EXCEPT ![thread[t].ep] = thread[t].hash]
    /\ thread' = [thread EXCEPT ![t] = Idle]
    /\ UNCHANGED <<episodeFiles, index, stale, todo, captureHistory>>

\* A write may fail half-way, any step may be the last; the lock is let go.
Crash(t) ==
    /\ ~At(t, "idle") /\ crashes < FaultBound
    /\ LET e == thread[t].ep
       IN  /\ \/ UNCHANGED <<lines, torn>>
              \/ /\ At(t, "a_write")
                 /\ lines' = [lines EXCEPT ![e] = Appended(e, [seq |-> thread[t].seq, type |-> "cut"])]
                 /\ torn' = [torn EXCEPT ![e] = @ + 1]
           /\ holder' = IF holder[e] = t THEN [holder EXCEPT ![e] = NoOne] ELSE holder
    /\ crashes' = crashes + 1
    /\ thread' = [thread EXCEPT ![t] = Idle]
    /\ todo' = IF t = Job THEN {} ELSE todo
    /\ UNCHANGED <<listed, manifest, index, stale, queuedHash, returned, met>>

-----------------------------------------------------------------------------
CaptureNext ==
    \/ \E t \in Clients, e \in Episodes :
          BeginEpisode(t, e) \/ AppendEvent(t, e) \/ EndEpisode(t, e)
    \/ \E e \in Episodes : HoursPass(e) \/ ExpireEpisode(e)
    \/ ListStaleEpisodes
    \/ \E t \in Threads :
          \/ WriteNewManifest(t) \/ Lock(t) \/ Write(t)
          \/ ReadConversation(t) \/ WriteConversation(t)
          \/ ReadManifest(t) \/ WriteManifest(t)
          \/ ReadForIndex(t) \/ UpsertIndex(t) \/ EnqueueExtraction(t)
          \/ Crash(t)

CaptureSpec == CaptureInit /\ [][CaptureNext]_captureVars

-----------------------------------------------------------------------------
(* Properties.                                                             *)

\* An append that returned is in the file for good, whoever appended beside it
\* and whatever died half-way: only a line cut short makes the event after it
\* unreadable, and the events are numbered in the order they are in the file.
NoEventLost ==
    \A e \in Episodes :
        /\ Cardinality(Readable(e)) + torn[e] >= returned[e]
        /\ \A i, j \in Readable(e) : i < j => lines[e][i].seq < lines[e][j].seq

\* Nobody is at work on the episode, and so far they came one at a time.
Quiet(e) == e \notin met /\ crashes = 0 /\ \A t \in Threads : thread[t].ep # e

\* What index and queue say of an episode is what its manifest says, whatever
\* other threads do meanwhile with other episodes, and though the job closes
\* what it has found in a list it read before a client ended it: the row counts
\* the events in the file, and a closed episode is queued for extraction with
\* the hash taken when the event that closed it was in the file, the last.
\* (Two threads at one episode break it: its manifest is read and replaced
\* outside of the lock.)
EpisodeRecordsAgree ==
    \A e \in Episodes : Quiet(e) /\ manifest[e] # NoManifest =>
        /\ index[e] = manifest[e] /\ index[e].count = Len(lines[e])
        /\ manifest[e].status \in {"success", "partial"} =>
             /\ queuedHash[e] = manifest[e].hash
             /\ lines[e][queuedHash[e]].type = "episode_ended"

=============================================================================
