------------------------------- MODULE Game --------------------------------
(***************************************************************************)
(* The library game (src/mnemonicos_game): one process whose frame loop    *)
(* handles a key or a click, polls the vault for changes and draws.  The   *)
(* runtime is one record of the loop's memory; next to it stand the vault  *)
(* on disk, the world snapshot loaded from it, and the three files under   *)
(* brain/game.  Any step can end the process: ESC saves first, closing the *)
(* window or an uncaught exception does not, and a kill while a file is    *)
(* being written leaves it unreadable.                                     *)
(*                                                                         *)
(* Walking is abstracted to which object is near when Space is pressed,    *)
(* list cursors and scrolling to which offered item is chosen, an overlay  *)
(* to its mode and the items it offers.                                    *)
(***************************************************************************)
EXTENDS Naturals, FiniteSets

CONSTANTS
  Wiki,            \* note ids
  Books,           \* session slugs
  NoRef,           \* Python's None
  Section,         \* [Wiki \cup Books -> section key]
  Related,         \* [Wiki -> SUBSET Wiki]: a shared tag, source or section
  SourcesOf,       \* [Wiki -> SUBSET Books]: the sessions a note's source_refs name
  EarlierFiles,    \* [bookmarks, state]: what earlier runs can have left under brain/game
  VaultAtFirst,    \* the refs whose files are there at first
  GameEditBound,   \* changes of the vault by others, per behaviour
  StartBound       \* starts of the game, per behaviour

VARIABLES
  loop,           \* "stopped", "starting" (world loaded, watcher not primed), "running"
  game,            \* GameRuntime: the loop's memory
  disk,            \* the refs whose file is in the vault
  loaded,          \* the refs of runtime.snapshot
  dirty,           \* the vault differs from the watcher's last signature
  bookmarksFile,   \* bookmarks.json: its refs, or Unreadable (absent or torn)
  stateFile,       \* state.json: [scene, refs], or NoState
  dismissed,       \* prefs.json: onboarding_dismissed
  edits,           \* at first what is left of the bound is open
  starts

worldVars == <<disk, loaded, dirty, edits>>
fileVars == <<bookmarksFile, stateFile, dismissed>>
gameVars == <<loop, game, worldVars, fileVars, starts>>

Refs == Wiki \cup Books

(* A file that is absent or does not parse; no list of refs.               *)
Unreadable == {NoRef}
NoState == [scene |-> "library", refs |-> Unreadable]

Overlay(mode, items) == [mode |-> mode, items |-> items, step |-> "none"]
Closed == Overlay("none", {})
Inspect == Overlay("inspect", {})
IntakeAt(step) == [Overlay("intake", {}) EXCEPT !.step = step]
IntakeSteps == <<"source", "title", "summary", "type", "confirm">>

NoTrail == [source |-> NoRef, sections |-> {}]

ASSUME GameAssumption ==
  /\ NoRef \notin Refs
  /\ Related \in [Wiki -> SUBSET Wiki] /\ SourcesOf \in [Wiki -> SUBSET Books]
  /\ \A files \in EarlierFiles :
       /\ files.bookmarks \in (SUBSET Refs) \cup {Unreadable}
       /\ files.state \in [scene : {"library", "vault"}, refs : SUBSET Refs] \cup {NoState}
  /\ VaultAtFirst \subseteq Refs
  /\ GameEditBound \in Nat /\ StartBound \in Nat

(* overlay_return is None exactly when back is Closed: copy_overlay is     *)
(* never called on an overlay of mode "none".                              *)
Runtime(marks, scene, overlay) ==
  [overlay |-> overlay, back |-> Closed, entry |-> NoRef, session |-> NoRef, carried |-> NoRef,
   target |-> NoRef, highlighted |-> NoRef, trail |-> NoTrail,
   scene |-> scene, bookmarks |-> marks]

Off == Runtime({}, "library", Closed)

GameInit ==
  /\ loop = "stopped" /\ game = Off
  /\ disk = VaultAtFirst /\ loaded = {} /\ dirty = FALSE
  /\ \E files \in EarlierFiles :
       /\ bookmarksFile = files.bookmarks /\ stateFile = files.state
       /\ dismissed = (files.state # NoState)
  /\ edits \in 0..GameEditBound /\ starts = 0

----------------------------------------------------------------------------
(* What the handlers compute.                                              *)

Shows(g, overlay) == [g EXCEPT !.overlay = overlay]
Descend(g, overlay) == [g EXCEPT !.back = g.overlay, !.overlay = overlay]

Focus(g, ref) ==
  [g EXCEPT !.entry = IF ref \in Wiki THEN ref ELSE NoRef,
            !.session = IF ref \in Books THEN ref ELSE NoRef,
            !.target = IF ref \in Wiki THEN ref ELSE @]

RelatedIn(note, world) == (Related[note] \cap world) \ {note}

(* related_section_keys(...)[:3]; the instances have at most three.        *)
RelatedSections(note, world) ==
  {Section[n] : n \in RelatedIn(note, world)} \ {Section[note]}

TrailOf(note, world) == [source |-> note, sections |-> RelatedSections(note, world)]

JumpCandidates(note) == SourcesOf[note] \cap loaded

JumpToSession(g, book, open) ==
  [g EXCEPT !.scene = "vault", !.entry = NoRef, !.session = book,
            !.highlighted = IF book \in loaded THEN book ELSE @,
            !.overlay = IF open THEN Inspect ELSE Closed]

CounterMenu(g) ==
  [g EXCEPT !.overlay = Overlay("counter-menu", {}),
            !.target = IF g.carried \in Wiki \cap loaded THEN g.carried
                       ELSE IF g.carried \in Books THEN NoRef ELSE @]

CounterLinks(g) ==
  LET links == IF g.carried \in Wiki
                 THEN {g.carried} \cup RelatedIn(g.carried, loaded)
                        \cup JumpCandidates(g.carried)
                 ELSE {g.carried} \cup {n \in Wiki \cap loaded : g.carried \in SourcesOf[n]}
  IN  [g EXCEPT !.overlay = Overlay("counter-links", IF g.carried \in loaded THEN links ELSE {}),
                !.target = IF g.carried \in Wiki \cap loaded THEN g.carried ELSE @]

CloseCounter(g) ==
  [g EXCEPT !.carried = NoRef, !.target = NoRef, !.overlay = Closed, !.back = Closed]

BookmarksOverlay(g) ==
  LET marks == g.bookmarks \cap loaded
  IN  [g EXCEPT !.bookmarks = marks, !.overlay = Overlay("bookmarks", marks)]

(* sync_bookmarks writes the file only when it drops a bookmark.           *)
FileAfterSync(marks, world) ==
  IF marks \subseteq world THEN bookmarksFile ELSE marks \cap world

----------------------------------------------------------------------------
(* How a handler ends.                                                     *)

Running == loop = "running"
In(modes) == Running /\ game.overlay.mode \in modes

Becomes(g) == game' = g /\ UNCHANGED <<loop, worldVars, fileVars, starts>>

BecomesSaving(g, marks) ==
  /\ game' = g /\ bookmarksFile' = marks
  /\ UNCHANGED <<loop, worldVars, stateFile, dismissed, starts>>

Exits ==
  /\ loop' = "stopped" /\ game' = Off
  /\ loaded' = {} /\ dirty' = FALSE
  /\ UNCHANGED <<disk, edits, starts>>

(* An index miss (KeyError) or a file gone since the last reload           *)
(* (FileNotFoundError) leaves the frame loop; nothing is saved.            *)
Reads(ref, g) ==
  IF ref \in loaded \cap disk THEN Becomes(g) ELSE Exits /\ UNCHANGED fileVars

----------------------------------------------------------------------------
(* Starting and ending.                                                    *)

KeptOnDisk ==
  IF bookmarksFile # Unreadable THEN bookmarksFile
  ELSE IF stateFile # NoState THEN stateFile.refs ELSE {}

(* main loads the world before run_game sets anything up.                  *)
LoadWorld ==
  /\ loop = "stopped" /\ starts < StartBound
  /\ loop' = "starting" /\ loaded' = disk /\ starts' = starts + 1
  /\ UNCHANGED <<game, disk, dirty, edits, fileVars>>

(* The position saved may not fit the new layout: the state is then        *)
(* ignored, its bookmarks with it.  The watcher is primed with what the    *)
(* disk holds now, not with what was loaded.                               *)
RunGame ==
  /\ loop = "starting"
  /\ \E fits \in BOOLEAN :
       LET saved == fits /\ stateFile # NoState
           refs == IF bookmarksFile # Unreadable THEN bookmarksFile
                   ELSE IF saved THEN stateFile.refs ELSE {}
       IN  game' = Runtime(refs \cap loaded,
                           IF saved THEN stateFile.scene ELSE "library",
                           IF dismissed THEN Closed ELSE Overlay("onboarding", {}))
  /\ loop' = "running" /\ dirty' = FALSE
  /\ UNCHANGED <<disk, loaded, edits, fileVars, starts>>

QuitSaving ==
  /\ In({"none"})
  /\ Exits
  /\ bookmarksFile' = game.bookmarks
  /\ stateFile' = [scene |-> game.scene, refs |-> game.bookmarks]
  /\ UNCHANGED dismissed

(* The window is closed or the process dies between two frames.            *)
CloseWindow == Running /\ Exits /\ UNCHANGED fileVars

(* write_text truncates before it writes: a kill in between leaves a file  *)
(* that does not parse.                                                    *)
KilledWhileSaving ==
  /\ In({"none", "bookmarks", "inspect"})
  /\ Exits
  /\ \/ bookmarksFile' = Unreadable /\ UNCHANGED stateFile
     \/ game.overlay.mode = "none" /\ bookmarksFile' = game.bookmarks /\ stateFile' = NoState
  /\ UNCHANGED dismissed

----------------------------------------------------------------------------
(* The world outside and the two polls of the frame loop.                  *)

(* One file comes or goes; or the watched daemon.log alone grows.          *)
VaultChanges ==
  /\ edits < GameEditBound
  /\ disk' \in {disk} \cup {disk \cup {ref} : ref \in Refs} \cup {disk \ {ref} : ref \in Refs}
  /\ dirty' = TRUE /\ edits' = edits + 1
  /\ UNCHANGED <<loop, game, loaded, fileVars, starts>>

(* The focused note survives a reload if its file did; the focused session *)
(* is taken from the highlighted one.  The carried item, the daemon's      *)
(* target and the items of an open overlay are left as they were.          *)
KeptFocus(g, world) ==
  LET kept == g.highlighted \in world
  IN  [g EXCEPT !.entry = IF @ \in world THEN @ ELSE NoRef,
                !.session = IF kept THEN g.highlighted ELSE NoRef]

KeptTrail(g, world) ==
  IF g.trail.source \in world THEN TrailOf(g.trail.source, world) ELSE NoTrail

ReloadWorld ==
  /\ Running /\ dirty
  /\ loaded' = disk /\ dirty' = FALSE
  /\ game' = [KeptFocus(game, disk) EXCEPT !.trail = KeptTrail(game, disk),
                                            !.bookmarks = @ \cap disk]
  /\ bookmarksFile' = FileAfterSync(game.bookmarks, disk)
  /\ UNCHANGED <<loop, disk, edits, stateFile, dismissed, starts>>

----------------------------------------------------------------------------
(* Keys with no overlay open.                                              *)

TakeStairs ==
  In({"none"}) /\ \E scene \in {"library", "vault"} \ {game.scene} :
    Becomes([game EXCEPT !.scene = scene, !.overlay = Closed])

(* What the last probe of the daemon's socket said: it can change every    *)
(* second, so each visit finds either answer.                              *)
DaemonUp == BOOLEAN

(* B at the counter serves a carried item whether or not the daemon is up; *)
(* Space asks first.                                                       *)
VisitCounter ==
  /\ In({"none"}) /\ game.scene = "library"
  /\ \/ game.carried # NoRef /\ Becomes(CounterMenu(game))
     \/ \E up \in DaemonUp :
          \/ up /\ game.carried = NoRef /\ Becomes(Shows(game, Overlay("daemon", {})))
          \/ ~up /\ Becomes(Shows(game, Inspect))

ReadBoard ==
  /\ In({"none"}) /\ game.scene = "library"
  /\ Becomes([game EXCEPT !.overlay = Overlay("board", {}), !.back = Closed])

OpenShelf ==
  /\ In({"none"})
  /\ \E section \in {Section[ref] : ref \in Refs} :
       LET shelf == {ref \in loaded : Section[ref] = section}
                      \cap (IF game.scene = "vault" THEN Books ELSE Wiki)
       IN  Becomes([game EXCEPT !.overlay = Overlay("shelf", shelf), !.back = Closed])

ClearTrailKey ==
  /\ In({"none"}) /\ game.trail.source # NoRef
  /\ Becomes([game EXCEPT !.trail = NoTrail])

OpenSkinPicker == In({"none"}) /\ Becomes(Shows(game, Overlay("skin-picker", {})))
ConfirmSkin == In({"skin-picker"}) /\ Becomes(Shows(game, Closed))

(* Tab is also what an intake step falls through to: the draft is dropped. *)
OpenBookmarks ==
  /\ In({"none", "intake"})
  /\ BecomesSaving(BookmarksOverlay(game), FileAfterSync(game.bookmarks, loaded))

DismissOnboarding ==
  /\ In({"onboarding"})
  /\ game' = Shows(game, Closed) /\ dismissed' = TRUE
  /\ UNCHANGED <<loop, worldVars, bookmarksFile, stateFile, starts>>

----------------------------------------------------------------------------
(* Escape: one level up, wherever the overlay came from.                   *)

IntakeStep == CHOOSE i \in 1..5 : IntakeSteps[i] = game.overlay.step

\* Mutant: ESC goes back to the overlay before and keeps it to go back to.
EscapeKeeping(g) == Shows(g, g.back)
EscapeOverlay(g) == [g EXCEPT !.overlay = g.back, !.back = Closed]

Escape ==
  /\ Running /\ game.overlay.mode \notin {"none", "onboarding"}
  /\ CASE game.overlay.mode = "skin-picker" -> Becomes(Shows(game, Closed))
       [] game.overlay.mode = "counter-menu" -> Becomes(CloseCounter(game))
       [] game.overlay.mode = "counter-links" -> Becomes(CounterMenu(game))
       [] game.overlay.mode = "intake" /\ game.overlay.step \in {"archived", "error"} ->
            Becomes(Shows(game, IntakeAt("confirm")))
       [] game.overlay.mode = "intake" /\ game.overlay.step \notin {"source", "archived", "error"} ->
            Becomes(Shows(game, IntakeAt(IntakeSteps[IntakeStep - 1])))
       [] OTHER -> Becomes(EscapeOverlay(game))

----------------------------------------------------------------------------
(* Reading: shelves, the counter's materials, a note or a session.         *)

OpenItem ==
  /\ In({"shelf", "counter-links"})
  /\ \E ref \in game.overlay.items : Reads(ref, Focus(Descend(game, Inspect), ref))

(* The thread trail opens a report over the note; a second F clears it.    *)
FollowThread ==
  /\ In({"inspect"}) /\ game.entry \in loaded
  /\ IF game.trail.source = game.entry
       THEN Becomes([game EXCEPT !.trail = NoTrail])
       ELSE /\ RelatedSections(game.entry, loaded) # {}
            /\ Becomes([Descend(game, Inspect) EXCEPT !.trail = TrailOf(game.entry, loaded)])

(* A single source is opened, several are offered; the picker keeps the    *)
(* books themselves, so a choice needs no index, and opens no file.        *)
JumpToSource ==
  /\ In({"inspect"}) /\ game.entry \in loaded
  /\ \/ Cardinality(JumpCandidates(game.entry)) > 1
        /\ Becomes(Shows(game, Overlay("picker", JumpCandidates(game.entry))))
     \/ \E book \in JumpCandidates(game.entry) :
          /\ JumpCandidates(game.entry) = {book}
          /\ Reads(book, JumpToSession(game, book, TRUE))

PickSource ==
  In({"picker"}) /\ \E book \in game.overlay.items : Becomes(JumpToSession(game, book, FALSE))

\* Mutant: the file is written on leaving the game only.
FileLeftToExit(marks, ref) == bookmarksFile

FileAfterAdd(marks, ref) == IF ref \in marks THEN bookmarksFile ELSE marks \cup {ref}

(* B carries the focused note or session, and bookmarks it; on the item    *)
(* already carried it puts it back.                                        *)
CarryCurrent ==
  /\ In({"inspect"}) /\ \/ game.entry # NoRef
                        \/ game.session # NoRef
  /\ LET ref == IF game.entry # NoRef THEN game.entry ELSE game.session
     IN  IF game.carried = ref
           THEN Becomes([game EXCEPT !.carried = NoRef])
           ELSE BecomesSaving(
                  [game EXCEPT !.carried = ref, !.bookmarks = @ \cup {ref},
                               !.overlay = Closed, !.back = Closed],
                  FileAfterAdd(game.bookmarks, ref))

RemoveBookmark ==
  /\ In({"bookmarks"})
  /\ \E ref \in game.overlay.items :
       LET marks == game.bookmarks \ {ref}
       IN  BecomesSaving(BookmarksOverlay([game EXCEPT !.bookmarks = marks]), marks \cap loaded)

(* A bookmark whose item left the world is removed instead of opened.      *)
OpenBookmark ==
  /\ In({"bookmarks"})
  /\ \E ref \in game.overlay.items :
       LET marks == game.bookmarks \ {ref}
           opened == IF ref \in Books THEN JumpToSession(game, ref, TRUE)
                     ELSE Focus([game EXCEPT !.scene = "library", !.overlay = Inspect], ref)
       IN  IF ref \notin loaded
             THEN BecomesSaving(BookmarksOverlay([game EXCEPT !.bookmarks = marks]),
                                marks \cap loaded)
             ELSE Reads(ref, opened)

CloseBookmarks == In({"bookmarks"}) /\ Becomes(Shows(game, Closed))

----------------------------------------------------------------------------
(* The daemon's counter and the notice board.                              *)

DaemonTopic == IF game.target # NoRef THEN game.target ELSE game.entry

(* The services are reports; the guide also lays a trail.                  *)
AskDaemon ==
  /\ In({"daemon"})
  /\ \/ Becomes(Descend(game, IntakeAt("source")))
     \/ Becomes(Descend(game, Inspect))
     \/ /\ DaemonTopic \in loaded /\ RelatedSections(DaemonTopic, loaded) # {}
        /\ Becomes([Descend(game, Inspect) EXCEPT !.trail = TrailOf(DaemonTopic, loaded)])

AskBoard ==
  \/ In({"board"}) /\ Becomes(Descend(game, Overlay("board-maintenance", {})))
  \/ In({"board", "board-maintenance"}) /\ Becomes(Descend(game, Inspect))

SummonLinks == In({"counter-menu"}) /\ Becomes(CounterLinks(game))
BackToActions == In({"counter-links"}) /\ Becomes(CounterMenu(game))

Summarize ==
  In({"counter-menu"}) /\
    Becomes([CounterMenu(game) EXCEPT !.overlay = Inspect, !.back = Overlay("counter-menu", {})])

Teleport ==
  /\ In({"counter-menu"}) /\ game.carried \in loaded
  /\ LET books == IF game.carried \in Books THEN {game.carried} ELSE JumpCandidates(game.carried)
     IN  \/ Cardinality(books) > 1 /\ Becomes(Shows(game, Overlay("picker", books)))
         \/ \E book \in books : books = {book} /\ Reads(book, JumpToSession(game, book, TRUE))

PlaceBack == In({"counter-menu"}) /\ Becomes(CloseCounter(game))

(* The intake ritual: a step is left by Enter on a field that is not empty.*)
Intake ==
  /\ In({"intake"})
  /\ \/ /\ game.overlay.step \in {"source", "title", "summary", "type"}
        /\ Becomes(Shows(game, IntakeAt(IntakeSteps[IntakeStep + 1])))
     \/ /\ game.overlay.step \in {"archived", "error"}
        /\ Becomes([game EXCEPT !.overlay = Closed, !.back = Closed])

(* The confirmed draft becomes a session file, or the write fails.         *)
ConfirmIntake ==
  /\ In({"intake"}) /\ game.overlay.step = "confirm"
  /\ \/ Becomes(Shows(game, IntakeAt("error")))
     \/ /\ edits < GameEditBound
        /\ \E book \in Books \ disk : disk' = disk \cup {book}
        /\ game' = Shows(game, IntakeAt("archived"))
        /\ dirty' = TRUE /\ edits' = edits + 1
        /\ UNCHANGED <<loop, loaded, fileVars, starts>>

GameNext ==
  \/ LoadWorld \/ RunGame \/ QuitSaving \/ CloseWindow \/ KilledWhileSaving
  \/ VaultChanges \/ ReloadWorld
  \/ TakeStairs \/ VisitCounter \/ ReadBoard \/ OpenShelf \/ ClearTrailKey
  \/ OpenSkinPicker \/ ConfirmSkin \/ OpenBookmarks \/ DismissOnboarding \/ Escape
  \/ OpenItem \/ FollowThread \/ JumpToSource \/ PickSource \/ CarryCurrent
  \/ RemoveBookmark \/ OpenBookmark \/ CloseBookmarks
  \/ AskDaemon \/ AskBoard \/ SummonLinks \/ BackToActions \/ Summarize
  \/ Teleport \/ PlaceBack \/ Intake \/ ConfirmIntake

GameSpec == GameInit /\ [][GameNext]_gameVars

----------------------------------------------------------------------------
Modes == {"none", "skin-picker", "onboarding", "counter-menu", "counter-links", "intake",
          "inspect", "bookmarks", "shelf", "daemon", "board", "board-maintenance", "picker"}

(* Every variable stays in its range, and a carried item is one item.      *)
GameTypeOK ==
  /\ loop \in {"stopped", "starting", "running"}
  /\ disk \subseteq Refs /\ loaded \subseteq Refs
  /\ dirty \in BOOLEAN /\ dismissed \in BOOLEAN
  /\ bookmarksFile = Unreadable \/ bookmarksFile \subseteq Refs
  /\ game.overlay.mode \in Modes /\ game.back.mode \in Modes
  /\ game.overlay.items \subseteq Refs
  /\ {game.entry, game.target} \subseteq Wiki \cup {NoRef}
  /\ {game.session, game.highlighted} \subseteq Books \cup {NoRef}
  /\ game.carried \in Refs \cup {NoRef}
  /\ edits \in 0..GameEditBound /\ starts \in 0..StartBound

(* While the game runs, every bookmark it shows is also in the file a      *)
(* restart would read, whatever ended the run before: a crash, a closed    *)
(* window or a write cut short costs no bookmark the player still sees.    *)
BookmarksSurvive == Running => game.bookmarks \subseteq KeptOnDisk

(* The trail drawn in the room always leads from a note of the loaded      *)
(* world to the sections its neighbours have in that world, across every   *)
(* reload of a vault that others edit.                                     *)
TrailFollowsWorld ==
  Running /\ game.trail.source # NoRef =>
    /\ game.trail.source \in loaded
    /\ game.trail = TrailOf(game.trail.source, loaded)

(* What the player put down or set out on is never lost to a crash or to a *)
(* change of the vault.                                                    *)
GameConsistent == BookmarksSurvive /\ TrailFollowsWorld

(* Escape always gets the player out: overlays are kept one level deep, in *)
(* a slot many handlers fill and few empty, and still each Escape brings   *)
(* the loop strictly nearer to the room.                                   *)
Steps(overlay) ==
  CASE overlay.mode = "none" -> 0
    [] overlay.mode = "counter-links" -> 2
    [] overlay.mode = "intake" ->
         (CASE overlay.step = "source" -> 1 [] overlay.step = "title" -> 2
            [] overlay.step = "summary" -> 3 [] overlay.step = "type" -> 4
            [] overlay.step = "confirm" -> 5 [] OTHER -> 6)
    [] OTHER -> 1
EscapesNeeded(g) == IF g.overlay = Closed THEN 0 ELSE Steps(g.overlay) + Steps(g.back)
EscapesLeave == [][Escape => EscapesNeeded(game') < EscapesNeeded(game)]_gameVars
=============================================================================
