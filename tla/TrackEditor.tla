---------------------------- MODULE TrackEditor ----------------------------
(* The web app's library and track editor: App.tsx, what the user does on the *)
(* welcome, upload and view screens, what an agent does through the bridge    *)
(* (handleMcpCommand), and the answers of the server, which arrive at any     *)
(* time.                                                                      *)
(*                                                                            *)
(* A track is the file it came from and a revision, its content: every edit   *)
(* makes a new one.  A callback works with the state of the render that made  *)
(* it, so what a handler reads before an await is carried in the request.      *)
(* Bound: a file of the library holds one track.                               *)
EXTENDS Naturals, SequencesExt, FiniteSetsExt, Functions

CONSTANTS
    Files,          \* file names of the library
    MaxRevs,        \* bound: revisions ever made
    MaxTracks,      \* bound: tracks a document is split into
    MaxLists        \* bound: listings in flight

VARIABLES
    library,        \* server: what each file holds, 0 when there is no such file
    tracks, selected, history, dirty,       \* the open document
    selection,      \* the track's content the marked section was picked on, 0 without one
    screen,         \* viewMode
    loading,        \* the request under the loading overlay, or Idle
    agent,          \* the agent's open_track or load_pois in flight, or Idle
    saving,         \* the save in flight, or Idle
    deleting,       \* the file whose deletion is in flight, or "none"
    cards,          \* savedFiles: the files the library shows
    lists,          \* listings the server has answered and the page has not applied
    pois,           \* the content around which the shown POIs were searched, 0 without any
    revs            \* revisions made so far

editorVars == <<library, tracks, selected, history, dirty, selection, screen, loading,
                agent, saving, deleting, cards, lists, pois, revs>>
document == <<tracks, selected, history, dirty, selection, revs>>
requests == <<loading, agent, saving, deleting>>

Idle == [kind |-> "idle"]
Track(file, rev) == [file |-> file, rev |-> rev]
Current == tracks[selected]
Saved == {f \in Files : library[f] # 0}
Quiet == loading = Idle         \* the overlay takes every click while it is up

EditorInit ==
    /\ library = [f \in Files |-> 1] /\ cards = Files /\ lists = {}
    /\ tracks = <<>> /\ selected = 1 /\ history = <<>> /\ dirty = FALSE /\ selection = 0
    /\ screen = "welcome" /\ loading = Idle /\ agent = Idle /\ saving = Idle /\ deleting = "none"
    /\ pois = 0 /\ revs = 1

(* loadSavedFiles: the server lists the files now, the page hears of it later. *)
LoadSavedFiles(files) ==
    lists' = IF Cardinality(lists) < MaxLists THEN lists \cup {files} ELSE lists

OpenTracks(file, rev) ==
    /\ tracks' = <<Track(file, rev)>> /\ selected' = 1
    /\ history' = <<>> /\ dirty' = FALSE /\ selection' = 0 /\ pois' = 0
    /\ screen' = "view" /\ UNCHANGED revs

(* applyEdit on the document and index `doc`, `at` of the handler's render.    *)
ApplyEdit(doc, at, replacements) ==
    /\ tracks' = SubSeq(doc, 1, at - 1) \o replacements \o SubSeq(doc, at + 1, Len(doc))
    /\ history' = Append(history, doc)
    /\ dirty' = TRUE /\ selection' = 0 /\ revs' = revs + Len(replacements)
    /\ UNCHANGED selected

NewParts(n) == [i \in 1 .. n |-> Track(Current.file, revs + i)]

-----------------------------------------------------------------------------
(* Opening.                                                                    *)
LoadTrackFromFile(file) ==
    /\ screen = "welcome" /\ Quiet /\ file \in cards
    /\ loading' = [kind |-> "open", file |-> file]
    /\ UNCHANGED <<library, document, screen, agent, saving, deleting, cards, lists, pois>>

ProcessGPXFile(file) ==
    /\ screen = "upload" /\ Quiet /\ revs < MaxRevs
    /\ loading' = [kind |-> "upload", file |-> file]
    /\ UNCHANGED <<library, document, screen, agent, saving, deleting, cards, lists, pois>>

LoadFails ==                            \* unreadable, no tracks, gone, server error
    /\ ~Quiet /\ loading' = Idle
    /\ UNCHANGED <<library, document, screen, agent, saving, deleting, cards, lists, pois>>

LoadDone ==
    /\ loading.kind = "open" /\ library[loading.file] # 0
    /\ OpenTracks(loading.file, library[loading.file])
    /\ loading' = Idle
    /\ UNCHANGED <<library, agent, saving, deleting, cards, lists>>

(* The upload is best effort and never replaces a file: a name that is taken,  *)
(* or a server out of reach, still opens the local copy.                       *)
UploadDone ==
    /\ loading.kind = "upload" /\ revs < MaxRevs
    /\ \/ /\ library[loading.file] = 0
          /\ library' = [library EXCEPT ![loading.file] = revs + 1]
          /\ LoadSavedFiles(Saved \cup {loading.file})
       \/ library[loading.file] # 0 /\ LoadSavedFiles(Saved) /\ UNCHANGED library
       \/ UNCHANGED <<library, lists>>
    /\ tracks' = <<Track(loading.file, revs + 1)>> /\ selected' = 1 /\ revs' = revs + 1
    /\ history' = <<>> /\ dirty' = FALSE /\ selection' = 0 /\ pois' = 0
    /\ screen' = "view" /\ loading' = Idle
    /\ UNCHANGED <<agent, saving, deleting, cards>>

-----------------------------------------------------------------------------
(* Editing: crop, reverse, simplify, smooth, waypoints and the agent's          *)
(* draw_track and set_waypoints make one track of one, split and day stages     *)
(* several.  The agent edits under the overlay too.                             *)
Edit(parts) ==
    /\ screen = "view" /\ tracks # <<>> /\ (parts > 1 => Quiet)
    /\ revs + parts <= MaxRevs /\ Len(tracks) + parts <= MaxTracks + 1
    /\ ApplyEdit(tracks, selected, NewParts(parts))
    /\ UNCHANGED <<library, screen, requests, cards, lists, pois>>

(* The section is picked on the profile; Crop and Split use its indices, on    *)
(* whatever track is selected by then.                                         *)
SelectRange ==
    /\ screen = "view" /\ Quiet /\ tracks # <<>>
    /\ selection' = Current.rev
    /\ UNCHANGED <<library, tracks, selected, history, dirty, revs, screen, requests, cards, lists, pois>>

SelectTrack(i) ==
    /\ screen = "view" /\ i # selected /\ selected' = i
    /\ UNCHANGED <<library, tracks, history, dirty, selection, revs, screen, requests, cards, lists, pois>>

UndoEdit ==
    /\ screen = "view" /\ Quiet /\ history # <<>>
    /\ tracks' = Last(history) /\ history' = Front(history)
    /\ selected' = Min({selected, Len(Last(history))})
    /\ selection' = 0
    /\ UNCHANGED <<library, dirty, revs, screen, requests, cards, lists, pois>>

RefetchElevation ==
    /\ screen = "view" /\ Quiet /\ tracks # <<>> /\ revs < MaxRevs
    /\ loading' = [kind |-> "elevation", doc |-> tracks, at |-> selected]
    /\ UNCHANGED <<library, document, screen, agent, saving, deleting, cards, lists, pois>>

ElevationDone ==
    /\ loading.kind = "elevation" /\ revs < MaxRevs
    /\ ApplyEdit(loading.doc, loading.at, <<Track(loading.doc[loading.at].file, revs + 1)>>)
    /\ loading' = Idle
    /\ UNCHANGED <<library, screen, agent, saving, deleting, cards, lists, pois>>

(* With unsaved edits the user is asked first.                                 *)
ClearTrack ==
    /\ screen = "view" /\ Quiet
    /\ tracks' = <<>> /\ selected' = 1 /\ history' = <<>> /\ dirty' = FALSE /\ selection' = 0
    /\ pois' = 0 /\ screen' = "welcome"
    /\ LoadSavedFiles(Saved)
    /\ UNCHANGED <<library, revs, requests, cards>>

(* Home, Back and the welcome screen's buttons: the document stays as it is.   *)
SetViewMode(to) ==
    /\ Quiet /\ <<screen, to>> \in {<<"view", "welcome">>, <<"welcome", "upload">>, <<"upload", "welcome">>}
    /\ screen' = to
    /\ UNCHANGED <<library, document, requests, cards, lists, pois>>

TogglePoiLayer ==
    /\ screen = "view" /\ Quiet /\ tracks # <<>>
    /\ IF pois # 0 THEN pois' = 0 /\ UNCHANGED agent
       ELSE /\ agent = Idle             \* the buttons are disabled while one loads
            /\ agent' = [kind |-> "pois", around |-> Current.rev] /\ UNCHANGED pois
    /\ UNCHANGED <<library, document, screen, loading, saving, deleting, cards, lists>>

-----------------------------------------------------------------------------
(* Saving and deleting.                                                        *)
SaveCurrentTrack ==
    /\ screen = "view" /\ Quiet /\ tracks # <<>> /\ saving = Idle
    /\ saving' = [kind |-> "save", file |-> Current.file, rev |-> Current.rev]
    /\ UNCHANGED <<library, document, screen, loading, agent, deleting, cards, lists, pois>>

SaveDone ==
    /\ saving # Idle /\ saving' = Idle
    /\ \/ /\ library' = [library EXCEPT ![saving.file] = saving.rev]
          /\ dirty' = FALSE /\ LoadSavedFiles(Saved \cup {saving.file})
       \/ UNCHANGED <<library, dirty, lists>>
    /\ UNCHANGED <<tracks, selected, history, selection, revs, screen, loading, agent, deleting, cards, pois>>

DeleteFile(file) ==
    /\ screen = "welcome" /\ Quiet /\ file \in cards /\ deleting = "none"
    /\ deleting' = file
    /\ UNCHANGED <<library, document, screen, loading, agent, saving, cards, lists, pois>>

DeleteDone ==
    /\ deleting # "none" /\ deleting' = "none"
    /\ \/ /\ library' = [library EXCEPT ![deleting] = 0]
          /\ cards' = cards \ {deleting} /\ LoadSavedFiles(Saved \ {deleting})
       \/ UNCHANGED <<library, cards, lists>>
    /\ UNCHANGED <<document, screen, loading, agent, saving, pois>>

Listed(files) ==
    /\ lists' = lists \ {files} /\ cards' \in {files, cards}
    /\ UNCHANGED <<library, document, screen, requests, pois>>

-----------------------------------------------------------------------------
(* The agent: refused with unsaved edits, then the file is read.               *)
McpOpenTrack(file) ==
    /\ ~dirty /\ agent = Idle
    /\ agent' = [kind |-> "open", file |-> file]
    /\ UNCHANGED <<library, document, screen, loading, saving, deleting, cards, lists, pois>>

McpOpened ==
    /\ agent.kind = "open" /\ agent' = Idle
    /\ \/ library[agent.file] # 0 /\ OpenTracks(agent.file, library[agent.file])
       \/ UNCHANGED <<document, screen, pois>>
    /\ UNCHANGED <<library, loading, saving, deleting, cards, lists>>

PoisLoaded ==
    /\ agent.kind = "pois" /\ agent' = Idle
    /\ pois' \in {agent.around, pois}
    /\ UNCHANGED <<library, document, screen, loading, saving, deleting, cards, lists>>

SwitchMode ==
    /\ screen # "view" /\ tracks # <<>> /\ screen' = "view"
    /\ UNCHANGED <<library, document, requests, cards, lists, pois>>

EditorNext ==
    \/ LoadFails \/ LoadDone \/ UploadDone \/ SelectRange \/ UndoEdit \/ RefetchElevation
    \/ ElevationDone \/ ClearTrack \/ TogglePoiLayer \/ SaveCurrentTrack \/ SaveDone
    \/ DeleteDone \/ McpOpened \/ PoisLoaded \/ SwitchMode
    \/ \E n \in 1 .. 2 : Edit(n)
    \/ \E i \in DOMAIN tracks : SelectTrack(i)
    \/ \E to \in {"welcome", "upload"} : SetViewMode(to)
    \/ \E files \in lists : Listed(files)
    \/ \E file \in Files :
          \/ LoadTrackFromFile(file) \/ ProcessGPXFile(file) \/ DeleteFile(file) \/ McpOpenTrack(file)

EditorSpec == EditorInit /\ [][EditorNext]_editorVars

-----------------------------------------------------------------------------
(* "refuses while the current track has unsaved edits" (docs/MCP.md): an        *)
(* agent's open_track never takes the place of a document with unsaved edits.  *)
AgentKeepsEdits == [][McpOpened /\ tracks' # tracks => ~dirty]_editorVars
=============================================================================
