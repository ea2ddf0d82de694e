------------------------------ MODULE PageShell ------------------------------
(* What every screen of the web app shares (App.tsx): the messages, the switch *)
(* of the offline mode with the complaints of the vector map, the progress of  *)
(* the elevation tiles, the intro, what Escape closes (useEscapeDismiss.ts)    *)
(* and the elevation under the cursor.                                         *)
EXTENDS Integers, Sequences, SequencesExt, FiniteSetsExt

CONSTANTS
    MaxMessages,    \* bound: messages ever shown
    Retained,       \* MAX_RETAINED_MESSAGES
    Issues,         \* complaints of the map: [text, expected], as expectedOfflineVectorMiss tells them
    Priorities,     \* of what Escape closes
    Hooks,          \* uses of the Escape hook
    MaxOpenings,    \* bound: times one is opened
    Spots,          \* positions of the cursor
    MaxSettles      \* bound: requests for tiles

VARIABLES
    concern,           \* which of the following is watched
    told, toasts, recent, staleTold,            \* messages, as numbers
    mode, modeRef, switching, issue, issueTold, \* runtime's mode, the ref, the switch under way
    disabled, bar, timer, settles, polls, posted, \* elevation tiles
    entries, openings,                          \* hook -> its place and priority
    intro,
    cursor, elevation, lookup                   \* the debounce or request under way

messageVars == <<told, toasts, recent, staleTold>>
modeVars == <<mode, modeRef, switching, issue, issueTold>>
tileVars == <<disabled, bar, timer, settles, polls, posted>>
escapeVars == <<entries, openings, intro>>
cursorVars == <<cursor, elevation, lookup>>
shellVars == <<concern, messageVars, modeVars, tileVars, escapeVars, cursorVars>>

Nothing == [spot |-> 0, state |-> "none"]

ShellInit ==
    /\ concern \in {"mode", "tiles", "escape", "cursor"}
    /\ told = 0 /\ toasts = {} /\ recent = <<>> /\ staleTold = FALSE
    /\ mode = "auto" /\ modeRef = "auto" /\ switching = "no" /\ issue = "none" /\ issueTold = "none"
    /\ disabled = FALSE /\ bar = FALSE /\ timer = FALSE /\ settles = 0 /\ polls = 0 /\ posted = 0
    /\ entries = <<>> /\ openings = 0 /\ intro = "shown"
    /\ cursor = 0 /\ elevation = 0 /\ lookup = Nothing

-----------------------------------------------------------------------------
(* Messages                                                                     *)
Tell ==
    /\ told < MaxMessages /\ told' = told + 1
    /\ toasts' = toasts \union {told + 1}
    /\ recent' = LET all == Append(recent, told + 1)
                 IN SubSeq(all, Max({1, Len(all) - Retained + 1}), Len(all))

Notify == Tell /\ UNCHANGED staleTold

Quiet == UNCHANGED messageVars

(* Dismissed, or five seconds old: the retained copy stays for the agent.       *)
DismissNotification == /\ \E id \in toasts : toasts' = toasts \ {id}
                       /\ UNCHANGED <<told, recent, staleTold, modeVars>>

HandleCacheMetadata ==
    /\ ~staleTold /\ staleTold' = TRUE /\ Tell
    /\ UNCHANGED modeVars

-----------------------------------------------------------------------------
(* The offline mode.  The ref turns at once when the app goes offline, and with *)
(* the answer when it comes back.                                               *)
ToggleOfflineMode ==
    /\ switching = "no"
    /\ LET requested == IF mode = "cache-only" THEN "auto" ELSE "cache-only"
       IN /\ switching' = requested
          /\ modeRef' = IF requested = "cache-only" THEN requested ELSE mode
    /\ Quiet /\ UNCHANGED <<mode, issue, issueTold>>

(* The answer, or a failure: the server may have switched nevertheless.         *)
SwitchDone ==
    /\ switching # "no" /\ switching' = "no" /\ Notify
    /\ \/ mode' = switching /\ modeRef' = switching /\ issue' = "none"
       \/ modeRef' = mode /\ UNCHANGED <<mode, issue>>
    /\ UNCHANGED issueTold

\* Mutant: what is expected offline is told like the rest.
TellsAll(i) == TRUE

\* A tile that is not cached says nothing while the app is offline.
Tells(i) == ~(i.expected /\ modeRef = "cache-only")

HandleVectorStatus(i) ==
    IF Tells(i)
    THEN /\ issue' = i.text /\ issueTold' = i.text
         /\ IF issueTold = i.text THEN Quiet ELSE Notify
         /\ UNCHANGED <<mode, modeRef, switching>>
    ELSE issue' = "none" /\ Quiet /\ UNCHANGED <<mode, modeRef, switching, issueTold>>

SelectBaseLayer == issue # "none" /\ issue' = "none" /\ Quiet /\ UNCHANGED <<mode, modeRef, switching, issueTold>>

ModeNext ==
    /\ \/ DismissNotification \/ HandleCacheMetadata \/ ToggleOfflineMode \/ SwitchDone \/ SelectBaseLayer
       \/ \E i \in Issues : HandleVectorStatus(i)
    /\ UNCHANGED <<tileVars, escapeVars, cursorVars>>

-----------------------------------------------------------------------------
(* Elevation tiles of the view: one timer, whatever asks for the next poll.     *)
HandleViewportSettle == /\ ~disabled /\ settles < MaxSettles
                        /\ settles' = settles + 1 /\ posted' = posted + 1
                        /\ UNCHANGED <<disabled, bar, timer, polls>>

SettleAnswered ==
    /\ posted > 0 /\ posted' = posted - 1
    /\ \/ disabled' = TRUE /\ UNCHANGED <<bar, timer>>
       \/ bar' = TRUE /\ timer' = TRUE /\ UNCHANGED disabled
       \/ bar' = FALSE /\ UNCHANGED <<disabled, timer>>
       \/ UNCHANGED <<disabled, bar, timer>>                \* refused, or out of reach
    /\ UNCHANGED <<settles, polls>>

PollPrefetch == /\ timer /\ timer' = FALSE /\ polls < 2 /\ polls' = polls + 1
                /\ UNCHANGED <<disabled, bar, settles, posted>>

(* A refusal ends the polling and leaves the bar as it is.                      *)
PollAnswered ==
    /\ polls > 0 /\ polls' = polls - 1
    /\ \/ disabled' = TRUE /\ bar' = FALSE /\ UNCHANGED timer
       \/ bar' = TRUE /\ timer' = TRUE /\ UNCHANGED disabled
       \/ bar' = FALSE /\ UNCHANGED <<disabled, timer>>
       \/ UNCHANGED <<disabled, bar, timer>>
    /\ UNCHANGED <<settles, posted>>

TilesNext ==
    /\ HandleViewportSettle \/ SettleAnswered \/ PollPrefetch \/ PollAnswered
    /\ UNCHANGED <<messageVars, modeVars, escapeVars, cursorVars>>

-----------------------------------------------------------------------------
(* Escape closes the topmost entry; a popup of the map goes before them all,     *)
(* and the listener is there while there are entries.                           *)
Activate(h, priority) ==
    /\ openings < MaxOpenings /\ openings' = openings + 1
    /\ entries' = Append(SelectSeq(entries, LAMBDA e : e.hook # h), [hook |-> h, priority |-> priority])
    /\ UNCHANGED intro

Deactivate(h) ==
    /\ \E e \in Range(entries) : e.hook = h
    /\ entries' = SelectSeq(entries, LAMBDA e : e.hook # h)
    /\ UNCHANGED <<openings, intro>>

\* The last of the highest priority.
Top == Max({i \in DOMAIN entries : \A j \in DOMAIN entries : entries[j].priority <= entries[i].priority})

HandleEscape == /\ entries # <<>>
                /\ entries' = RemoveAt(entries, Top)
                /\ UNCHANGED <<openings, intro>>

(* The intro fades and is done; a click, a key or Escape ends it at once.        *)
SplashScreen == /\ \/ intro = "shown" /\ intro' \in {"fading", "done"}
                   \/ intro = "fading" /\ intro' = "done"
                /\ UNCHANGED <<entries, openings>>

EscapeNext ==
    /\ \/ HandleEscape \/ SplashScreen
       \/ \E h \in Hooks : Deactivate(h) \/ \E p \in Priorities : Activate(h, p)
    /\ UNCHANGED <<messageVars, modeVars, tileVars, cursorVars>>

-----------------------------------------------------------------------------
(* The elevation under the cursor, 220 ms after it came to rest; a move aborts   *)
(* what is under way, and a request that was sent takes the number with it.      *)
MoveCursor(to) ==
    /\ to # cursor /\ cursor' = to
    /\ IF to = 0 THEN elevation' = 0 /\ lookup' = Nothing
       ELSE /\ lookup' = [spot |-> to, state |-> "resting"]
            /\ elevation' = IF lookup.state = "asking" THEN 0 ELSE elevation

FetchGroundElevation == /\ lookup.state = "resting"
                        /\ lookup' = [lookup EXCEPT !.state = "asking"] /\ UNCHANGED <<cursor, elevation>>

CursorAnswered == /\ lookup.state = "asking" /\ lookup' = Nothing
                  /\ elevation' \in {lookup.spot, 0} /\ UNCHANGED cursor

CursorNext ==
    /\ \/ FetchGroundElevation \/ CursorAnswered
       \/ \E to \in Spots \union {0} : MoveCursor(to)
    /\ UNCHANGED <<messageVars, modeVars, tileVars, escapeVars>>

ShellNext ==
    /\ \/ concern = "mode" /\ ModeNext
       \/ concern = "tiles" /\ TilesNext
       \/ concern = "escape" /\ EscapeNext
       \/ concern = "cursor" /\ CursorNext
    /\ UNCHANGED concern

-----------------------------------------------------------------------------
(* A map that works offline does not complain of what is not cached: once the    *)
(* switch is over, no such complaint stands, also one of before it.               *)
OfflineIsQuiet ==
    switching = "no" /\ modeRef = "cache-only" => \A i \in Issues : i.expected => issue # i.text
=============================================================================
