----------------------------- MODULE MobileRide -----------------------------
(* The mobile app around its editor (mobile/frontend/src/App.tsx): the draft   *)
(* that brings the last ride back, the route of the plan, and the panels over  *)
(* the map with Android's back.                                                *)
(*                                                                             *)
(* The plan, the document, the tab and the settings are one content, a         *)
(* revision; the app's server keeps the draft in a file, and both end with the *)
(* app.                                                                        *)
EXTENDS Integers, Sequences, SequencesExt, FiniteSets

CONSTANTS
    MaxChanges,     \* bound: revisions of the content
    MaxRestarts,    \* bound: times the app is started again
    MaxKeys,        \* bound: changes of what a route is asked for
    MaxPoints       \* 100 control points

VARIABLES
    concern,                    \* which of the following is watched
    content, changes,           \* what is on the screen, 1 when nothing is, and the last revision
    hydrated, canPersist,       \* the draft was asked for; it could be read
    draftSaved,                 \* "Draft saved on this device"
    timer, line,                \* what the timer will write, 0 without one; the writes in line
    stored, restarts,           \* the file's revision, 0 without one
    failed,                     \* history: the last write that ended was refused
    plan, routing, routeState, asked,   \* the plan's key and points, the data's readiness
    tab, active, panels,        \* the tab, which map it shows, what is open
    doing                       \* what the app is busy with

draftVars == <<content, changes, hydrated, canPersist, draftSaved, timer, line, stored, restarts, failed>>
routeVars == <<plan, routing, routeState, asked>>
screenVars == <<tab, active, panels, doing>>
rideVars == <<concern, draftVars, routeVars, screenVars>>

Panels == {"dialog", "details", "layers", "chooser", "tools", "points", "wide", "around", "track"}
Tabs == {"explore", "plan", "library", "offline"}

NoRoute == [key |-> 0, state |-> "none"]

RideInit ==
    /\ concern \in {"draft", "route", "screen"}
    /\ content = 1 /\ changes = 1 /\ hydrated = FALSE /\ canPersist = FALSE /\ draftSaved = TRUE
    /\ timer = 0 /\ line = <<>> /\ stored = 0 /\ restarts = 0 /\ failed = FALSE
    /\ plan = [key |-> 1, points |-> 0] /\ routing = FALSE /\ routeState = NoRoute /\ asked = {}
    /\ tab = "explore" /\ active = "plan" /\ panels = {} /\ doing = "nothing"

-----------------------------------------------------------------------------
(* The draft                                                                   *)
(* The effect: what is new is written a quarter of a second later, once the     *)
(* draft of last time is there.                                                *)
Remember(now, may) ==
    IF may THEN draftSaved' = FALSE /\ timer' = now
    ELSE UNCHANGED <<draftSaved, timer>>

Change == /\ changes < MaxChanges /\ changes' = changes + 1 /\ content' = changes + 1
          /\ Remember(changes + 1, hydrated /\ canPersist)
          /\ UNCHANGED <<hydrated, canPersist, line, stored, restarts, failed>>

(* The draft takes the place of whatever was done before it came; one that does  *)
(* not decode is written over, one that cannot be read is left alone.           *)
DraftRead ==
    /\ ~hydrated /\ hydrated' = TRUE
    /\ \/ /\ canPersist' = TRUE
          /\ content' \in IF stored = 0 THEN {content} ELSE {content, stored}
          /\ Remember(content', TRUE)
       \/ UNCHANGED <<canPersist, content, draftSaved, timer>>
    /\ UNCHANGED <<changes, line, stored, restarts, failed>>

TimerFires == /\ timer # 0 /\ timer' = 0 /\ line' = Append(line, [rev |-> timer, sent |-> FALSE])
              /\ UNCHANGED <<content, changes, hydrated, canPersist, draftSaved, stored, restarts, failed>>

\* Mutant: a write does not wait for the ones before it.
AnyInLine == DOMAIN line
InLine == {i \in DOMAIN line : i = 1}

Stores(i) == /\ ~line[i].sent
             /\ line' = [line EXCEPT ![i].sent = TRUE] /\ stored' = line[i].rev
             /\ UNCHANGED <<content, changes, hydrated, canPersist, draftSaved, timer, restarts, failed>>

(* The file was written, or the write failed, or its answer was lost.            *)
Written(i) ==
    /\ line' = RemoveAt(line, i)
    /\ \/ line[i].sent /\ draftSaved' = TRUE /\ failed' = FALSE
       \/ failed' = TRUE /\ UNCHANGED draftSaved
    /\ UNCHANGED <<content, changes, hydrated, canPersist, timer, stored, restarts>>

(* The app is closed, or killed, and started again.                              *)
Restart == /\ restarts < MaxRestarts /\ restarts' = restarts + 1
           /\ content' = 1 /\ hydrated' = FALSE /\ canPersist' = FALSE /\ draftSaved' = TRUE
           /\ timer' = 0 /\ line' = <<>> /\ failed' = FALSE
           /\ UNCHANGED <<changes, stored>>

DraftNext ==
    /\ \/ Change \/ DraftRead \/ TimerFires \/ Restart
       \/ \E i \in InLine : Stores(i) \/ Written(i)
    /\ UNCHANGED <<routeVars, screenVars>>

-----------------------------------------------------------------------------
(* The route of the plan.  A key is what the route is asked for: the points, the *)
(* profile, the permit and the generation of the data.                          *)
Aborted == {[q EXCEPT !.aborted = TRUE] : q \in asked}

(* The effect: without two points there is nothing, without data an error, and   *)
(* otherwise a request 180 ms later, for the render's key.                      *)
Render(p, ready) ==
    /\ plan' = p /\ routing' = ready
    /\ \/ /\ p.points < 2
          /\ routeState' = [key |-> p.key, state |-> "none"] /\ asked' = Aborted
       \/ /\ p.points >= 2 /\ ~ready
          /\ routeState' = [key |-> p.key, state |-> "no data"] /\ asked' = Aborted
       \/ /\ p.points >= 2 /\ ready
          /\ routeState' = [key |-> p.key, state |-> "loading"]
          /\ asked' = Aborted \union {[key |-> p.key, aborted |-> FALSE, sent |-> FALSE]}

ChangePlan(points) == /\ plan.key < MaxKeys /\ points \in 0 .. MaxPoints
                      /\ Render([key |-> plan.key + 1, points |-> points], routing)

\* Another generation of the data is another key; a poll that fails is not heard.
RoutingPolled(ready) ==
    \/ ready # routing /\ Render(plan, ready)
    \/ ready /\ plan.key < MaxKeys /\ Render([plan EXCEPT !.key = @ + 1], ready)

(* A request whose effect was cleaned up before its timer fired is never sent.   *)
CalculateRoute(q) == /\ ~q.sent
                     /\ asked' = (asked \ {q}) \union IF q.aborted THEN {} ELSE {[q EXCEPT !.sent = TRUE]}
                     /\ UNCHANGED <<plan, routing, routeState>>

RouteAnswered(q) ==
    /\ q.sent /\ asked' = asked \ {q}
    /\ IF q.aborted THEN UNCHANGED routeState
       ELSE \E state \in {"route", "error"} : routeState' = [key |-> q.key, state |-> state]
    /\ UNCHANGED <<plan, routing>>

RouteNext ==
    /\ \/ \E points \in 0 .. MaxPoints : ChangePlan(points)
       \/ \E ready \in BOOLEAN : RoutingPolled(ready)
       \/ \E q \in asked : CalculateRoute(q) \/ RouteAnswered(q)
    /\ UNCHANGED <<draftVars, screenVars>>

\* What the plan shows of its route.
ShownRoute == IF routeState.key = plan.key /\ (routeState.state = "route" => routing) THEN routeState.state ELSE "none"

-----------------------------------------------------------------------------
(* Tabs and panels                                                              *)
ShowTab(t) ==
    /\ tab' = t
    /\ active' = CASE t = "plan" -> "plan" [] t = "library" /\ "track" \in panels -> "track" [] OTHER -> active

\* The document is a panel of its own here; what it holds is MobileEditor's.
SelectTab(t) ==
    /\ ShowTab(t)
    /\ panels' = (panels \ {"points", "details", "layers", "wide"})
                     \union IF t = "library" /\ "track" \notin panels THEN {"wide"} ELSE {}
    /\ UNCHANGED doing

Modal == {"dialog", "chooser"}
Opens(panel, closing) == panels' = (panels \ closing) \union {panel}
Closes(panel) == panel \in panels /\ panels' = panels \ {panel}

(* What each button of the map and of the sheet opens, and closes for it.        *)
Toggle ==
    /\ panels \intersect Modal = {}
    /\ \/ Opens("layers", {"details"}) \/ Closes("layers")
       \/ tab = "plan" /\ (Opens("points", {"details"}) \/ Closes("points"))
       \/ tab = "plan" /\ (Opens("details", {"layers", "points", "around"}) \/ Closes("details"))
       \/ tab = "library" /\ "track" \in panels /\ Opens("details", {"layers", "around"})
       \/ /\ tab \in {"explore", "plan"}
          /\ Opens("around", {"layers", "details", "points"}) \/ Closes("around")
       \/ tab = "library" /\ "track" \in panels
             /\ (("tools" \notin panels /\ Opens("tools", {})) \/ Closes("tools"))
       \/ tab = "library" /\ (Opens("wide", {}) \/ Closes("wide"))
       \/ Opens("dialog", {}) \/ (tab = "library" /\ Opens("chooser", {}))
    /\ UNCHANGED <<tab, active, doing>>

(* The document opens with its tab, and closes with its tools.                   *)
OpenDocument == /\ panels' = (panels \ {"chooser"}) \union {"track"} /\ tab' = "library" /\ active' = "track" /\ UNCHANGED doing
CloseDocument == /\ tab = "library" /\ panels' = panels \ {"track", "tools"} /\ UNCHANGED <<tab, active, doing>>

\* Android's back closes the first of these, and then returns to the map.
BackOrder ==
    SelectSeq(<<"dialog", "details", "layers", "chooser", "tools", "points", "wide">>,
              LAMBDA p : /\ p \in panels
                         /\ p = "points" => tab = "plan"
                         /\ p = "wide" => tab = "library")

Back ==
    /\ \/ /\ BackOrder # <<>> /\ panels' = panels \ {Head(BackOrder)} /\ UNCHANGED <<tab, active>>
       \/ BackOrder = <<>> /\ tab # "explore" /\ ShowTab("explore") /\ UNCHANGED panels
    /\ UNCHANGED doing

(* Search, places of a kind, the position and the mode are asked one at a time.   *)
Ask == /\ doing = "nothing" /\ UNCHANGED <<tab, active, panels>>
       /\ doing' \in {"search", "pois", "locate", "mode"}
       /\ doing' \in {"search", "pois"} => tab = "explore"
       /\ doing' = "mode" => tab # "explore"

Told == doing # "nothing" /\ doing' = "nothing" /\ UNCHANGED <<tab, active, panels>>

ScreenNext ==
    /\ \/ Toggle \/ OpenDocument \/ CloseDocument \/ Back \/ Ask \/ Told
       \/ \E t \in Tabs : SelectTab(t)
    /\ UNCHANGED <<draftVars, routeVars>>

RideNext ==
    /\ \/ concern = "draft" /\ DraftNext
       \/ concern = "route" /\ RouteNext
       \/ concern = "screen" /\ ScreenNext
    /\ UNCHANGED concern

RideSpec == RideInit /\ [][RideNext]_rideVars

-----------------------------------------------------------------------------
(* A write that comes late never takes back a later one; when nothing is left to *)
(* write, and the last write was not refused, the file has what is on the screen. *)
DraftKept ==
    hydrated /\ canPersist /\ timer = 0 /\ line = <<>> /\ ~failed => stored = content
=============================================================================
