---------------------------- MODULE RoutePlanner ----------------------------
(* The web app's planner (App.tsx, planner.ts): control points, the routing    *)
(* effect with its debounce, the routing status it polls, the profile uploaded *)
(* for the session, saving, and what an agent does.                            *)
(*                                                                             *)
(* A list of control points is its revision and its length.  React runs the    *)
(* effect after each commit that changed one of its dependencies: it cleans up *)
(* the last run (timer cleared, request aborted) and starts over.  A request   *)
(* that was aborted may still answer when its body had arrived.                *)
EXTENDS Naturals, FiniteSets

CONSTANTS
    MaxEdits,       \* bound: revisions of the control points
    MaxRuns,        \* bound: runs of the routing effect
    MaxAsked,       \* bound: route requests under way
    Generations,    \* routing generations the server opens (1 .. n)
    MaxUploads      \* bound: profiles uploaded

VARIABLES
    points,         \* creationWaypoints: revision and length
    profile, session,   \* routingProfile; generation the session's BRF was uploaded for, 0 without one
    routing,        \* routingData: generation and whether it is ready
    planning,       \* viewMode = "creation"
    uploading,      \* generation read when the upload began, 0 without one
    uploads,
    saving,         \* a save is in flight
    routeSeq,       \* routeSeqRef
    timer,          \* the effect's debounce: is it armed
    asked,          \* route requests whose answer has not been handled
    route,          \* what the shown route was computed for, or NoRoute
    routeError, routedLoading

inputs == <<points, profile, session, routing>>
results == <<routeSeq, timer, asked, route, routeError, routedLoading>>
plannerVars == <<inputs, planning, uploading, uploads, saving, results>>

NoRoute == [points |-> 0]
Request(seq) == [seq |-> seq, points |-> points.rev, profile |-> profile,
                 generation |-> routing.generation, aborted |-> FALSE]
AnyAnswer(q) == TRUE                    \* mutant: the last answer wins
RouteSequenceIsCurrent(q) == q.seq = routeSeq /\ ~q.aborted

ClearRouteDerived == route' = NoRoute /\ routeError' = FALSE /\ routedLoading' = FALSE

(* The session's profile is dropped with the generation it was made for; then  *)
(* the routing effect runs.                                                    *)
Commit(newPoints, newProfile, newSession, newRouting, open) ==
    LET stale == newSession # 0 /\ newRouting.ready /\ newSession # newRouting.generation
        enough == newPoints.length >= 2
    IN /\ routeSeq < MaxRuns
       /\ points' = newPoints /\ routing' = newRouting /\ planning' = open
       /\ session' = IF stale THEN 0 ELSE newSession
       /\ profile' = IF stale /\ newProfile = "custom" THEN "mixed" ELSE newProfile
       /\ asked' = {[q EXCEPT !.aborted = TRUE] : q \in asked}
       /\ timer' = (open /\ enough /\ newRouting.ready)
       /\ IF open
          THEN /\ routeSeq' = routeSeq + 1 /\ route' = NoRoute /\ routedLoading' = FALSE
               /\ routeError' = (enough /\ ~newRouting.ready)
          ELSE UNCHANGED <<routeSeq, route, routeError, routedLoading>>

PlannerInit ==
    /\ points = [rev |-> 0, length |-> 0] /\ profile = "mixed" /\ session = 0
    /\ routing = [generation |-> 1, ready |-> FALSE]
    /\ planning = TRUE /\ uploading = 0 /\ uploads = 0 /\ saving = FALSE
    /\ routeSeq = 0 /\ timer = FALSE /\ asked = {} /\ route = NoRoute
    /\ routeError = FALSE /\ routedLoading = FALSE

Points(length) == [rev |-> points.rev + 1, length |-> length]
Replan(newPoints) == Commit(newPoints, profile, session, routing, planning)

-----------------------------------------------------------------------------
(* The user adds, removes, drags and reverses points; the loading overlay      *)
(* takes the clicks while a route is computed, but not Ctrl+Z.                 *)
EditPoints ==
    /\ planning /\ ~routedLoading /\ points.rev < MaxEdits
    /\ \E length \in {points.length, points.length + 1} \ {0} : length <= 2 /\ Replan(Points(length))
    /\ UNCHANGED <<uploading, uploads, saving>>

UndoLastWaypoint ==
    /\ planning /\ points.length > 0 /\ points.rev < MaxEdits
    /\ Replan(Points(points.length - 1))
    /\ UNCHANGED <<uploading, uploads, saving>>

(* The agent's plan_route replaces or extends the points, the profile as well. *)
PlanRoute ==
    /\ planning /\ points.rev < MaxEdits
    /\ \E newProfile \in {profile, "trail"} : Commit(Points(2), newProfile, session, routing, TRUE)
    /\ UNCHANGED <<uploading, uploads, saving>>

(* The agent's switch_mode; leaving by hand is Discard, or comes with a save.  *)
SwitchMode ==
    /\ Commit(points, profile, session, routing, ~planning)
    /\ UNCHANGED <<uploading, uploads, saving>>

ClearCreation ==
    /\ planning /\ ~routedLoading /\ points.length > 0 /\ points.rev < MaxEdits
    /\ Replan(Points(0))
    /\ UNCHANGED <<uploading, uploads, saving>>

ResetCreation ==
    /\ planning /\ ~routedLoading /\ points.rev < MaxEdits /\ routeSeq < MaxRuns
    /\ points' = Points(0) /\ planning' = FALSE /\ routeSeq' = routeSeq + 1
    /\ timer' = FALSE /\ asked' = {[q EXCEPT !.aborted = TRUE] : q \in asked}
    /\ ClearRouteDerived
    /\ UNCHANGED <<profile, session, routing, uploading, uploads, saving>>

HandleSaveCreation ==
    /\ planning /\ ~routedLoading /\ points.length >= 2 /\ ~saving /\ saving' = TRUE
    /\ UNCHANGED <<inputs, planning, uploading, uploads, results>>

(* Saved, the planner is left, whatever happened meanwhile.                    *)
SaveDone ==
    /\ saving /\ saving' = FALSE
    /\ \/ planning /\ Commit(points, profile, session, routing, FALSE)
       \/ UNCHANGED <<inputs, planning, results>>
    /\ UNCHANGED <<uploading, uploads>>

-----------------------------------------------------------------------------
(* Profiles and the routing status.                                            *)
SetRoutingProfile(newProfile) ==
    /\ planning /\ ~routedLoading /\ newProfile # profile
    /\ newProfile = "custom" => session # 0
    /\ Commit(points, newProfile, session, routing, planning)
    /\ UNCHANGED <<uploading, uploads, saving>>

RemoveSessionProfile ==
    /\ planning /\ ~routedLoading /\ session # 0
    /\ Commit(points, IF profile = "custom" THEN "mixed" ELSE profile, 0, routing, planning)
    /\ UNCHANGED <<uploading, uploads, saving>>

UploadProfile ==
    /\ planning /\ ~routedLoading /\ routing.ready /\ uploading = 0 /\ uploads < MaxUploads
    /\ uploading' = routing.generation /\ uploads' = uploads + 1
    /\ UNCHANGED <<inputs, planning, saving, results>>

UploadDone ==
    /\ uploading # 0 /\ uploading' = 0
    /\ \/ Commit(points, "custom", uploading, routing, planning)
       \/ UNCHANGED <<inputs, planning, results>>
    /\ UNCHANGED <<uploads, saving>>

(* A status answer of the poll: data got ready, or another region was opened.  *)
Polled ==
    /\ \E ready \in BOOLEAN, generation \in Generations :
          /\ generation >= routing.generation
          /\ [generation |-> generation, ready |-> ready] # routing
          /\ Commit(points, profile, session, [generation |-> generation, ready |-> ready], planning)
    /\ routing.generation < routing'.generation \/ ~routing.ready    \* bound: each opens once
    /\ UNCHANGED <<uploading, uploads, saving>>

-----------------------------------------------------------------------------
(* The effect's timer and the answers.                                         *)
CalculateRoute ==
    /\ timer /\ timer' = FALSE /\ Cardinality(asked) < MaxAsked
    /\ routedLoading' = TRUE /\ asked' = asked \cup {Request(routeSeq)}
    /\ UNCHANGED <<inputs, planning, uploading, uploads, saving, routeSeq, route, routeError>>

Answered(q) ==
    /\ asked' = asked \ {q}
    /\ IF RouteSequenceIsCurrent(q)
       THEN /\ routedLoading' = FALSE
            /\ \/ route' = q /\ UNCHANGED routeError
               \/ route' = NoRoute /\ routeError' = TRUE
       ELSE UNCHANGED <<route, routeError, routedLoading>>
    /\ UNCHANGED <<inputs, planning, uploading, uploads, saving, routeSeq, timer>>

PlannerNext ==
    \/ EditPoints \/ UndoLastWaypoint \/ PlanRoute \/ SwitchMode \/ ClearCreation \/ ResetCreation
    \/ HandleSaveCreation \/ SaveDone \/ RemoveSessionProfile \/ UploadProfile \/ UploadDone
    \/ Polled \/ CalculateRoute
    \/ \E newProfile \in {"mixed", "custom"} : SetRoutingProfile(newProfile)
    \/ \E q \in asked : Answered(q)

(* Timers fire and requests are answered or fail (calculateRoute has a limit). *)
PlannerFairness ==
    /\ WF_plannerVars(CalculateRoute)
    /\ WF_plannerVars(\E q \in asked : Answered(q))

PlannerSpec == PlannerInit /\ [][PlannerNext]_plannerVars /\ PlannerFairness

-----------------------------------------------------------------------------
(* "Only the newest request may write state; a slow earlier response must      *)
(* never overwrite a newer route" (App.tsx): what the planner shows was         *)
(* computed for its points, its profile and the routing data that is open, and *)
(* a custom profile for the generation it was uploaded for.                    *)
RouteIsCurrent ==
    planning /\ route # NoRoute =>
        /\ route.points = points.rev /\ route.profile = profile
        /\ route.generation = routing.generation
        /\ profile = "custom" => session = route.generation

(* An agent polls "until planner.loading is false" (docs/MCP.md): it ends.     *)
LoadingEnds == routedLoading ~> ~routedLoading
=============================================================================
