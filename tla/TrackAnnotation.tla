-------------------------- MODULE TrackAnnotation --------------------------
(* The match of the open track to the road network, which a ride check shows  *)
(* (components/RideCheck.tsx, useTrackAnnotation), and the poll it learns the *)
(* routing data's generation from (App.tsx).                                  *)
(*                                                                            *)
(* A geometry is a number, 0 where no track is open; the page compares arrays *)
(* by identity, so a geometry that was left and opened again is the same.     *)
EXTENDS Naturals, FiniteSets

CONSTANTS
    Geometries,     \* coordinate lists that may be on the screen
    Lines,          \* the ones of at least two points
    Generations,    \* generations of the routing data, opened in this order
    MaxLookups      \* bound: requests ever sent

VARIABLES
    server,         \* the generation that is open on the server, 0 before the first
    polling,        \* the status in an answer on its way, or NoAnswer
    graph,          \* the generation the page has read, 0 while not ready
    fast,           \* the poll's interval: one second with a job or the manager
    geometry,       \* of the open track
    enabled,        \* the ride check is shown
    lookup,         \* the last lookup's geometry, generation and outcome, or NoLookup
    requests,       \* lookups not answered: geometry, generation, aborted
    sent

annotationVars == <<server, polling, graph, fast, geometry, enabled, lookup, requests, sent>>
page == <<graph, geometry, enabled>>

NoAnswer == 99
NoLookup == [geometry |-> 0, graph |-> 0, outcome |-> "none"]

AnyLookup(l, g, k) == TRUE              \* mutant: whatever was looked up last
Current(l, g, k) == l.geometry = g /\ l.graph = k

\* The status of the panel; a lookup that does not belong here is not there.
Shown(l, g, k) ==
    CASE k = 0 -> "unavailable"
      [] k # 0 /\ Current(l, g, k) /\ l.outcome # "none" -> l.outcome
      [] OTHER -> "loading"

Needed(l, g, k, on) == on /\ k # 0 /\ g \in Lines /\ ~(Current(l, g, k) /\ l.outcome = "ready")

-----------------------------------------------------------------------------
AnnotationInit ==
    /\ server = 0 /\ polling = NoAnswer /\ graph = 0 /\ fast = FALSE
    /\ geometry = 0 /\ enabled = FALSE /\ lookup = NoLookup /\ requests = {} /\ sent = 0

(* A render with other dependencies: the effect aborts its request, and sends   *)
(* another one, with nothing looked up, when it is needed.                      *)
Render(g, k, on) ==
    /\ geometry' = g /\ graph' = k /\ enabled' = on
    /\ LET aborted == {[q EXCEPT !.aborted = TRUE] : q \in requests}
       IN IF Needed(lookup, g, k, on)
          THEN /\ sent < MaxLookups /\ sent' = sent + 1
               /\ lookup' = NoLookup
               /\ requests' = aborted \union {[geometry |-> g, graph |-> k, aborted |-> FALSE, id |-> sent]}
          ELSE requests' = aborted /\ UNCHANGED <<lookup, sent>>

OpenTrack(g) == g # geometry /\ Render(g, graph, enabled) /\ UNCHANGED <<server, polling, fast>>

ShowCheck == Render(geometry, graph, ~enabled) /\ UNCHANGED <<server, polling, fast>>

Retry == /\ enabled /\ geometry # 0 /\ Shown(lookup, geometry, graph) = "error"
         /\ Render(geometry, graph, enabled)
         /\ UNCHANGED <<server, polling, fast>>

Found(q) ==
    /\ requests' = requests \ {q}
    /\ IF q.aborted THEN UNCHANGED lookup
       ELSE \E outcome \in {"ready", "error"} :
               lookup' = [geometry |-> q.geometry, graph |-> q.graph, outcome |-> outcome]
    /\ UNCHANGED <<server, polling, fast, page, sent>>

-----------------------------------------------------------------------------
(* The server opens another region; the page reads of it at its next poll.     *)
OpenGeneration == /\ server + 1 \in Generations /\ server' = server + 1
                  /\ UNCHANGED <<polling, fast, page, lookup, requests, sent>>

Poll == /\ polling = NoAnswer /\ polling' = server
        /\ UNCHANGED <<server, fast, page, lookup, requests, sent>>

(* A failed poll keeps the last status; one whose effect was restarted, because *)
(* the interval changed, is not heard.                                          *)
Polled == /\ polling # NoAnswer /\ polling' = NoAnswer
          /\ \/ polling # graph /\ Render(geometry, polling, enabled)
             \/ UNCHANGED <<page, lookup, requests, sent>>
          /\ UNCHANGED <<server, fast>>

ChangeInterval == /\ fast' = ~fast /\ polling' = NoAnswer
                  /\ UNCHANGED <<server, page, lookup, requests, sent>>

AnnotationNext ==
    \/ ShowCheck \/ Retry \/ OpenGeneration \/ Poll \/ Polled \/ ChangeInterval
    \/ \E g \in Geometries : OpenTrack(g)
    \/ \E q \in requests : Found(q)

-----------------------------------------------------------------------------
(* The result belongs to the track on the screen and to the generation the      *)
(* page has read, and a panel that says it is matching a track of two points or  *)
(* more has a request that will be heard.  Of a track with a single point it     *)
(* says so and nothing is asked.                                                 *)
AnnotationFits ==
    enabled /\ geometry # 0 =>
        /\ Shown(lookup, geometry, graph) \in {"ready", "error"} =>
              lookup.geometry = geometry /\ lookup.graph = graph
        /\ geometry \in Lines /\ Shown(lookup, geometry, graph) = "loading" =>
              \E q \in requests : ~q.aborted /\ q.geometry = geometry /\ q.graph = graph
=============================================================================
