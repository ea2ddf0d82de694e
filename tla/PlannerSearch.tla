---------------------------- MODULE PlannerSearch ----------------------------
(* The planner's questions to the server beside the route (App.tsx): the place *)
(* search, what is around a route point, the POI layers of the view and the    *)
(* height of each control point.  Each is asked anew while older answers are   *)
(* on their way, and each has its own guard against them; the heights have     *)
(* only the point's id.                                                        *)
EXTENDS Naturals, Sequences, SequencesExt, FiniteSets

CONSTANTS
    MaxSearches,    \* bound: place searches asked
    Spots,          \* points whose surroundings are asked for
    Kinds,          \* POI kinds
    MaxMoves,       \* bound: positions of the control point
    MaxAround       \* bound: around requests

VARIABLES
    task,           \* which of the four is watched
    placeSeq, finding, found, searching,    \* place search: sequence, requests, results shown, spinner
    around,         \* NoAround, or the panel: its point, loading, the result's point
    looking,        \* around requests: point, aborted
    lookups,
    layers, queue, errors, poiLoading,      \* POI kinds shown, still to load, failed
    position, heightOf, measuring           \* the point's position, the one its height is for, requests

placeVars == <<placeSeq, finding, found, searching>>
aroundVars == <<around, looking, lookups>>
poiVars == <<layers, queue, errors, poiLoading>>
heightVars == <<position, heightOf, measuring>>
searchVars == <<task, placeVars, aroundVars, poiVars, heightVars>>

NoAround == [point |-> "none"]

SearchInit ==
    /\ task \in {"place", "around", "pois", "height"}
    /\ placeSeq = 0 /\ finding = {} /\ found = 0 /\ searching = FALSE
    /\ around = NoAround /\ looking = {} /\ lookups = 0
    /\ layers = {} /\ queue = <<>> /\ errors = {} /\ poiLoading = "none"
    /\ position = 0 /\ heightOf = 0 /\ measuring = {}

-----------------------------------------------------------------------------
(* Place search: a newer search, an empty query and Escape each overtake what   *)
(* is under way; picking a place only empties the list.                         *)
SearchPlace(blank) ==
    /\ placeSeq < MaxSearches /\ placeSeq' = placeSeq + 1
    /\ IF blank THEN found' = 0 /\ searching' = FALSE /\ UNCHANGED finding
       ELSE searching' = TRUE /\ finding' = finding \cup {placeSeq + 1} /\ UNCHANGED found

PlacesFoundAny(seq) ==                  \* mutant: whichever answer comes is shown
    /\ finding' = finding \ {seq}
    /\ \/ found' \in {seq, 0} /\ searching' = FALSE
       \/ UNCHANGED <<found, searching>>
    /\ UNCHANGED placeSeq

PlacesFound(seq) ==
    /\ finding' = finding \ {seq}
    /\ IF seq = placeSeq THEN found' \in {seq, 0} /\ searching' = FALSE
       ELSE UNCHANGED <<found, searching>>
    /\ UNCHANGED placeSeq

FlyToPlace == found # 0 /\ found' = 0 /\ UNCHANGED <<placeSeq, finding, searching>>

DismissPlaceResults ==
    /\ found # 0 \/ searching
    /\ placeSeq < MaxSearches /\ placeSeq' = placeSeq + 1
    /\ found' = 0 /\ searching' = FALSE /\ UNCHANGED finding

PlaceNext ==
    /\ \/ \E blank \in BOOLEAN : SearchPlace(blank)
       \/ \E seq \in finding : PlacesFound(seq)
       \/ FlyToPlace \/ DismissPlaceResults
    /\ UNCHANGED <<aroundVars, poiVars, heightVars>>

-----------------------------------------------------------------------------
(* What is around a point: one search at a time.                               *)
Abort(requests) == {[q EXCEPT !.aborted = TRUE] : q \in requests}

SearchAroundPoint(spot) ==
    /\ lookups < MaxAround /\ lookups' = lookups + 1
    /\ looking' = Abort(looking) \cup {[point |-> spot, aborted |-> FALSE]}
    /\ around' = [point |-> spot, loading |-> TRUE, cancelled |-> FALSE,
                  result |-> IF around = NoAround THEN "none" ELSE around.result]

AroundFound(q) ==
    /\ looking' = looking \ {q}
    /\ IF q.aborted THEN UNCHANGED around
       ELSE \E result \in {q.point, "none"} :           \* "none": it failed
               around' = [point |-> q.point, loading |-> FALSE, cancelled |-> FALSE, result |-> result]
    /\ UNCHANGED lookups

(* The request is aborted and what was showing before is put back.             *)
CancelAround ==
    /\ around # NoAround /\ around.loading
    /\ looking' = Abort(looking)
    /\ around' = IF around.result # "none"
                 THEN [around EXCEPT !.point = around.result, !.loading = FALSE]
                 ELSE [around EXCEPT !.loading = FALSE, !.cancelled = TRUE]
    /\ UNCHANGED lookups

CloseAround ==
    /\ around # NoAround
    /\ around' = NoAround /\ looking' = Abort(looking) /\ UNCHANGED lookups

AroundNext ==
    /\ \/ \E spot \in Spots : SearchAroundPoint(spot)
       \/ \E q \in looking : AroundFound(q)
       \/ CancelAround \/ CloseAround
    /\ UNCHANGED <<placeVars, poiVars, heightVars>>

-----------------------------------------------------------------------------
(* POIs of the view: one kind after the other, a failed kind does not stop the *)
(* rest; the layer buttons wait, an agent's load_pois is told of the failures. *)
LoadCreationPois(kinds) ==
    /\ poiLoading = "none" /\ queue = <<>>
    /\ queue' = Tail(kinds) /\ poiLoading' = Head(kinds) /\ errors' = {}
    /\ UNCHANGED layers

ToggleCreationPoiLayer(kind) ==
    /\ poiLoading = "none"
    /\ IF kind \in layers THEN layers' = layers \ {kind} /\ UNCHANGED <<queue, errors, poiLoading>>
       ELSE LoadCreationPois(<<kind>>)

PoisFound ==
    /\ poiLoading # "none"
    /\ \/ layers' \in {layers \cup {poiLoading}, layers \ {poiLoading}} /\ UNCHANGED errors
       \/ errors' = errors \cup {poiLoading} /\ UNCHANGED layers
    /\ poiLoading' = IF queue = <<>> THEN "none" ELSE Head(queue)
    /\ queue' = IF queue = <<>> THEN <<>> ELSE Tail(queue)

PoiNext ==
    /\ \/ \E kind \in Kinds : ToggleCreationPoiLayer(kind)
       \/ LoadCreationPois(SetToSeq(Kinds))
       \/ layers # {} /\ LoadCreationPois(SetToSeq(layers))
       \/ PoisFound
    /\ UNCHANGED <<placeVars, aroundVars, heightVars>>

-----------------------------------------------------------------------------
(* The height of a control point is asked when it is set and when it is moved, *)
(* which clears it; nothing aborts the older request.                          *)
FetchWaypointElevation ==
    /\ position < MaxMoves
    /\ position' = position + 1 /\ heightOf' = 0 /\ measuring' = measuring \cup {position + 1}

ElevationFound(asked) ==
    /\ measuring' = measuring \ {asked}
    /\ heightOf' \in {asked, heightOf}
    /\ UNCHANGED position

HeightNext ==
    /\ FetchWaypointElevation \/ (\E asked \in measuring : ElevationFound(asked))
    /\ UNCHANGED <<placeVars, aroundVars, poiVars>>

SearchNext ==
    /\ \/ task = "place" /\ PlaceNext
       \/ task = "around" /\ AroundNext
       \/ task = "pois" /\ PoiNext
       \/ task = "height" /\ HeightNext
    /\ UNCHANGED task

SearchSpec == SearchInit /\ [][SearchNext]_searchVars

-----------------------------------------------------------------------------
(* Once no search is under way the list of places is the answer to the last one *)
(* and never to one that was overtaken or dismissed, and the spinner turns exactly while that search is  *)
(* under way; a panel that is done shows the result for its own point.         *)
ShowsLatest ==
    /\ ~searching => found \in {0, placeSeq}
    /\ searching <=> placeSeq \in finding
    /\ around # NoAround /\ ~around.loading => around.result \in {around.point, "none"}
    /\ around # NoAround => (around.loading <=> \E q \in looking : ~q.aborted)
=============================================================================
