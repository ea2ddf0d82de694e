----------------------------- MODULE PageProofs -----------------------------
(***************************************************************************)
(* What the page's parts promise, for any values of their bounds: each part *)
(* moves alone, so that its steps keep an invariant of its own.            *)
(***************************************************************************)
EXTENDS Client, FiniteSetTheorems, TLAPS

RouteProfiles == {"mixed", "trail", "custom"}
RouteRequests == [seq : Nat, points : Nat, profile : RouteProfiles, generation : Generations \union {1}, aborted : BOOLEAN]

InputsTyped ==
    /\ controls \in [rev : Nat, length : Nat] /\ profile \in RouteProfiles
    /\ routing \in [generation : Generations \union {1}, ready : BOOLEAN]
    /\ planning \in BOOLEAN /\ routeSeq \in Nat /\ asked \subseteq RouteRequests

(* What the planner has was asked for this: its points, its profile, the data.  *)
IsFor(q) == /\ q.points = controls.rev /\ q.profile = profile /\ q.generation = routing.generation
            /\ profile = "custom" => session = q.generation

(* A custom profile comes with its session; an armed timer waits under ready     *)
(* data, for which that session was made; a request that will be heard is for    *)
(* what the planner has.                                                        *)
CustomHasSession == profile = "custom" => session # 0
TimerIsReady == debounce => (profile = "custom" => session = routing.generation)
HeardIsCurrent == \A q \in asked : Planner!RouteSequenceIsCurrent(q) => IsFor(q)

PlannerInv == InputsTyped /\ CustomHasSession /\ TimerIsReady /\ HeardIsCurrent /\ Planner!RouteIsCurrent

-----------------------------------------------------------------------------
LEMMA RouteAborting ==
    ASSUME NEW q \in RouteRequests
    PROVE  [q EXCEPT !.aborted = TRUE] \in RouteRequests /\ [q EXCEPT !.aborted = TRUE].aborted
BY DEF RouteRequests

(* A commit aborts what was asked, and arms the timer only under ready data.     *)
LEMMA CommitKeeps ==
    ASSUME PlannerInv, NEW newPoints \in [rev : Nat, length : Nat], NEW newProfile \in RouteProfiles, NEW newSession,
           NEW newRouting \in [generation : Generations \union {1}, ready : BOOLEAN], NEW open \in BOOLEAN,
           newProfile = "custom" => newSession # 0,
           Planner!Commit(newPoints, newProfile, newSession, newRouting, open)
    PROVE  PlannerInv'
<1> DEFINE stale == newSession # 0 /\ newRouting.ready /\ newSession # newRouting.generation
<1>1. /\ controls' = newPoints /\ routing' = newRouting /\ planning' = open
      /\ session' = IF stale THEN 0 ELSE newSession
      /\ profile' = IF stale /\ newProfile = "custom" THEN "mixed" ELSE newProfile
      /\ asked' = {[q EXCEPT !.aborted = TRUE] : q \in asked}
      /\ debounce' => newRouting.ready
  BY DEF Planner!Commit
<1>2. routeSeq' \in Nat /\ (open => route' = Planner!NoRoute)
  BY DEF Planner!Commit, PlannerInv, InputsTyped
<1>3. \A q \in asked' : q \in RouteRequests /\ q.aborted
  BY <1>1, RouteAborting DEF PlannerInv, InputsTyped
<1>4. InputsTyped'
  BY <1>1, <1>2, <1>3 DEF InputsTyped, RouteProfiles
<1>5. CustomHasSession'
  BY <1>1 DEF CustomHasSession
<1>6. TimerIsReady'
  BY <1>1 DEF TimerIsReady
<1>7. HeardIsCurrent'
  BY <1>3 DEF HeardIsCurrent, Planner!RouteSequenceIsCurrent
<1>8. Planner!RouteIsCurrent'
  BY <1>1, <1>2 DEF Planner!RouteIsCurrent
<1> QED
  BY <1>4, <1>5, <1>6, <1>7, <1>8 DEF PlannerInv

LEMMA PointsTyped ==
    ASSUME PlannerInv, NEW length \in Nat
    PROVE  Planner!Points(length) \in [rev : Nat, length : Nat]
BY DEF PlannerInv, InputsTyped, Planner!Points

LEMMA PlannerElsewhere ==
    ASSUME PlannerInv, UNCHANGED <<Planner!inputs, planning, Planner!results>>
    PROVE  PlannerInv'
BY DEF PlannerInv, Planner!inputs, Planner!results, InputsTyped, CustomHasSession, TimerIsReady, HeardIsCurrent, Planner!RouteSequenceIsCurrent,
       IsFor, Planner!RouteIsCurrent

LEMMA RouteResetKeeps == ASSUME PlannerInv, Planner!ResetCreation PROVE PlannerInv'
<1>1. /\ controls' = Planner!Points(0) /\ planning' = FALSE /\ routeSeq' = routeSeq + 1 /\ debounce' = FALSE
      /\ asked' = {[q EXCEPT !.aborted = TRUE] : q \in asked} /\ UNCHANGED <<profile, session, routing>>
  BY DEF Planner!ResetCreation
<1>2. \A q \in asked' : q \in RouteRequests /\ q.aborted
  BY <1>1, RouteAborting DEF PlannerInv, InputsTyped
<1>3. Planner!Points(0) \in [rev : Nat, length : Nat]
  BY PointsTyped
<1>4. InputsTyped'
  <2>1. routeSeq \in Nat
    BY DEF PlannerInv, InputsTyped
  <2>2. routeSeq' = routeSeq + 1
    BY DEF Planner!ResetCreation
  <2>3. routeSeq' \in Nat
    BY <2>1, <2>2
  <2> QED
    BY <1>1, <1>2, <1>3, <2>3 DEF PlannerInv, InputsTyped
<1> QED
  BY <1>1, <1>2, <1>4 DEF PlannerInv, CustomHasSession, TimerIsReady, HeardIsCurrent, Planner!RouteSequenceIsCurrent, Planner!RouteIsCurrent

(* The timer asks for what the planner has.                                     *)
LEMMA RouteAskingKeeps == ASSUME PlannerInv, Planner!CalculateRoute PROVE PlannerInv'
<1>1. /\ asked' = asked \union {Planner!Request(routeSeq)} /\ debounce /\ ~debounce'
      /\ UNCHANGED <<controls, profile, session, routing, planning, routeSeq, route>>
  BY DEF Planner!CalculateRoute, Planner!inputs
<1>2. Planner!Request(routeSeq) \in RouteRequests
  BY DEF Planner!Request, RouteRequests, PlannerInv, InputsTyped
<1>3. IsFor(Planner!Request(routeSeq))
  BY <1>1 DEF IsFor, Planner!Request, PlannerInv, TimerIsReady
<1> QED
  BY <1>1, <1>2, <1>3 DEF PlannerInv, InputsTyped, CustomHasSession, TimerIsReady, HeardIsCurrent, Planner!RouteSequenceIsCurrent,
                          IsFor, Planner!RouteIsCurrent

LEMMA RouteAnswerKeeps == ASSUME PlannerInv, NEW q \in asked, Planner!Answered(q) PROVE PlannerInv'
<1>1. /\ asked' = asked \ {q}
      /\ UNCHANGED <<controls, profile, session, routing, planning, routeSeq, debounce>>
      /\ route' \in {route, Planner!NoRoute} \/ (Planner!RouteSequenceIsCurrent(q) /\ route' = q)
  BY DEF Planner!Answered, Planner!inputs
<1>2. Planner!RouteIsCurrent'
  BY <1>1 DEF PlannerInv, HeardIsCurrent, IsFor, Planner!RouteIsCurrent
<1> QED
  BY <1>1, <1>2 DEF PlannerInv, InputsTyped, CustomHasSession, TimerIsReady, HeardIsCurrent, Planner!RouteSequenceIsCurrent, IsFor

-----------------------------------------------------------------------------
LEMMA PlannerStarts == Planner!PlannerInit => PlannerInv
<1> SUFFICES ASSUME Planner!PlannerInit PROVE PlannerInv
  OBVIOUS
<1>1. InputsTyped
  BY DEF Planner!PlannerInit, InputsTyped, RouteProfiles
<1> QED
  BY <1>1 DEF Planner!PlannerInit, PlannerInv, CustomHasSession, TimerIsReady, HeardIsCurrent, Planner!RouteIsCurrent

(* Each operation commits with points, a profile and a status of their kinds,    *)
(* and with a session where it asks for a custom profile.                       *)
LEMMA PlannerKeeps == PlannerInv /\ [Planner!PlannerNext]_plannerVars => PlannerInv'
<1> SUFFICES ASSUME PlannerInv, [Planner!PlannerNext]_plannerVars PROVE PlannerInv'
  OBVIOUS
<1> USE DEF Planner!Replan, RouteProfiles
<1>0. /\ controls \in [rev : Nat, length : Nat] /\ profile \in RouteProfiles /\ planning \in BOOLEAN
      /\ routing \in [generation : Generations \union {1}, ready : BOOLEAN]
      /\ profile = "custom" => session # 0
  BY DEF PlannerInv, InputsTyped, CustomHasSession
<1>1. CASE Planner!EditPoints
  <2>1. PICK length \in {controls.length, controls.length + 1} \ {0} : Planner!Replan(Planner!Points(length))
    BY <1>1 DEF Planner!EditPoints
  <2>2. Planner!Points(length) \in [rev : Nat, length : Nat]
    BY <1>0, PointsTyped
  <2> QED
    BY <1>0, <2>1, <2>2, CommitKeeps
<1>2. CASE Planner!UndoLastWaypoint
  <2>1. Planner!Replan(Planner!Points(controls.length - 1)) /\ controls.length > 0
    BY <1>2 DEF Planner!UndoLastWaypoint
  <2>2. Planner!Points(controls.length - 1) \in [rev : Nat, length : Nat]
    BY <1>0, <2>1, PointsTyped
  <2> QED
    BY <1>0, <2>1, <2>2, CommitKeeps
<1>3. CASE Planner!PlanRoute
  <2>1. PICK newProfile \in {profile, "trail"} : Planner!Commit(Planner!Points(2), newProfile, session, routing, TRUE)
    BY <1>3 DEF Planner!PlanRoute
  <2>2. Planner!Points(2) \in [rev : Nat, length : Nat]
    BY PointsTyped
  <2>3. newProfile \in RouteProfiles /\ (newProfile = "custom" => session # 0)
    BY <1>0
  <2> QED
    BY <2>1, <2>2, <2>3, <1>0, CommitKeeps
<1>4. CASE Planner!SwitchMode
  BY <1>0, <1>4, CommitKeeps DEF Planner!SwitchMode
<1>5. CASE Planner!ClearCreation
  <2>1. Planner!Replan(Planner!Points(0))
    BY <1>5 DEF Planner!ClearCreation
  <2>2. Planner!Points(0) \in [rev : Nat, length : Nat]
    BY PointsTyped
  <2> QED
    BY <1>0, <2>1, <2>2, CommitKeeps
<1>6. CASE Planner!ResetCreation
  BY <1>6, RouteResetKeeps
<1>7. CASE Planner!HandleSaveCreation
  BY <1>7, PlannerElsewhere DEF Planner!HandleSaveCreation
<1>8. CASE Planner!SaveDone
  BY <1>0, <1>8, CommitKeeps, PlannerElsewhere DEF Planner!SaveDone
<1>9. CASE Planner!RemoveSessionProfile
  BY <1>0, <1>9, CommitKeeps DEF Planner!RemoveSessionProfile
<1>10. CASE Planner!UploadProfile
  BY <1>10, PlannerElsewhere DEF Planner!UploadProfile
<1>11. CASE Planner!UploadDone
  BY <1>0, <1>11, CommitKeeps, PlannerElsewhere DEF Planner!UploadDone
<1>12. CASE Planner!Polled
  <2>1. PICK ready \in BOOLEAN, generation \in Generations :
            Planner!Commit(controls, profile, session, [generation |-> generation, ready |-> ready], planning)
    BY <1>12 DEF Planner!Polled
  <2> QED
    BY <1>0, <2>1, CommitKeeps
<1>13. CASE Planner!CalculateRoute
  BY <1>13, RouteAskingKeeps
<1>14. CASE \E newProfile \in {"mixed", "custom"} : Planner!SetRoutingProfile(newProfile)
  <2>1. PICK newProfile \in {"mixed", "custom"} : /\ newProfile = "custom" => session # 0
                                                 /\ Planner!Commit(controls, newProfile, session, routing, planning)
    BY <1>14 DEF Planner!SetRoutingProfile
  <2> QED
    BY <1>0, <2>1, CommitKeeps
<1>15. CASE \E q \in asked : Planner!Answered(q)
  BY <1>15, RouteAnswerKeeps
<1>16. CASE UNCHANGED plannerVars
  BY <1>16, PlannerElsewhere DEF plannerVars, Planner!inputs, Planner!results
<1> QED
  BY <1>1, <1>2, <1>3, <1>4, <1>5, <1>6, <1>7, <1>8, <1>9, <1>10, <1>11, <1>12, <1>13, <1>14, <1>15, <1>16 DEF Planner!PlannerNext

(* A slow earlier response never overwrites a newer route: what the planner shows *)
(* was computed for its points, its profile and the routing data that is open,   *)
(* whatever is edited, polled, uploaded, saved or answered meanwhile.           *)
THEOREM RouteCurrent == Spec => []RouteIsCurrent
<1>1. Init => PlannerInv
  BY PlannerStarts DEF Init
<1>2. PlannerInv /\ [Next]_clientVars => PlannerInv'
  BY PlannerKeeps DEF Next, clientVars
<1>3. PlannerInv => RouteIsCurrent
  BY DEF PlannerInv, RouteIsCurrent
<1> QED
  BY <1>1, <1>2, <1>3, PTL DEF Spec

-----------------------------------------------------------------------------
(* The planner's searches.                                                      *)
Panels == [point : AroundSpots \union {"none"}, loading : BOOLEAN, cancelled : BOOLEAN, result : AroundSpots \union {"none"}]
Lookups == [point : AroundSpots, aborted : BOOLEAN]

PlacesTyped ==
    /\ placeSeq \in Nat /\ found \in Nat
    /\ \A seq \in finding : seq \in Nat /\ seq <= placeSeq

AroundTyped == around \in Panels \union {Searches!NoAround} /\ looking \subseteq Lookups

(* At most one search around a point will be heard.                             *)
OneIsHeard == \A p, q \in looking : ~p.aborted /\ ~q.aborted => p = q

ListIsLatest ==
    /\ ~searching => found \in {0, placeSeq}
    /\ searching <=> placeSeq \in finding

PanelIsLatest ==
    around # Searches!NoAround =>
        /\ ~around.loading => around.result \in {around.point, "none"}
        /\ around.loading <=> \E q \in looking : ~q.aborted

SearchesInv == PlacesTyped /\ AroundTyped /\ OneIsHeard /\ ListIsLatest /\ PanelIsLatest

-----------------------------------------------------------------------------
LEMMA PlacesKeep ==
    ASSUME SearchesInv, Searches!PlaceNext
    PROVE  SearchesInv'
<1>1. UNCHANGED <<around, looking>>
  BY DEF Searches!PlaceNext, Searches!aroundVars
<1>2. AroundTyped' /\ OneIsHeard' /\ PanelIsLatest'
  BY <1>1 DEF SearchesInv, AroundTyped, OneIsHeard, PanelIsLatest
<1>3. PlacesTyped /\ ListIsLatest
  BY DEF SearchesInv
<1>4. PlacesTyped' /\ ListIsLatest'
  <2> USE DEF PlacesTyped, ListIsLatest
  <2>0. placeSeq + 1 \in Nat /\ placeSeq + 1 \notin finding
    BY <1>3
  <2>1. ASSUME NEW blank \in BOOLEAN, Searches!SearchPlace(blank)
        PROVE  PlacesTyped' /\ ListIsLatest'
    <3>1. placeSeq' = placeSeq + 1
      BY <2>1 DEF Searches!SearchPlace
    <3>2. CASE blank
      <4>1. found' = 0 /\ searching' = FALSE /\ finding' = finding
        BY <2>1, <3>2 DEF Searches!SearchPlace
      <4>2. PlacesTyped' /\ placeSeq' \notin finding'
        BY <1>3, <2>0, <3>1, <4>1
      <4> QED
        BY <4>1, <4>2
    <3>3. CASE ~blank
      <4>1. found' = found /\ searching' = TRUE /\ finding' = finding \union {placeSeq + 1}
        BY <2>1, <3>3 DEF Searches!SearchPlace
      <4> QED
        BY <1>3, <2>0, <3>1, <4>1
    <3> QED
      BY <3>2, <3>3
  <2>2. ASSUME NEW seq \in finding, Searches!PlacesFound(seq)
        PROVE  PlacesTyped' /\ ListIsLatest'
    <3>1. placeSeq' = placeSeq /\ finding' = finding \ {seq} /\ seq \in Nat
      BY <1>3, <2>2 DEF Searches!PlacesFound
    <3>2. CASE seq = placeSeq
      <4>1. found' \in {seq, 0} /\ searching' = FALSE
        BY <2>2, <3>2 DEF Searches!PlacesFound
      <4>2. PlacesTyped' /\ placeSeq' \notin finding'
        BY <1>3, <3>1, <3>2, <4>1
      <4> QED
        BY <3>1, <3>2, <4>1, <4>2
    <3>3. CASE seq # placeSeq
      <4>1. found' = found /\ searching' = searching
        BY <2>2, <3>3 DEF Searches!PlacesFound
      <4> QED
        BY <1>3, <3>1, <3>3, <4>1
    <3> QED
      BY <3>2, <3>3
  <2>3. ASSUME Searches!FlyToPlace PROVE PlacesTyped' /\ ListIsLatest'
    <3>1. found' = 0 /\ UNCHANGED <<placeSeq, finding, searching>>
      BY <2>3 DEF Searches!FlyToPlace
    <3> QED
      BY <1>3, <3>1
  <2>4. ASSUME Searches!DismissPlaceResults PROVE PlacesTyped' /\ ListIsLatest'
    <3>1. found' = 0 /\ searching' = FALSE /\ placeSeq' = placeSeq + 1 /\ finding' = finding
      BY <2>4 DEF Searches!DismissPlaceResults
    <3>2. PlacesTyped' /\ placeSeq' \notin finding'
      BY <1>3, <2>0, <3>1
    <3> QED
      BY <3>1, <3>2
  <2> QED
    BY <2>1, <2>2, <2>3, <2>4 DEF Searches!PlaceNext
<1> QED
  BY <1>2, <1>4 DEF SearchesInv

(* Aborting leaves nothing to be heard.                                         *)
LEMMA AbortingAll ==
    ASSUME SearchesInv
    PROVE  Searches!Abort(looking) \subseteq Lookups /\ \A q \in Searches!Abort(looking) : q.aborted
BY DEF SearchesInv, AroundTyped, Lookups, Searches!Abort

LEMMA SearchAroundKeeps ==
    ASSUME SearchesInv, NEW spot \in AroundSpots, Searches!SearchAroundPoint(spot)
    PROVE  AroundTyped' /\ OneIsHeard' /\ PanelIsLatest'
<1> DEFINE asks == [point |-> spot, aborted |-> FALSE]
           shows == IF around = Searches!NoAround THEN "none" ELSE around.result
           panel == [point |-> spot, loading |-> TRUE, cancelled |-> FALSE, result |-> shows]
<1>1. looking' = Searches!Abort(looking) \union {asks} /\ around' = panel
  BY DEF Searches!SearchAroundPoint
<1>2. asks \in Lookups /\ ~asks.aborted
  BY DEF Lookups
<1>3. shows \in AroundSpots \union {"none"}
  BY DEF SearchesInv, AroundTyped, Panels
<1>4. panel \in Panels /\ panel.loading
  BY <1>3 DEF Panels
<1> HIDE DEF asks, panel
<1> QED
  BY <1>1, <1>2, <1>4, AbortingAll DEF AroundTyped, OneIsHeard, PanelIsLatest

LEMMA AroundFoundKeeps ==
    ASSUME SearchesInv, NEW q \in looking, Searches!AroundFound(q)
    PROVE  AroundTyped' /\ OneIsHeard' /\ PanelIsLatest'
<1>1. looking' = looking \ {q}
  BY DEF Searches!AroundFound
<1>2. looking' \subseteq Lookups /\ OneIsHeard' /\ q \in Lookups
  BY <1>1 DEF SearchesInv, AroundTyped, OneIsHeard
<1>3. CASE q.aborted
  BY <1>1, <1>2, <1>3 DEF Searches!AroundFound, SearchesInv, AroundTyped, PanelIsLatest
<1>4. CASE ~q.aborted
  <2>1. PICK result \in {q.point, "none"} :
            around' = [point |-> q.point, loading |-> FALSE, cancelled |-> FALSE, result |-> result]
    BY <1>4 DEF Searches!AroundFound
  <2>2. around' \in Panels /\ around'.loading = FALSE /\ around'.point = q.point /\ around'.result = result
    BY <1>2, <2>1 DEF Panels, Lookups
  <2>3. \A r \in looking' : r.aborted
    BY <1>1, <1>4 DEF SearchesInv, OneIsHeard
  <2> QED
    BY <1>2, <2>2, <2>3 DEF AroundTyped, PanelIsLatest
<1> QED
  BY <1>3, <1>4

LEMMA CancelKeeps ==
    ASSUME SearchesInv, Searches!CancelAround
    PROVE  AroundTyped' /\ OneIsHeard' /\ PanelIsLatest'
<1>1. around \in Panels /\ looking' = Searches!Abort(looking)
  BY DEF Searches!CancelAround, SearchesInv, AroundTyped
<1>2. /\ around' \in Panels /\ around'.loading = FALSE
      /\ around'.result = around.result /\ around'.result \in {around'.point, "none"}
  <2>1. CASE around.result # "none"
    <3>1. around' = [around EXCEPT !.point = around.result, !.loading = FALSE]
      BY <2>1 DEF Searches!CancelAround
    <3> QED
      BY <1>1, <3>1 DEF Panels
  <2>2. CASE around.result = "none"
    <3>1. around' = [around EXCEPT !.loading = FALSE, !.cancelled = TRUE]
      BY <2>2 DEF Searches!CancelAround
    <3> QED
      BY <1>1, <2>2, <3>1 DEF Panels
  <2> QED
    BY <2>1, <2>2
<1> QED
  BY <1>1, <1>2, AbortingAll DEF AroundTyped, OneIsHeard, PanelIsLatest

LEMMA AroundKeeps ==
    ASSUME SearchesInv, Searches!AroundNext
    PROVE  SearchesInv'
<1>1. UNCHANGED <<placeSeq, finding, found, searching>>
  BY DEF Searches!AroundNext, Searches!placeVars
<1>2. PlacesTyped' /\ ListIsLatest'
  BY <1>1 DEF SearchesInv, PlacesTyped, ListIsLatest
<1>3. AroundTyped' /\ OneIsHeard' /\ PanelIsLatest'
  <2>1. CASE Searches!CloseAround
    BY <2>1, AbortingAll DEF Searches!CloseAround, AroundTyped, OneIsHeard, PanelIsLatest
  <2> QED
    BY <2>1, SearchAroundKeeps, AroundFoundKeeps, CancelKeeps DEF Searches!AroundNext
<1> QED
  BY <1>2, <1>3 DEF SearchesInv

LEMMA SearchesElsewhere ==
    ASSUME SearchesInv, UNCHANGED <<Searches!placeVars, Searches!aroundVars>>
    PROVE  SearchesInv'
BY DEF SearchesInv, Searches!placeVars, Searches!aroundVars, PlacesTyped, AroundTyped, OneIsHeard, ListIsLatest, PanelIsLatest

LEMMA SearchesStart == Searches!SearchInit => SearchesInv
<1> SUFFICES ASSUME Searches!SearchInit PROVE SearchesInv
  OBVIOUS
<1>1. /\ placeSeq = 0 /\ finding = {} /\ found = 0 /\ searching = FALSE
      /\ around = Searches!NoAround /\ looking = {}
  BY DEF Searches!SearchInit
<1> QED
  BY <1>1 DEF SearchesInv, PlacesTyped, AroundTyped, OneIsHeard, ListIsLatest, PanelIsLatest

LEMMA SearchesKeep == SearchesInv /\ [Searches!SearchNext]_searchVars => SearchesInv'
<1> SUFFICES ASSUME SearchesInv, [Searches!SearchNext]_searchVars PROVE SearchesInv'
  OBVIOUS
<1>1. CASE Searches!PlaceNext
  BY <1>1, PlacesKeep
<1>2. CASE Searches!AroundNext
  BY <1>2, AroundKeeps
<1>3. CASE Searches!PoiNext \/ Searches!HeightNext \/ UNCHANGED searchVars
  BY <1>3, SearchesElsewhere DEF Searches!PoiNext, Searches!HeightNext, searchVars, Searches!placeVars, Searches!aroundVars
<1> QED
  BY <1>1, <1>2, <1>3 DEF Searches!SearchNext

(* The list of places is the answer to the last search and never to one that was *)
(* overtaken or dismissed, and the panel around a point has that point's result, *)
(* for any number of searches and any order of answers.                         *)
THEOREM LatestShown == Spec => []ShowsLatest
<1>1. Init => SearchesInv
  BY SearchesStart DEF Init
<1>2. SearchesInv /\ [Next]_clientVars => SearchesInv'
  BY SearchesKeep DEF Next, clientVars
<1>3. SearchesInv => ShowsLatest
  BY DEF SearchesInv, ListIsLatest, PanelIsLatest, ShowsLatest, Searches!ShowsLatest
<1> QED
  BY <1>1, <1>2, <1>3, PTL DEF Spec

-----------------------------------------------------------------------------
(* The ride check.                                                              *)
MatchRequests == [geometry : Geometries \union {0}, graph : Nat, aborted : BOOLEAN, id : Nat]

RideCheckTyped ==
    /\ server \in Nat /\ polling \in Nat /\ graph \in Nat /\ sent \in Nat
    /\ geometry \in Geometries \union {0} /\ enabled \in BOOLEAN /\ requests \subseteq MatchRequests

(* A request that will be heard is for what is on the screen.                   *)
HeardIsShown == \A q \in requests : ~q.aborted => q.geometry = geometry /\ q.graph = graph

AnnotationInv == RideCheckTyped /\ HeardIsShown /\ Annotations!AnnotationFits

LEMMA MatchAborting ==
    ASSUME NEW q \in MatchRequests
    PROVE  [q EXCEPT !.aborted = TRUE] \in MatchRequests /\ [q EXCEPT !.aborted = TRUE].aborted
BY DEF MatchRequests

(* A render aborts what was asked, and asks again unless the match is there.     *)
LEMMA RenderKeeps ==
    ASSUME AnnotationInv, NEW g \in Geometries \union {0}, NEW k \in Nat, NEW on \in BOOLEAN,
           Annotations!Render(g, k, on), server' \in Nat, polling' \in Nat
    PROVE  AnnotationInv'
<1> DEFINE aborted == {[q EXCEPT !.aborted = TRUE] : q \in requests}
           asks == [geometry |-> g, graph |-> k, aborted |-> FALSE, id |-> sent]
<1>1. geometry' = g /\ graph' = k /\ enabled' = on
  BY DEF Annotations!Render
<1>2. \A q \in aborted : q \in MatchRequests /\ q.aborted
  BY MatchAborting DEF AnnotationInv, RideCheckTyped
<1>3. asks \in MatchRequests /\ asks.geometry = g /\ asks.graph = k /\ ~asks.aborted
  BY DEF AnnotationInv, RideCheckTyped, MatchRequests
<1>4. CASE Annotations!Needed(match, g, k, on)
  <2>1. requests' = aborted \union {asks} /\ match' = Annotations!NoLookup /\ sent' = sent + 1
    BY <1>4 DEF Annotations!Render
  <2> HIDE DEF aborted, asks
  <2>2. RideCheckTyped'
    BY <1>1, <1>2, <1>3, <2>1 DEF AnnotationInv, RideCheckTyped
  <2>3. HeardIsShown'
    BY <1>1, <1>2, <1>3, <2>1 DEF HeardIsShown
  <2>4. Annotations!AnnotationFits'
    BY <1>1, <1>3, <1>4, <2>1
       DEF Annotations!AnnotationFits, Annotations!Shown, Annotations!Current, Annotations!NoLookup
  <2> QED
    BY <2>2, <2>3, <2>4 DEF AnnotationInv
<1>5. CASE ~Annotations!Needed(match, g, k, on)
  <2>1. requests' = aborted /\ UNCHANGED <<match, sent>>
    BY <1>5 DEF Annotations!Render
  <2> HIDE DEF aborted, asks
  <2>2. RideCheckTyped' /\ HeardIsShown'
    BY <1>1, <1>2, <2>1 DEF AnnotationInv, RideCheckTyped, HeardIsShown
  <2>3. Annotations!AnnotationFits'
    BY <1>1, <1>5, <2>1
       DEF Annotations!AnnotationFits, Annotations!Shown, Annotations!Current, Annotations!Needed
  <2> QED
    BY <2>2, <2>3 DEF AnnotationInv
<1> QED
  BY <1>4, <1>5

LEMMA AnnotationElsewhere ==
    ASSUME AnnotationInv, UNCHANGED <<Annotations!page, match, requests, sent>>, server' \in Nat, polling' \in Nat
    PROVE  AnnotationInv'
BY DEF AnnotationInv, RideCheckTyped, HeardIsShown, Annotations!AnnotationFits, Annotations!page,
       Annotations!Shown, Annotations!Current

(* An answer that is heard is for the screen, and ends the only request that     *)
(* would have been.                                                             *)
LEMMA FoundKeeps ==
    ASSUME AnnotationInv, NEW q \in requests, Annotations!Found(q)
    PROVE  AnnotationInv'
<1>1. requests' = requests \ {q} /\ UNCHANGED <<server, polling, graph, geometry, enabled, sent>>
  BY DEF Annotations!Found, Annotations!page
<1>2. RideCheckTyped' /\ HeardIsShown'
  BY <1>1 DEF AnnotationInv, RideCheckTyped, HeardIsShown
<1>3. CASE q.aborted
  <2>1. match' = match
    BY <1>3 DEF Annotations!Found
  <2>2. Annotations!AnnotationFits'
    BY <1>1, <1>3, <2>1
       DEF AnnotationInv, Annotations!AnnotationFits, Annotations!Shown, Annotations!Current
  <2> QED
    BY <1>2, <2>2 DEF AnnotationInv
<1>4. CASE ~q.aborted
  <2>1. PICK end \in {"ready", "error"} : match' = [geometry |-> q.geometry, graph |-> q.graph, outcome |-> end]
    BY <1>4 DEF Annotations!Found
  <2>2. q.geometry = geometry /\ q.graph = graph
    BY <1>4 DEF AnnotationInv, HeardIsShown
  <2>3. Annotations!AnnotationFits'
    BY <1>1, <2>1, <2>2 DEF Annotations!AnnotationFits, Annotations!Shown, Annotations!Current
  <2> QED
    BY <1>2, <2>3 DEF AnnotationInv
<1> QED
  BY <1>3, <1>4

LEMMA AnnotationStarts == Annotations!AnnotationInit => AnnotationInv
<1> SUFFICES ASSUME Annotations!AnnotationInit PROVE AnnotationInv
  OBVIOUS
<1>1. RideCheckTyped
  BY DEF Annotations!AnnotationInit, Annotations!NoAnswer, RideCheckTyped
<1>2. requests = {} /\ enabled = FALSE
  BY DEF Annotations!AnnotationInit
<1> QED
  BY <1>1, <1>2 DEF AnnotationInv, HeardIsShown, Annotations!AnnotationFits

LEMMA AnnotationKeeps == AnnotationInv /\ [Annotations!AnnotationNext]_annotationVars => AnnotationInv'
<1> SUFFICES ASSUME AnnotationInv, [Annotations!AnnotationNext]_annotationVars PROVE AnnotationInv'
  OBVIOUS
<1>0. /\ server \in Nat /\ polling \in Nat /\ graph \in Nat /\ enabled \in BOOLEAN
      /\ geometry \in Geometries \union {0} /\ Annotations!NoAnswer \in Nat
  BY DEF AnnotationInv, RideCheckTyped, Annotations!NoAnswer
<1>1. CASE Annotations!ShowCheck \/ Annotations!Retry
  BY <1>0, <1>1, RenderKeeps DEF Annotations!ShowCheck, Annotations!Retry
<1>2. CASE Annotations!OpenGeneration \/ Annotations!Poll \/ Annotations!ChangeInterval
  <2>1. server' \in Nat /\ polling' \in Nat /\ UNCHANGED <<Annotations!page, match, requests, sent>>
    BY <1>0, <1>2 DEF Annotations!OpenGeneration, Annotations!Poll, Annotations!ChangeInterval
  <2> QED
    BY <2>1, AnnotationElsewhere
<1>3. CASE Annotations!Polled
  <2>1. server' \in Nat /\ polling' \in Nat
    BY <1>0, <1>3 DEF Annotations!Polled
  <2>2. CASE Annotations!Render(geometry, polling, enabled)
    BY <1>0, <2>1, <2>2, RenderKeeps
  <2>3. CASE UNCHANGED <<Annotations!page, match, requests, sent>>
    BY <2>1, <2>3, AnnotationElsewhere
  <2> QED
    BY <1>3, <2>2, <2>3 DEF Annotations!Polled
<1>4. CASE \E g \in Geometries : Annotations!OpenTrack(g)
  BY <1>0, <1>4, RenderKeeps DEF Annotations!OpenTrack
<1>5. CASE \E q \in requests : Annotations!Found(q)
  BY <1>5, FoundKeeps
<1>6. CASE UNCHANGED annotationVars
  BY <1>0, <1>6, AnnotationElsewhere DEF annotationVars, Annotations!page
<1> QED
  BY <1>1, <1>2, <1>3, <1>4, <1>5, <1>6 DEF Annotations!AnnotationNext

(* The ride check shows what was matched for the track on the screen and for the *)
(* generation the page has read, and one that says it is matching has a request  *)
(* that will be heard, for any tracks, generations and orders of answers.        *)
THEOREM AnnotationHeld == Spec => []AnnotationFits
<1>1. Init => AnnotationInv
  BY AnnotationStarts DEF Init
<1>2. AnnotationInv /\ [Next]_clientVars => AnnotationInv'
  BY AnnotationKeeps DEF Next, clientVars
<1>3. AnnotationInv => AnnotationFits
  BY DEF AnnotationInv, AnnotationFits
<1> QED
  BY <1>1, <1>2, <1>3, PTL DEF Spec

-----------------------------------------------------------------------------
(* The offline switch.  No complaint stands of what is not cached.              *)
Silent == \A i \in Issues : i.expected => issue # i.text

(* While no switch is under way the ref agrees with the mode; the page that is   *)
(* offline says so in both, and is silent also while it switches back.          *)
ModesAgree ==
    /\ switching = "no" => modeRef = mode
    /\ mode = "cache-only" => modeRef = "cache-only" /\ Silent

ShellInv == ModesAgree /\ Shell!OfflineIsQuiet

LEMMA ToldKeeps ==
    ASSUME ShellInv, NEW i \in Issues, Shell!HandleVectorStatus(i)
    PROVE  ShellInv'
<1>1. UNCHANGED <<mode, modeRef, switching>>
  BY DEF Shell!HandleVectorStatus
<1>2. ASSUME modeRef = "cache-only" PROVE issue' = "none" \/ (issue' = i.text /\ ~i.expected)
  BY <1>2 DEF Shell!HandleVectorStatus, Shell!Tells
<1>3. modeRef = "cache-only" => Silent'
  BY <1>2, ClientAssumption DEF Silent
<1> QED
  BY <1>1, <1>3 DEF ShellInv, ModesAgree, Shell!OfflineIsQuiet, Silent

LEMMA SwitchKeeps ==
    ASSUME ShellInv, Shell!ToggleOfflineMode \/ Shell!SwitchDone
    PROVE  ShellInv'
<1>1. CASE Shell!ToggleOfflineMode
  <2>1. /\ switching = "no" /\ switching' \in {"auto", "cache-only"} /\ UNCHANGED <<mode, issue>>
        /\ modeRef' \in {mode, "cache-only"}
    BY <1>1 DEF Shell!ToggleOfflineMode
  <2> QED
    BY <2>1 DEF ShellInv, ModesAgree, Shell!OfflineIsQuiet, Silent
<1>2. CASE Shell!SwitchDone
  <2>1. switching' = "no"
    BY <1>2 DEF Shell!SwitchDone
  <2>2. CASE mode' = switching /\ modeRef' = switching /\ issue' = "none"
    <3>1. Silent'
      BY <2>2, ClientAssumption DEF Silent
    <3> QED
      BY <2>1, <2>2, <3>1 DEF ShellInv, ModesAgree, Shell!OfflineIsQuiet, Silent
  <2>3. CASE modeRef' = mode /\ UNCHANGED <<mode, issue>>
    BY <2>1, <2>3 DEF ShellInv, ModesAgree, Shell!OfflineIsQuiet, Silent
  <2> QED
    BY <1>2, <2>2, <2>3 DEF Shell!SwitchDone
<1> QED
  BY <1>1, <1>2

LEMMA ShellElsewhere ==
    ASSUME ShellInv, UNCHANGED <<mode, modeRef, switching>>, issue' \in {issue, "none"}
    PROVE  ShellInv'
<1>1. Silent => Silent'
  BY ClientAssumption DEF Silent
<1> QED
  BY <1>1 DEF ShellInv, ModesAgree, Shell!OfflineIsQuiet, Silent

LEMMA ShellStarts == Shell!ShellInit => ShellInv
<1> SUFFICES ASSUME Shell!ShellInit PROVE ShellInv
  OBVIOUS
<1>1. mode = "auto" /\ modeRef = "auto"
  BY DEF Shell!ShellInit
<1> QED
  BY <1>1 DEF ShellInv, ModesAgree, Shell!OfflineIsQuiet

LEMMA ShellKeeps == ShellInv /\ [Shell!ShellNext]_shellVars => ShellInv'
<1> SUFFICES ASSUME ShellInv, [Shell!ShellNext]_shellVars PROVE ShellInv'
  OBVIOUS
<1> USE DEF Shell!modeVars
<1>1. CASE Shell!ModeNext
  <2>1. CASE \E i \in Issues : Shell!HandleVectorStatus(i)
    BY <2>1, ToldKeeps
  <2>2. CASE Shell!ToggleOfflineMode \/ Shell!SwitchDone
    BY <2>2, SwitchKeeps
  <2>3. CASE Shell!DismissNotification \/ Shell!HandleCacheMetadata \/ Shell!SelectBaseLayer
    BY <2>3, ShellElsewhere DEF Shell!DismissNotification, Shell!HandleCacheMetadata, Shell!SelectBaseLayer
  <2> QED
    BY <1>1, <2>1, <2>2, <2>3 DEF Shell!ModeNext
<1>2. CASE Shell!TilesNext \/ Shell!EscapeNext \/ Shell!CursorNext \/ UNCHANGED shellVars
  BY <1>2, ShellElsewhere DEF Shell!TilesNext, Shell!EscapeNext, Shell!CursorNext, shellVars
<1> QED
  BY <1>1, <1>2 DEF Shell!ShellNext

(* Once the switch to cache-only is over no complaint stands of a tile that is   *)
(* not cached, whatever the map complained of before, during and after it, and   *)
(* also when a switch back fails.                                               *)
THEOREM QuietOffline == Spec => []OfflineIsQuiet
<1>1. Init => ShellInv
  BY ShellStarts DEF Init
<1>2. ShellInv /\ [Next]_clientVars => ShellInv'
  BY ShellKeeps DEF Next, clientVars
<1>3. ShellInv => OfflineIsQuiet
  BY DEF ShellInv, OfflineIsQuiet
<1> QED
  BY <1>1, <1>2, <1>3, PTL DEF Spec

-----------------------------------------------------------------------------
(* Place search and heights.  The next request waits for the interval from the  *)
(* last one, and only the head of the queue is asked.                           *)
QueueTyped ==
    /\ now \in Int /\ nextStart \in Int /\ queue \in Seq(PlaceSearches) /\ starts \in Seq(Int)

Entries == [query : Queries \union {"none"}, state : {"idle", "queued", "asking", "answered", "aborted", "failed"},
            aborted : BOOLEAN]

LastIsSpaced == starts # <<>> => nextStart = starts[Len(starts)] + Interval

StartsAreSpaced == \A i \in 1 .. Len(starts) - 1 : starts[i + 1] - starts[i] >= Interval

HeadIsAsked == \A s \in PlaceSearches : search[s].state = "asking" => queue # <<>> /\ Head(queue) = s

PlacesInv == QueueTyped /\ search \in [PlaceSearches -> Entries] /\ LastIsSpaced /\ StartsAreSpaced /\ HeadIsAsked

-----------------------------------------------------------------------------
LEMMA EntryChanges ==
    ASSUME search \in [PlaceSearches -> Entries], NEW s \in PlaceSearches, NEW entry \in Entries,
           search' = [search EXCEPT ![s] = entry]
    PROVE  /\ search' \in [PlaceSearches -> Entries] /\ search'[s] = entry
           /\ \A t \in PlaceSearches : t # s => search'[t] = search[t]
OBVIOUS

LEMMA Queued ==
    ASSUME PlacesInv, NEW s \in PlaceSearches, NEW q \in Queries, Nominatim!SearchPlaces(s, q)
    PROVE  PlacesInv'
<1>1. UNCHANGED <<now, nextStart, starts>> /\ search[s] \in Entries /\ queue \in Seq(PlaceSearches)
  BY DEF Nominatim!SearchPlaces, PlacesInv, QueueTyped
<1>2. PICK state \in {"answered", "queued"} :
          /\ search' = [search EXCEPT ![s] = [@ EXCEPT !.query = q, !.state = state]]
          /\ queue' \in {queue, Append(queue, s)}
  BY DEF Nominatim!SearchPlaces
<1> DEFINE entry == [search[s] EXCEPT !.query = q, !.state = state]
<1>3. entry \in Entries /\ entry.state # "asking"
  BY <1>1 DEF Entries
<1>4. search' = [search EXCEPT ![s] = entry]
  BY <1>2
<1> HIDE DEF entry
<1>5. /\ search' \in [PlaceSearches -> Entries] /\ search'[s].state # "asking"
      /\ \A t \in PlaceSearches : t # s => search'[t] = search[t]
  BY <1>3, <1>4, EntryChanges DEF PlacesInv
<1>6. queue' \in Seq(PlaceSearches) /\ (queue # <<>> => queue' # <<>> /\ Head(queue') = Head(queue))
  BY <1>1, <1>2
<1>7. HeadIsAsked'
  BY <1>5, <1>6 DEF PlacesInv, HeadIsAsked
<1> QED
  BY <1>1, <1>5, <1>6, <1>7 DEF PlacesInv, QueueTyped, LastIsSpaced, StartsAreSpaced

(* The head ends, asked or not: nobody else is asked.                            *)
LEMMA Ended ==
    ASSUME PlacesInv, NEW s \in PlaceSearches, NEW state \in {"answered", "aborted", "failed"},
           Nominatim!Ends(s, state), queue # <<>>, Head(queue) = s, UNCHANGED <<now, nextStart, starts>>
    PROVE  PlacesInv'
<1>1. queue' = Tail(queue) /\ search' = [search EXCEPT ![s].state = state]
  BY DEF Nominatim!Ends
<1>2. queue' \in Seq(PlaceSearches) /\ search[s] \in Entries
  BY <1>1 DEF PlacesInv, QueueTyped
<1> DEFINE entry == [search[s] EXCEPT !.state = state]
<1>3. entry \in Entries /\ entry.state # "asking"
  BY <1>2 DEF Entries
<1>4. search' = [search EXCEPT ![s] = entry]
  BY <1>1
<1> HIDE DEF entry
<1>5. /\ search' \in [PlaceSearches -> Entries] /\ search'[s].state # "asking"
      /\ \A t \in PlaceSearches : t # s => search'[t] = search[t]
  BY <1>3, <1>4, EntryChanges DEF PlacesInv
<1>6. HeadIsAsked'
  BY <1>5 DEF PlacesInv, HeadIsAsked
<1> QED
  BY <1>2, <1>5, <1>6 DEF PlacesInv, QueueTyped, LastIsSpaced, StartsAreSpaced

LEMMA AbortKeeps ==
    ASSUME PlacesInv, NEW s \in PlaceSearches, Nominatim!AbortSearch(s)
    PROVE  PlacesInv'
<1>1. UNCHANGED <<now, nextStart, queue, starts>> /\ search' = [search EXCEPT ![s].aborted = TRUE]
      /\ search[s] \in Entries
  BY DEF Nominatim!AbortSearch, PlacesInv
<1> DEFINE entry == [search[s] EXCEPT !.aborted = TRUE]
<1>2. entry \in Entries /\ entry.state = search[s].state
  BY <1>1 DEF Entries
<1>3. search' = [search EXCEPT ![s] = entry]
  BY <1>1
<1> HIDE DEF entry
<1>4. /\ search' \in [PlaceSearches -> Entries]
      /\ \A t \in PlaceSearches : search'[t].state = search[t].state
  BY <1>2, <1>3, EntryChanges DEF PlacesInv
<1>5. HeadIsAsked'
  BY <1>1, <1>4 DEF PlacesInv, HeadIsAsked
<1> QED
  BY <1>1, <1>4, <1>5 DEF PlacesInv, QueueTyped, LastIsSpaced, StartsAreSpaced

LEMMA OneMore ==
    ASSUME NEW times \in Seq(Int), NEW time \in Int
    PROVE  LET all == Append(times, time)
           IN /\ all \in Seq(Int) /\ all # <<>> /\ all[Len(all)] = time
              /\ Len(times) \in Nat /\ Len(all) = Len(times) + 1 /\ \A i \in 1 .. Len(times) : all[i] = times[i]
OBVIOUS

LEMMA Spaced ==
    ASSUME NEW times \in Seq(Int), NEW time \in Int, NEW gap \in Nat,
           \A i \in 1 .. Len(times) - 1 : times[i + 1] - times[i] >= gap,
           times # <<>> => time - times[Len(times)] >= gap
    PROVE  LET all == Append(times, time)
           IN /\ all \in Seq(Int) /\ all # <<>> /\ all[Len(all)] = time
              /\ \A i \in 1 .. Len(all) - 1 : all[i + 1] - all[i] >= gap
<1> DEFINE all == Append(times, time)
<1>1. /\ all \in Seq(Int) /\ all # <<>> /\ all[Len(all)] = time
      /\ Len(times) \in Nat /\ Len(all) = Len(times) + 1 /\ \A i \in 1 .. Len(times) : all[i] = times[i]
  BY OneMore
<1> HIDE DEF all
<1>2. ASSUME NEW i \in 1 .. Len(all) - 1 PROVE all[i + 1] - all[i] >= gap
  <2>0. i \in Nat /\ 1 <= i /\ i <= Len(times)
    BY <1>1
  <2>1. CASE i = Len(times)
    <3>1. times # <<>> /\ all[i + 1] = time /\ all[i] = times[Len(times)]
      BY <1>1, <2>0, <2>1
    <3> QED
      BY <3>1
  <2>2. CASE i # Len(times)
    <3>1. i \in 1 .. Len(times) - 1 /\ i + 1 \in 1 .. Len(times)
      BY <1>1, <2>0, <2>2
    <3>2. all[i] = times[i] /\ all[i + 1] = times[i + 1]
      BY <1>1, <2>0, <3>1
    <3> QED
      BY <3>1, <3>2
  <2> QED
    BY <2>1, <2>2
<1> QED
  BY <1>1, <1>2, Zenon DEF all

LEMMA SendKeeps ==
    ASSUME PlacesInv, NEW s \in PlaceSearches, Nominatim!Send(s)
    PROVE  PlacesInv'
<1>1. /\ queue # <<>> /\ Head(queue) = s /\ now >= nextStart /\ nextStart' = now + Interval
      /\ search' = [search EXCEPT ![s].state = "asking"] /\ starts' = Append(starts, now)
      /\ UNCHANGED <<now, queue>> /\ search[s] \in Entries
  BY DEF Nominatim!Send, PlacesInv
<1>2. Interval \in Nat /\ now \in Int /\ nextStart \in Int /\ starts \in Seq(Int)
  BY ClientAssumption DEF PlacesInv, QueueTyped
<1>3. starts # <<>> => now - starts[Len(starts)] >= Interval
  BY <1>1, <1>2 DEF PlacesInv, LastIsSpaced
<1>4. /\ starts' \in Seq(Int) /\ starts' # <<>> /\ starts'[Len(starts')] = now
      /\ StartsAreSpaced'
  BY <1>1, <1>2, <1>3, Spaced DEF PlacesInv, StartsAreSpaced
<1> DEFINE entry == [search[s] EXCEPT !.state = "asking"]
<1>5. entry \in Entries
  BY <1>1 DEF Entries
<1>6. search' = [search EXCEPT ![s] = entry]
  BY <1>1
<1> HIDE DEF entry
<1>7. search' \in [PlaceSearches -> Entries] /\ \A t \in PlaceSearches : t # s => search'[t] = search[t]
  BY <1>5, <1>6, EntryChanges DEF PlacesInv
<1>8. HeadIsAsked'
  BY <1>1, <1>7 DEF PlacesInv, HeadIsAsked
<1>9. QueueTyped' /\ LastIsSpaced'
  BY <1>1, <1>2, <1>4 DEF PlacesInv, QueueTyped, LastIsSpaced
<1> QED
  BY <1>4, <1>7, <1>8, <1>9 DEF PlacesInv

LEMMA PlacesElsewhere ==
    ASSUME PlacesInv, UNCHANGED <<nextStart, queue, search, starts>>, now' \in Int
    PROVE  PlacesInv'
BY DEF PlacesInv, QueueTyped, LastIsSpaced, StartsAreSpaced, HeadIsAsked

LEMMA PlacesStart == Nominatim!PlaceInit => PlacesInv
<1> SUFFICES ASSUME Nominatim!PlaceInit PROVE PlacesInv
  OBVIOUS
<1>1. /\ now = 0 /\ nextStart = 0 /\ queue = <<>> /\ starts = <<>>
      /\ search = [s \in PlaceSearches |-> [query |-> "none", state |-> "idle", aborted |-> FALSE]]
  BY DEF Nominatim!PlaceInit
<1>2. search \in [PlaceSearches -> Entries] /\ HeadIsAsked
  BY <1>1 DEF Entries, HeadIsAsked
<1>3. queue \in Seq(PlaceSearches) /\ starts \in Seq(Int) /\ Len(starts) = 0
  BY <1>1
<1> QED
  BY <1>1, <1>2, <1>3 DEF PlacesInv, QueueTyped, LastIsSpaced, StartsAreSpaced

LEMMA PlacesKept == PlacesInv /\ [Nominatim!PlaceNext]_placeVars => PlacesInv'
<1> SUFFICES ASSUME PlacesInv, [Nominatim!PlaceNext]_placeVars PROVE PlacesInv'
  OBVIOUS
<1>1. CASE Nominatim!TimePasses \/ UNCHANGED placeVars
  <2>1. now \in Int
    BY DEF PlacesInv, QueueTyped
  <2>2. now' \in Int /\ UNCHANGED <<nextStart, queue, search, starts>>
    BY <1>1, <2>1 DEF Nominatim!TimePasses, placeVars
  <2> QED
    BY <2>2, PlacesElsewhere
<1>2. ASSUME NEW s \in PlaceSearches, Nominatim!AbortSearch(s) \/ Nominatim!Send(s)
      PROVE  PlacesInv'
  BY <1>2, AbortKeeps, SendKeeps
<1>3. ASSUME NEW s \in PlaceSearches,
             Nominatim!SearchAborted(s) \/ Nominatim!PlaceAnswered(s) \/ Nominatim!PlaceRefused(s)
      PROVE  PlacesInv'
  <2>1. queue # <<>> /\ Head(queue) = s /\ UNCHANGED <<now, nextStart, starts>>
    BY <1>3 DEF Nominatim!SearchAborted, Nominatim!PlaceAnswered, Nominatim!PlaceRefused, PlacesInv, HeadIsAsked
  <2>2. PICK state \in {"answered", "aborted", "failed"} : Nominatim!Ends(s, state)
    BY <1>3 DEF Nominatim!SearchAborted, Nominatim!PlaceAnswered, Nominatim!PlaceRefused
  <2> QED
    BY <2>1, <2>2, Ended
<1>4. ASSUME NEW s \in PlaceSearches, NEW q \in Queries, Nominatim!SearchPlaces(s, q)
      PROVE  PlacesInv'
  BY <1>4, Queued
<1> QED
  BY <1>1, <1>2, <1>3, <1>4 DEF Nominatim!PlaceNext

-----------------------------------------------------------------------------
(* The pool of workers.                                                         *)
PoolInv == next \in Nat /\ running \subseteq Nat /\ IsFiniteSet(running) /\ Cardinality(running) <= Concurrency

\* The parts count with a Cardinality of their own.
LEMMA SameCount == \A S : Profiles!Cardinality(S) = Cardinality(S) /\ Nominatim!Cardinality(S) = Cardinality(S)
BY DEF Cardinality, Profiles!Cardinality, Nominatim!Cardinality

LEMMA PoolKeeps == PoolInv /\ [Profiles!ProfileNext]_profileVars => PoolInv'
<1> SUFFICES ASSUME PoolInv, [Profiles!ProfileNext]_profileVars PROVE PoolInv'
  OBVIOUS
<1>0. Concurrency \in Nat /\ Cardinality(running) \in Nat
  BY ClientAssumption, FS_CardinalityType DEF PoolInv
<1>1. CASE Profiles!TakeChunk
  <2>1. Cardinality(running) < Concurrency /\ running' = running \union {next} /\ next' = next + 1
    BY <1>1, SameCount DEF Profiles!TakeChunk
  <2>2. IsFiniteSet(running') /\ Cardinality(running') <= Cardinality(running) + 1
    BY <2>1, <1>0, FS_AddElement DEF PoolInv
  <2>3. next' \in Nat /\ running' \subseteq Nat
    BY <2>1 DEF PoolInv
  <2>4. Cardinality(running') \in Nat
    BY <2>2, FS_CardinalityType
  <2> QED
    BY <1>0, <2>1, <2>2, <2>3, <2>4 DEF PoolInv
<1>2. ASSUME NEW k \in running, running' = running \ {k}, next' = next
      PROVE  PoolInv'
  <2>1. IsFiniteSet(running') /\ Cardinality(running') = Cardinality(running) - 1
    BY <1>2, FS_RemoveElement DEF PoolInv
  <2> QED
    BY <1>0, <1>2, <2>1 DEF PoolInv
<1>3. CASE Profiles!ChunkAnswered \/ Profiles!ChunkFailed
  BY <1>2, <1>3 DEF Profiles!ChunkAnswered, Profiles!ChunkFailed
<1>4. CASE Profiles!ProfileDone \/ UNCHANGED profileVars
  BY <1>4 DEF Profiles!ProfileDone, profileVars, PoolInv
<1> QED
  BY <1>1, <1>3, <1>4 DEF Profiles!ProfileNext

(* Nominatim is asked one search at a time and no faster than its interval, and   *)
(* the elevation service has at most as many chunks in hand as there are workers, *)
(* whatever is searched, aborted and answered meanwhile.                        *)
THEOREM Spared == Spec => []ServicesSpared
<1>1. Init => PlacesInv /\ PoolInv
  <2>1. Init => PlacesInv
    BY PlacesStart DEF Init
  <2>2. Init => next = 1 /\ running = {}
    <3>1. Init => Profiles!ProfileInit
      BY DEF Init
    <3> QED
      BY <3>1 DEF Profiles!ProfileInit
  <2>3. Cardinality({}) = 0 /\ IsFiniteSet({})
    BY FS_EmptySet
  <2>4. Concurrency \in Nat
    BY ClientAssumption
  <2> QED
    BY <2>1, <2>2, <2>3, <2>4 DEF PoolInv
<1>2. PlacesInv /\ [Next]_clientVars => PlacesInv'
  BY PlacesKept DEF Next, clientVars
<1>3. PoolInv /\ [Next]_clientVars => PoolInv'
  BY PoolKeeps DEF Next, clientVars
<1>4. PlacesInv => Nominatim!RateKept
  <2> SUFFICES ASSUME PlacesInv PROVE Nominatim!RateKept
    OBVIOUS
  <2> DEFINE asking == {s \in PlaceSearches : search[s].state = "asking"}
  <2>1. asking \subseteq {Head(queue)}
    BY DEF PlacesInv, HeadIsAsked
  <2>2. Cardinality(asking) <= 1
    <3>1. IsFiniteSet({Head(queue)}) /\ Cardinality({Head(queue)}) = 1
      BY FS_Singleton
    <3> QED
      BY <2>1, <3>1, FS_Subset
  <2> QED
    BY <2>2, SameCount DEF Nominatim!RateKept, PlacesInv, StartsAreSpaced
<1>5. PlacesInv /\ PoolInv => ServicesSpared
  BY <1>4, SameCount DEF ServicesSpared, PoolInv, Profiles!PoolBounded
<1> QED
  BY <1>1, <1>2, <1>3, <1>5, PTL DEF Spec

-----------------------------------------------------------------------------
(* Places around a point.  A finite set has no smallest part of which something *)
(* fails, which is what an order of its elements is shown with.                 *)
LEMMA SmallestPart ==
    ASSUME NEW S, IsFiniteSet(S), NEW B, B \subseteq SUBSET S, B # {}
    PROVE  \E T \in B : \A U \in B : U \subseteq T => U = T
<1>1. IsWellFoundedOn(StrictSubsetOrdering(S), SUBSET S)
  BY FS_StrictSubsetOrderingWellFounded, FS_FiniteSubsetsOfFinite
<1>2. \E T \in B : \A U \in B : <<U, T>> \notin StrictSubsetOrdering(S)
  BY <1>1, WFMin
<1>3. PICK T \in B : \A U \in B : <<U, T>> \notin StrictSubsetOrdering(S)
  BY <1>2
<1>4. ASSUME NEW U \in B, U \subseteq T, U # T
      PROVE  FALSE
  <2>1. <<U, T>> \in StrictSubsetOrdering(S)
    BY <1>4 DEF StrictSubsetOrdering
  <2> QED
    BY <2>1, <1>3
<1> QED
  BY <1>4

LEMMA FarthestOf ==
    ASSUME NEW S, IsFiniteSet(S), S # {}, NEW far \in [S -> Int]
    PROVE  \E m \in S : \A p \in S : far[p] <= far[m]
<1> DEFINE Has(T) == \E m \in T : \A p \in T : far[p] <= far[m]
<1> DEFINE bad == {T \in SUBSET S : T # {} /\ ~Has(T)}
<1>1. ASSUME bad # {} PROVE FALSE
  <2>1. PICK T \in bad : \A U \in bad : U \subseteq T => U = T
    <3>1. bad \subseteq SUBSET S
      OBVIOUS
    <3> HIDE DEF bad
    <3> QED BY <1>1, <3>1, SmallestPart
  <2>2. PICK x \in T : TRUE
    BY <2>1
  <2>3. T \ {x} \notin bad /\ T \ {x} \in SUBSET S
    <3> HIDE DEF Has
    <3> QED BY <2>1, <2>2
  <2>4. CASE T \ {x} = {}
    <3>1. T = {x} /\ x \in S
      BY <2>4, <2>2, <2>1
    <3>2. Has(T)
      BY <3>1
    <3> QED
      BY <3>2, <2>1
  <2>5. CASE T \ {x} # {}
    <3>1. PICK m \in T \ {x} : \A p \in T \ {x} : far[p] <= far[m]
      BY <2>3, <2>5
    <3>2. T \subseteq S /\ x \in S /\ m \in S
      BY <2>1, <2>2, <3>1
    <3>3. far[x] \in Int /\ far[m] \in Int /\ \A p \in T : far[p] \in Int
      BY <3>2
    <3>4. Has(T)
      <4>1. CASE far[x] <= far[m]
        <5>1. \A p \in T : far[p] <= far[m]
          BY <3>1, <4>1
        <5> QED BY <5>1, <3>1
      <4>2. CASE ~(far[x] <= far[m])
        <5>1. \A p \in T : far[p] <= far[x]
          BY <3>1, <3>3, <4>2
        <5> QED BY <5>1, <2>2
      <4> QED BY <4>1, <4>2
    <3> QED
      BY <3>4, <2>1
  <2> QED
    BY <2>4, <2>5
<1> QED
  BY <1>1

Rises(list, far) == \A i, j \in DOMAIN list : i < j => far[list[i]] <= far[list[j]]

LEMMA OrderedOf ==
    ASSUME NEW S, IsFiniteSet(S), NEW far \in [S -> Int]
    PROVE  \E list \in [1 .. Cardinality(S) -> S] : Areas!Range(list) = S /\ Rises(list, far)
<1> DEFINE Has(T) == \E list \in [1 .. Cardinality(T) -> T] : Areas!Range(list) = T /\ Rises(list, far)
<1> DEFINE bad == {T \in SUBSET S : ~Has(T)}
<1>1. ASSUME bad # {} PROVE FALSE
  <2>1. PICK T \in bad : \A U \in bad : U \subseteq T => U = T
    <3>1. bad \subseteq SUBSET S
      OBVIOUS
    <3> HIDE DEF bad
    <3> QED BY <1>1, <3>1, SmallestPart
  <2>2. T \subseteq S /\ IsFiniteSet(T) /\ ~Has(T)
    <3>1. T \in SUBSET S /\ ~Has(T)
      OBVIOUS
    <3> QED BY <3>1, FS_Subset
  <2>3. CASE T = {}
    <3> DEFINE none == [i \in 1 .. 0 |-> i]
    <3>1. Cardinality(T) = 0
      BY <2>3, FS_EmptySet
    <3>2. none \in [1 .. Cardinality(T) -> T] /\ Areas!Range(none) = T /\ Rises(none, far)
      BY <3>1, <2>3 DEF Areas!Range, Rises
    <3> QED
      BY <3>2, <2>2
  <2>4. CASE T # {}
    <3>1. [p \in T |-> far[p]] \in [T -> Int]
      BY <2>2
    <3>2. PICK m \in T : \A p \in T : far[p] <= far[m]
      BY <2>2, <2>4, <3>1, FarthestOf
    <3> DEFINE n == Cardinality(T)
    <3>3. Has(T \ {m})
      <4>1. T \ {m} \in SUBSET S /\ T \ {m} \subseteq T /\ T \ {m} # T
        BY <2>2, <3>2
      <4> HIDE DEF Has
      <4> QED BY <2>1, <4>1
    <3>4. n \in Nat /\ n # 0 /\ Cardinality(T \ {m}) = n - 1
      BY <2>2, <2>4, <3>2, FS_CardinalityType, FS_RemoveElement, FS_EmptySet
    <3> HIDE DEF n
    <3>5. PICK list \in [1 .. n - 1 -> T \ {m}] : Areas!Range(list) = T \ {m} /\ Rises(list, far)
      BY <3>3, <3>4
    <3> DEFINE more == [i \in 1 .. n |-> IF i = n THEN m ELSE list[i]]
    <3>6. \A i \in 1 .. n : i = n \/ (i \in 1 .. n - 1 /\ list[i] \in T \ {m})
      BY <3>4, <3>5
    <3>7. more \in [1 .. n -> T]
      BY <3>6
    <3>8. Areas!Range(more) = T
      <4>1. ASSUME NEW p \in T PROVE \E i \in 1 .. n : more[i] = p
        <5>1. CASE p = m
          BY <5>1, <3>4
        <5>2. CASE p # m
          <6>1. PICK i \in 1 .. n - 1 : list[i] = p
            BY <5>2, <3>5 DEF Areas!Range
          <6>2. i \in 1 .. n /\ i # n
            BY <6>1, <3>4
          <6> QED BY <6>1, <6>2
        <5> QED BY <5>1, <5>2
      <4> QED
        BY <4>1, <3>7 DEF Areas!Range
    <3>9. Rises(more, far)
      <4> SUFFICES ASSUME NEW i \in 1 .. n, NEW j \in 1 .. n, i < j
                   PROVE  far[more[i]] <= far[more[j]]
        BY DEF Rises
      <4>1. i \in 1 .. n - 1 /\ i # n /\ more[i] = list[i] /\ list[i] \in T
        BY <3>4, <3>6
      <4>2. CASE j = n
        BY <4>1, <4>2, <3>2
      <4>3. CASE j # n
        <5>1. j \in 1 .. n - 1 /\ more[j] = list[j]
          BY <3>4, <4>3
        <5> QED
          BY <4>1, <5>1, <3>5 DEF Rises
      <4> QED
        BY <4>2, <4>3
    <3> QED
      BY <3>7, <3>8, <3>9, <2>2 DEF n
  <2> QED
    BY <2>3, <2>4
<1>2. S \notin bad
  BY <1>1
<1> QED
  BY <1>2

\* The parts count with a Cardinality of their own.
LEMMA AreaCount == \A S : Areas!Cardinality(S) = Cardinality(S)
BY DEF Cardinality, Areas!Cardinality

LEMMA LargerSmaller ==
    ASSUME NEW a \in Int, NEW b \in Int
    PROVE  /\ Areas!Max({a, b}) \in {a, b} /\ Areas!Max({a, b}) >= a /\ Areas!Max({a, b}) >= b
           /\ Areas!Min({a, b}) \in {a, b} /\ Areas!Min({a, b}) <= a /\ Areas!Min({a, b}) <= b
           /\ Profiles!Max({a, b}) \in {a, b} /\ Profiles!Max({a, b}) >= a /\ Profiles!Max({a, b}) >= b
           /\ Profiles!Min({a, b}) \in {a, b} /\ Profiles!Min({a, b}) <= a /\ Profiles!Min({a, b}) <= b
<1>1. \E x \in {a, b} : \A y \in {a, b} : x >= y
  OBVIOUS
<1>2. \E x \in {a, b} : \A y \in {a, b} : x <= y
  OBVIOUS
<1>3. /\ Areas!Max({a, b}) \in {a, b} /\ Areas!Max({a, b}) >= a /\ Areas!Max({a, b}) >= b
      /\ Areas!Min({a, b}) \in {a, b} /\ Areas!Min({a, b}) <= a /\ Areas!Min({a, b}) <= b
  BY <1>1, <1>2 DEF Areas!Max, Areas!Min
<1>4. /\ Profiles!Max({a, b}) \in {a, b} /\ Profiles!Max({a, b}) >= a /\ Profiles!Max({a, b}) >= b
      /\ Profiles!Min({a, b}) \in {a, b} /\ Profiles!Min({a, b}) <= a /\ Profiles!Min({a, b}) <= b
  BY <1>1, <1>2 DEF Profiles!Max, Profiles!Min
<1> QED
  BY <1>3, <1>4

Spots == [lat : Int, lon : Int]
Far(c, p) == Areas!HaversineDistance(c, p)

LEMMA FarBounds ==
    ASSUME NEW c, NEW p, {c.lat, c.lon, p.lat, p.lon} \subseteq Int
    PROVE  /\ Far(c, p) \in Int
           /\ \A r \in Int : Far(c, p) <= r /\ Areas!AbsDiff(c.lon, p.lon) <= r =>
                /\ c.lat - r <= p.lat /\ p.lat <= c.lat + r
                /\ c.lon - r <= p.lon /\ p.lon <= c.lon + r
<1> DEFINE a == Areas!AbsDiff(c.lat, p.lat)  b == Areas!AbsDiff(c.lon, p.lon)
           e == Areas!AbsDiff(b, 2 * Half)   d == Areas!LonDiff(c.lon, p.lon)
<1>1. a \in Int /\ b \in Int /\ e \in Int
  <2>1. Half \in Int
    BY ClientAssumption
  <2>2. \A x, y \in Int : Areas!AbsDiff(x, y) \in Int
    BY DEF Areas!AbsDiff
  <2>3. {c.lat, c.lon, p.lat, p.lon, 2 * Half} \subseteq Int
    BY <2>1
  <2>4. b \in Int
    BY <2>2, <2>3
  <2> HIDE DEF b
  <2> QED
    BY <2>2, <2>3, <2>4
<1>2. d \in Int
  <2>1. d = Areas!Min({b, e})
    BY Zenon DEF Areas!LonDiff
  <2> HIDE DEF b, e, d
  <2> QED
    BY <1>1, <2>1, LargerSmaller
<1>3. Far(c, p) \in Int /\ Far(c, p) >= a
  <2>1. Far(c, p) = Areas!Max({a, d})
    BY Zenon DEF Far, Areas!HaversineDistance
  <2> HIDE DEF a, b, e, d
  <2>2. Areas!Max({a, d}) \in {a, d} /\ Areas!Max({a, d}) >= a
    BY <1>1, <1>2, LargerSmaller, Zenon
  <2> QED
    BY <1>1, <1>2, <2>1, <2>2
<1>4. ASSUME NEW r \in Int, Far(c, p) <= r, b <= r
      PROVE  /\ c.lat - r <= p.lat /\ p.lat <= c.lat + r
             /\ c.lon - r <= p.lon /\ p.lon <= c.lon + r
  <2>1. a <= r
    <3> HIDE DEF a
    <3> QED BY <1>1, <1>3, <1>4
  <2> QED
    BY <1>4, <2>1 DEF Areas!AbsDiff
<1> QED
  BY <1>3, <1>4

\* The list that is shown has exactly the places it is made of.
LEMMA ListHasAll ==
    ASSUME NEW c, {c.lat, c.lon} \subseteq Int, NEW S, S \subseteq World
    PROVE  Areas!Range(Areas!NearestFirst(c, S)) = S
<1>1. IsFiniteSet(S) /\ \A p \in S : p.lat \in -Pole .. Pole /\ p.lon \in -Half .. Half
  BY ClientAssumption, FS_Subset
<1> DEFINE far == [p \in S |-> Far(c, p)]
<1>2. far \in [S -> Int] /\ \A p \in S : far[p] = Areas!HaversineDistance(c, p)
  <2>1. Pole \in Int /\ Half \in Int
    BY ClientAssumption
  <2>2. \A p \in S : Far(c, p) \in Int
    BY <1>1, <2>1, FarBounds
  <2> QED
    BY <2>2 DEF Far
<1> HIDE DEF far
<1>3. PICK list \in [1 .. Cardinality(S) -> S] : Areas!Range(list) = S /\ Rises(list, far)
  BY <1>1, <1>2, OrderedOf
<1>4. \A i, j \in DOMAIN list :
          i < j => Areas!HaversineDistance(c, list[i]) <= Areas!HaversineDistance(c, list[j])
  BY <1>2, <1>3 DEF Rises
<1>5. list \in [1 .. Areas!Cardinality(S) -> S]
  BY <1>3, AreaCount
<1> QED
  BY <1>3, <1>4, <1>5 DEF Areas!NearestFirst

-----------------------------------------------------------------------------
\* Rounding outward.
LEMMA RoundedOut ==
    ASSUME NEW v \in Int, NEW g \in Nat \ {0}
    PROVE  /\ (v \div g) * g \in Int /\ (v \div g) * g <= v
           /\ ((v + g - 1) \div g) * g \in Int /\ v <= ((v + g - 1) \div g) * g
<1>1. ASSUME NEW w \in Int
      PROVE  (w \div g) * g \in Int /\ (w \div g) * g <= w /\ w - (w \div g) * g < g
  OBVIOUS
<1>2. /\ v + g - 1 \in Int /\ ((v + g - 1) \div g) * g \in Int
      /\ v + g - 1 - ((v + g - 1) \div g) * g < g
  BY <1>1
<1>3. \A u \in Int : v + g - 1 - u < g => v <= u
  OBVIOUS
<1> QED
  BY <1>1, <1>2, <1>3

Boxes == [south : Int, west : Int, north : Int, east : Int]

\* Every place of the circle on the centre's side of the date line lies in the
\* box that is asked for.
LEMMA CircleInBox ==
    ASSUME NEW c, {c.lat, c.lon} \subseteq Int, NEW r \in Int
    PROVE  LET box == Areas!AroundSearchArea(c, r)
           IN /\ box \in Boxes
              /\ \A p \in World : Far(c, p) <= r /\ Areas!AbsDiff(c.lon, p.lon) <= r => Areas!In(p, box)
<1> DEFINE box == Areas!AroundSearchArea(c, r)
           down(v, m) == Areas!Max({-m, (v \div GridStep) * GridStep})
           up(v, m) == Areas!Min({m, ((v + GridStep - 1) \div GridStep) * GridStep})
<1>1. {Pole, Half, -Pole, -Half} \subseteq Int /\ GridStep \in Nat \ {0}
  BY ClientAssumption
<1>2. ASSUME NEW v \in Int, NEW m \in {Pole, Half}
      PROVE  /\ down(v, m) \in Int /\ up(v, m) \in Int
             /\ \A x \in -m .. m : (v <= x => down(v, m) <= x) /\ (x <= v => x <= up(v, m))
  <2> DEFINE a == (v \div GridStep) * GridStep  b == ((v + GridStep - 1) \div GridStep) * GridStep
  <2>1. a \in Int /\ a <= v /\ b \in Int /\ v <= b
    BY <1>1, RoundedOut
  <2>2. down(v, m) = Areas!Max({-m, a}) /\ up(v, m) = Areas!Min({m, b})
    OBVIOUS
  <2> HIDE DEF a, b, down, up
  <2>3. down(v, m) \in {-m, a} /\ up(v, m) \in {m, b}
    BY <1>1, <2>1, <2>2, LargerSmaller
  <2> QED
    BY <1>1, <2>1, <2>3
<1>3. box = [south |-> down(c.lat - r, Pole), west |-> down(c.lon - r, Half),
             north |-> up(c.lat + r, Pole), east |-> up(c.lon + r, Half)]
  BY DEF Areas!AroundSearchArea
<1>4. c.lat \in Int /\ c.lon \in Int /\ {c.lat - r, c.lon - r, c.lat + r, c.lon + r} \subseteq Int
  OBVIOUS
<1> HIDE DEF box, down, up
<1>5. box \in Boxes
  BY <1>2, <1>3, <1>4 DEF Boxes
<1>6. ASSUME NEW p \in World, Far(c, p) <= r, Areas!AbsDiff(c.lon, p.lon) <= r PROVE Areas!In(p, box)
  <2>1. p.lat \in -Pole .. Pole /\ p.lon \in -Half .. Half
    BY ClientAssumption
  <2>2. p.lat \in Int /\ p.lon \in Int
    BY <1>1, <2>1
  <2>3. c.lat - r <= p.lat /\ p.lat <= c.lat + r /\ c.lon - r <= p.lon /\ p.lon <= c.lon + r
    BY <1>4, <1>6, <2>2, FarBounds
  <2>4. /\ down(c.lat - r, Pole) <= p.lat /\ down(c.lon - r, Half) <= p.lon
        /\ p.lat <= up(c.lat + r, Pole) /\ p.lon <= up(c.lon + r, Half)
    BY <1>2, <1>4, <2>1, <2>3
  <2>5. up(c.lat + r, Pole) >= p.lat /\ up(c.lon + r, Half) >= p.lon
    BY <1>2, <1>4, <2>2, <2>4
  <2> QED
    BY <1>3, <2>4, <2>5 DEF Areas!In, Areas!Surrounds
<1> QED
  BY <1>5, <1>6 DEF box

-----------------------------------------------------------------------------
\* What the session keeps: an answer that was not cut short has every place of its box.
Results == [area : Boxes, elements : SUBSET World, truncated : BOOLEAN]
KeptAreas == {r \in Results : ~r.truncated => \A p \in World : Areas!In(p, r.area) => p \in r.elements}

AreasInv == areas \in Seq(KeptAreas) /\ Areas!AnswerComplete

LEMMA FirstIn ==
    ASSUME NEW S, NEW n \in Nat, S \subseteq 1 .. n, S # {}
    PROVE  Areas!Min(S) \in S
<1> DEFINE back == [i \in S |-> -i]
<1>1. IsFiniteSet(S)
  <2>1. IsFiniteSet(1 .. n) /\ S \in SUBSET (1 .. n)
    BY FS_Interval
  <2> QED
    BY <2>1, FS_Subset
<1>2. back \in [S -> Int]
  OBVIOUS
<1>3. PICK m \in S : \A i \in S : back[i] <= back[m]
  BY <1>1, <1>2, FarthestOf
<1>4. \A i \in S : m <= i
  BY <1>3
<1> QED
  BY <1>4 DEF Areas!Min

LEMMA FoundCovers ==
    ASSUME AreasInv, NEW box, NEW r \in Areas!Covering(areas, box)
    PROVE  r \in KeptAreas /\ (r.area = box \/ Areas!Surrounds(r.area, box))
<1> DEFINE same == {i \in DOMAIN areas : areas[i].area = box}
           wider == {i \in DOMAIN areas : ~areas[i].truncated /\ Areas!Surrounds(areas[i].area, box)}
<1>1. Len(areas) \in Nat /\ DOMAIN areas = 1 .. Len(areas) /\ \A i \in DOMAIN areas : areas[i] \in KeptAreas
  BY DEF AreasInv
<1>2. same \subseteq 1 .. Len(areas) /\ wider \subseteq 1 .. Len(areas)
  BY <1>1
<1>3. \A i \in same : i \in DOMAIN areas /\ areas[i].area = box
  OBVIOUS
<1>4. \A i \in wider : i \in DOMAIN areas /\ Areas!Surrounds(areas[i].area, box)
  OBVIOUS
<1>5. \/ same # {} /\ r = areas[Areas!Min(same)]
      \/ wider # {} /\ r = areas[Areas!Min(wider)]
  BY DEF Areas!Covering
<1> HIDE DEF same, wider
<1>6. CASE same # {} /\ r = areas[Areas!Min(same)]
  <2>1. Areas!Min(same) \in same
    BY <1>1, <1>2, <1>6, FirstIn
  <2> QED
    BY <1>1, <1>3, <1>6, <2>1
<1>7. CASE wider # {} /\ r = areas[Areas!Min(wider)]
  <2>1. Areas!Min(wider) \in wider
    BY <1>1, <1>2, <1>7, FirstIn
  <2> QED
    BY <1>1, <1>4, <1>7, <2>1
<1> QED
  BY <1>5, <1>6, <1>7

LEMMA PutKeeps ==
    ASSUME AreasInv, NEW r \in KeptAreas
    PROVE  Areas!Put(areas, r) \in Seq(KeptAreas)
<1> DEFINE same == {i \in DOMAIN areas : areas[i].area = r.area}
           others == IF same = {} THEN areas ELSE Areas!RemoveAt(areas, Areas!Min(same))
           all == <<r>> \o others
           n == Areas!Min({MaxAreas, Len(all)})
<1>1. areas \in Seq(KeptAreas) /\ Len(areas) \in Nat /\ DOMAIN areas = 1 .. Len(areas)
  BY DEF AreasInv
<1>2. same \subseteq 1 .. Len(areas)
  BY <1>1
<1> HIDE DEF same
<1>3. others \in Seq(KeptAreas)
  <2>1. CASE same = {}
    BY <1>1, <2>1
  <2>2. CASE same # {}
    <3> DEFINE i == Areas!Min(same)
    <3>1. i \in 1 .. Len(areas)
      BY <1>1, <1>2, <2>2, FirstIn
    <3> HIDE DEF i
    <3>2. SubSeq(areas, 1, i - 1) \in Seq(KeptAreas) /\ SubSeq(areas, i + 1, Len(areas)) \in Seq(KeptAreas)
      BY <1>1, <3>1
    <3>3. Areas!RemoveAt(areas, i) \in Seq(KeptAreas)
      BY <3>2 DEF Areas!RemoveAt
    <3> QED
      BY <2>2, <3>3 DEF i
  <2> QED
    BY <2>1, <2>2
<1>4. Areas!Put(areas, r) = SubSeq(all, 1, n)
  BY DEF Areas!Put, same
<1> HIDE DEF others
<1>5. all \in Seq(KeptAreas) /\ Len(all) \in Nat
  BY <1>3
<1> HIDE DEF all
<1>6. n \in 0 .. Len(all)
  <2>1. MaxAreas \in Int /\ MaxAreas >= 0 /\ Len(all) \in Int
    BY <1>5, ClientAssumption
  <2>2. n \in {MaxAreas, Len(all)} /\ n <= Len(all)
    BY <2>1, LargerSmaller
  <2> QED
    BY <1>5, <2>1, <2>2
<1> HIDE DEF n
<1>7. SubSeq(all, 1, n) \in Seq(KeptAreas)
  BY <1>5, <1>6
<1> QED
  BY <1>4, <1>7

LEMMA RepliesAreKept ==
    ASSUME NEW box \in Boxes, NEW elements \in Areas!Replies(box)
    PROVE  [area |-> box, elements |-> elements, truncated |-> Areas!Cardinality(elements) >= ResultLimit]
               \in KeptAreas
<1> DEFINE there == {p \in World : Areas!In(p, box)}
           r == [area |-> box, elements |-> elements, truncated |-> Areas!Cardinality(elements) >= ResultLimit]
<1>1. elements \subseteq there
      /\ (elements = there \/ Areas!Cardinality(elements) = ResultLimit)
  BY DEF Areas!Replies, Areas!kSubset
<1>2. r \in Results
  BY <1>1 DEF Results
<1>3. CASE elements = there
  BY <1>2, <1>3 DEF KeptAreas
<1>4. CASE Areas!Cardinality(elements) = ResultLimit
  <2>1. ResultLimit >= ResultLimit
    BY ClientAssumption
  <2>2. r.truncated
    BY <1>4, <2>1
  <2> QED
    BY <1>2, <2>2 DEF KeptAreas
<1> QED
  BY <1>1, <1>3, <1>4

LEMMA AnsweredComplete ==
    ASSUME NEW c \in Centres, NEW radius \in Int, NEW r \in KeptAreas, NEW reused,
           r.area = Areas!AroundSearchArea(c, radius) \/ Areas!Surrounds(r.area, Areas!AroundSearchArea(c, radius)),
           Areas!Answered(c, radius, r, reused)
    PROVE  Areas!AnswerComplete'
<1> DEFINE box == Areas!AroundSearchArea(c, radius)
           near(S) == {p \in S : p.category # "none" /\ Areas!HaversineDistance(c, p) <= radius}
<1>1. {c.lat, c.lon} \subseteq Int
  BY ClientAssumption
<1>2. /\ answer'.centre = c /\ answer'.radius = radius /\ answer'.truncated = r.truncated
      /\ answer'.pois = Areas!AroundPoisWithin(r.elements, c, radius)
  BY DEF Areas!Answered
<1>3. r \in Results /\ r.elements \subseteq World
  BY DEF KeptAreas, Results
<1>4. Areas!Range(answer'.pois) = near(r.elements)
  <2>1. near(r.elements) \subseteq World
    BY <1>3
  <2>2. answer'.pois = Areas!NearestFirst(c, near(r.elements))
    BY <1>2 DEF Areas!AroundPoisWithin
  <2> HIDE DEF near
  <2> QED
    BY <1>1, <2>1, <2>2, ListHasAll
<1>5. ASSUME ~r.truncated, NEW p \in World, Areas!HaversineDistance(c, p) <= radius,
             Areas!AbsDiff(c.lon, p.lon) <= radius
      PROVE  p \in r.elements
  <2>1. box \in Boxes /\ Areas!In(p, box)
    BY <1>1, <1>5, CircleInBox DEF Far
  <2>2. Areas!In(p, r.area)
    <3>1. CASE r.area = box
      BY <2>1, <3>1
    <3>2. CASE Areas!Surrounds(r.area, box)
      <4>1. r.area \in Boxes /\ p.lat \in Int /\ p.lon \in Int
        BY <1>3, ClientAssumption DEF Results
      <4> HIDE DEF box
      <4> QED
        BY <2>1, <3>2, <4>1 DEF Areas!In, Areas!Surrounds, Boxes
    <3> QED
      BY <3>1, <3>2
  <2> QED
    BY <1>5, <2>2 DEF KeptAreas
<1>6. \A p \in near(r.elements) : p.category # "none" /\ Areas!HaversineDistance(c, p) <= radius
  OBVIOUS
<1>7. \A p \in World : /\ ~r.truncated
                        /\ p.category # "none" /\ Areas!HaversineDistance(c, p) <= radius
                        /\ Areas!AbsDiff(c.lon, p.lon) <= radius
                        => p \in near(r.elements)
  BY <1>3, <1>5
<1> HIDE DEF near
<1> QED
  BY <1>2, <1>4, <1>6, <1>7 DEF Areas!AnswerComplete, Areas!InCircle, Areas!OnThisSide

LEMMA AreasKept == AreasInv /\ [Areas!AreaNext]_areaVars => AreasInv'
<1> SUFFICES ASSUME AreasInv, [Areas!AreaNext]_areaVars PROVE AreasInv'
  OBVIOUS
<1>1. CASE UNCHANGED areaVars
  BY <1>1 DEF areaVars, AreasInv, Areas!AnswerComplete, Areas!InCircle, Areas!OnThisSide
<1>2. ASSUME NEW c \in Centres, NEW size \in Radii,
             \/ Areas!SearchFromCache(c, size) \/ Areas!SearchAround(c, size) \/ Areas!SearchFails(c, size)
      PROVE  AreasInv'
  <2> DEFINE radius == Areas!Radius(size)  box == Areas!AroundSearchArea(c, radius)
  <2>1. radius \in Int
    <3>1. {size, SmallestRadius, LargestRadius} \subseteq Int
      BY ClientAssumption
    <3>2. Areas!Max({size, SmallestRadius}) \in {size, SmallestRadius}
      BY <3>1, LargerSmaller, Zenon
    <3>3. {Areas!Max({size, SmallestRadius}), LargestRadius} \subseteq Int
      BY <3>1, <3>2, Zenon
    <3>4. Areas!Radius(size) \in {Areas!Max({size, SmallestRadius}), LargestRadius}
      BY <3>3, LargerSmaller, Zenon DEF Areas!Radius
    <3> QED
      BY <3>3, <3>4, Zenon
  <2>2. box \in Boxes
    <3>1. {c.lat, c.lon} \subseteq Int
      BY ClientAssumption
    <3> HIDE DEF radius
    <3> QED
      BY <2>1, <3>1, CircleInBox
  <2>3. CASE Areas!SearchFromCache(c, size)
    <3>1. UNCHANGED areas
      BY <2>3 DEF Areas!SearchFromCache
    <3>2. PICK r \in Areas!Covering(areas, box) : Areas!Answered(c, radius, r, TRUE)
      BY <2>3 DEF Areas!SearchFromCache
    <3> HIDE DEF radius
    <3>3. Areas!AnswerComplete'
      BY <2>1, <3>2, FoundCovers, AnsweredComplete
    <3> QED
      BY <3>1, <3>3 DEF AreasInv
  <2>4. CASE Areas!SearchAround(c, size)
    <3>1. PICK elements \in Areas!Replies(box) :
              LET r == [area |-> box, elements |-> elements, truncated |-> Areas!Cardinality(elements) >= ResultLimit]
              IN areas' = Areas!Put(areas, r) /\ Areas!Answered(c, radius, r, FALSE)
      BY <2>4 DEF Areas!SearchAround
    <3> DEFINE r == [area |-> box, elements |-> elements, truncated |-> Areas!Cardinality(elements) >= ResultLimit]
    <3>2. r \in KeptAreas
      <4> HIDE DEF box
      <4> QED BY <2>2, RepliesAreKept
    <3>3. r.area = box /\ areas' = Areas!Put(areas, r) /\ Areas!Answered(c, radius, r, FALSE)
      BY <3>1
    <3> HIDE DEF r, radius
    <3>4. areas' \in Seq(KeptAreas)
      BY <3>2, <3>3, PutKeeps
    <3>5. Areas!AnswerComplete'
      BY <2>1, <3>2, <3>3, AnsweredComplete
    <3> QED
      BY <3>4, <3>5 DEF AreasInv
  <2>5. CASE Areas!SearchFails(c, size)
    BY <2>5 DEF Areas!SearchFails, AreasInv, Areas!AnswerComplete
  <2> QED
    BY <1>2, <2>3, <2>4, <2>5
<1> QED
  BY <1>1, <1>2 DEF Areas!AreaNext

(* An answer that is not marked as cut short has every place of its circle up to *)
(* the date line, also when it came from an area that was searched before, and   *)
(* none has a place outside its circle.                                         *)
THEOREM AnswersComplete == Spec => []AnswerComplete
<1>1. Init => AreasInv
  <2>1. Init => Areas!AreaInit
    BY DEF Init
  <2> QED
    BY <2>1 DEF Areas!AreaInit, AreasInv, Areas!AnswerComplete
<1>2. AreasInv /\ [Next]_clientVars => AreasInv'
  BY AreasKept DEF Next, clientVars
<1>3. AreasInv => AnswerComplete
  BY DEF AreasInv, AnswerComplete
<1> QED
  BY <1>1, <1>2, <1>3, PTL DEF Spec

-----------------------------------------------------------------------------
(* A height profile: samples rise, fall into chunks, and a height is filled in  *)
(* from the sample that is not behind its point.                                *)
LEMMA Division ==
    ASSUME NEW a \in Nat, NEW b \in Nat \ {0}
    PROVE  /\ a \div b \in Nat /\ a % b \in 0 .. b - 1
           /\ (a \div b) * b \in Nat /\ a = (a \div b) * b + (a % b)
           /\ (a \div b) * b <= a /\ a < (a \div b) * b + b
<1>1. a \div b \in Nat /\ a % b \in 0 .. b - 1
  OBVIOUS
<1>2. a = (a \div b) * b + (a % b)
  OBVIOUS
<1>3. (a \div b) * b \in Nat
  BY <1>1
<1>4. \A x \in Nat, r \in 0 .. b - 1 : a = x + r => x <= a /\ a < x + b
  OBVIOUS
<1> QED
  BY <1>1, <1>2, <1>3, <1>4

LEMMA Smaller ==
    ASSUME NEW a \in Nat, NEW b \in Nat, NEW c \in Nat, a <= b
    PROVE  a * c \in Nat /\ b * c \in Nat /\ a * c <= b * c
OBVIOUS

\* Samples rise from the first point to the last.
LEMMA SamplesRise ==
    ASSUME NEW n \in Nat \ {0}
    PROVE  LET all == Profiles!SampleIndices(n)
           IN /\ all \in Seq(1 .. n) /\ Len(all) \in Nat \ {0} /\ all[1] = 1
              /\ \A s, t \in 1 .. Len(all) : s < t => all[s] < all[t]
<1> DEFINE stride == Profiles!Max({1, (n + MaxHeights - 1) \div MaxHeights})
           whole == (n + stride - 2) \div stride
           count == whole + 1
           place(s) == (s - 1) * stride + 1
           all == Profiles!SampleIndices(n)
<1>1. stride \in Nat \ {0}
  <2>1. MaxHeights \in Nat \ {0} /\ n + MaxHeights - 1 \in Nat
    BY ClientAssumption
  <2>2. (n + MaxHeights - 1) \div MaxHeights \in Nat
    BY <2>1, Division
  <2> DEFINE x == (n + MaxHeights - 1) \div MaxHeights
  <2>3. x \in Int /\ 1 \in Int
    BY <2>2
  <2> HIDE DEF x
  <2>4. Profiles!Max({1, x}) \in {1, x} /\ Profiles!Max({1, x}) >= 1
    BY <2>3, LargerSmaller
  <2> QED
    BY <2>3, <2>4 DEF x
<1>2. all = [s \in 1 .. count |-> Profiles!Min({place(s), n})]
  BY DEF Profiles!SampleIndices
<1> HIDE DEF stride, all
<1>3. n + stride - 2 \in Nat
  BY <1>1
<1>4. whole \in Nat /\ whole * stride \in Nat /\ whole * stride <= n + stride - 2
  BY <1>1, <1>3, Division
<1> HIDE DEF whole
<1>5. ASSUME NEW s \in 1 .. count
      PROVE  /\ s - 1 \in Nat /\ place(s) \in Nat /\ place(s) >= 1
             /\ s <= whole => place(s) < n
  <2>1. s - 1 \in Nat /\ (s - 1) * stride \in Nat
    BY <1>1, <1>4
  <2>2. ASSUME s <= whole PROVE place(s) < n
    <3>1. s * stride \in Nat /\ s * stride <= whole * stride
      BY <1>1, <1>4, <2>2, Smaller
    <3>2. s * stride = (s - 1) * stride + stride
      BY <1>1
    <3> QED
      BY <1>1, <1>4, <2>1, <3>1, <3>2
  <2> QED
    BY <2>1, <2>2
<1>6. ASSUME NEW s \in 1 .. count
      PROVE  all[s] \in 1 .. n /\ all[s] <= place(s) /\ (s <= whole => all[s] = place(s))
  <2> HIDE DEF place
  <2>1. all[s] = Profiles!Min({place(s), n})
    BY <1>2
  <2>2. place(s) \in Int /\ n \in Int
    BY <1>5
  <2>3. Profiles!Min({place(s), n}) \in {place(s), n} /\ Profiles!Min({place(s), n}) <= place(s)
        /\ Profiles!Min({place(s), n}) <= n
    BY <2>2, LargerSmaller
  <2> QED
    BY <1>5, <2>1, <2>2, <2>3
<1>7. Len(all) = count /\ all \in Seq(1 .. n) /\ count \in Nat \ {0}
  BY <1>2, <1>4, <1>6
<1>8. all[1] = 1
  <2>1. 1 \in 1 .. count /\ place(1) = 1
    BY <1>1, <1>4
  <2> HIDE DEF place
  <2> QED
    BY <1>6, <2>1
<1>9. ASSUME NEW s \in 1 .. count, NEW t \in 1 .. count, s < t
      PROVE  all[s] < all[t]
  <2>1. s <= whole
    BY <1>4, <1>9
  <2>2. place(s) < place(t)
    <3>1. (s - 1) + 1 <= t - 1 /\ t - 1 \in Nat /\ s - 1 \in Nat
      BY <1>4, <1>9
    <3>2. ((s - 1) + 1) * stride <= (t - 1) * stride /\ ((s - 1) + 1) * stride = (s - 1) * stride + stride
      BY <1>1, <3>1, Smaller
    <3> QED
      BY <1>1, <1>5, <3>2
  <2> HIDE DEF place
  <2>3. all[s] = place(s) /\ place(s) < n
    BY <1>5, <1>6, <2>1
  <2>4. all[t] = Profiles!Min({place(t), n})
    BY <1>2
  <2>5. place(t) \in Int /\ n \in Int
    BY <1>5
  <2>6. all[t] \in {place(t), n}
    BY <2>4, <2>5, LargerSmaller
  <2> QED
    BY <2>2, <2>3, <2>6
<1> QED
  BY <1>7, <1>8, <1>9 DEF all

-----------------------------------------------------------------------------
LEMMA InPiece ==
    ASSUME NEW s \in Int, NEW f \in Int, NEW l \in Int, NEW r \in Int, NEW size \in Int, NEW all \in Int,
           s = f + r, 0 <= r, r < size, s <= all, l = f - 1 + size \/ l = all
    PROVE  r + 1 \in 1 .. l - f + 1
OBVIOUS

\* A chunk holds as many samples as are asked for at once, in the order of the track.
LEMMA ChunkOfSample ==
    ASSUME NEW n \in Nat \ {0}
    PROVE  LET all == Profiles!SampleIndices(n)
               chunks == Profiles!Chunks(n)
           IN /\ \E count \in Nat : DOMAIN chunks = 1 .. count
              /\ \A k \in DOMAIN chunks : chunks[k] \in Seq(1 .. n) /\ Len(chunks[k]) \in Nat \ {0}
              /\ \A s \in 1 .. Len(all) :
                    LET k == (s - 1) \div ChunkSize + 1
                        j == ((s - 1) % ChunkSize) + 1
                    IN k \in DOMAIN chunks /\ j \in 1 .. Len(chunks[k]) /\ chunks[k][j] = all[s]
<1> DEFINE all == Profiles!SampleIndices(n)
           chunks == Profiles!Chunks(n)
           count == (Len(all) + ChunkSize - 1) \div ChunkSize
           first(k) == (k - 1) * ChunkSize + 1
           last(k) == Profiles!Min({k * ChunkSize, Len(all)})
<1>1. ChunkSize \in Nat \ {0}
  BY ClientAssumption
<1>2. all \in Seq(1 .. n) /\ Len(all) \in Nat \ {0}
  BY SamplesRise
<1>3. chunks = [k \in 1 .. count |-> SubSeq(all, first(k), last(k))]
  BY DEF Profiles!Chunks
<1> HIDE DEF all, chunks
<1>4. Len(all) + ChunkSize - 1 \in Nat
  BY <1>1, <1>2
<1>5. /\ count \in Nat /\ count * ChunkSize \in Nat
      /\ count * ChunkSize <= Len(all) + ChunkSize - 1
      /\ Len(all) + ChunkSize - 1 < count * ChunkSize + ChunkSize
  <2> DEFINE a == Len(all) + ChunkSize - 1
  <2>2. a \in Nat
    BY <1>4
  <2> HIDE DEF a
  <2>3. /\ a \div ChunkSize \in Nat /\ (a \div ChunkSize) * ChunkSize \in Nat
        /\ (a \div ChunkSize) * ChunkSize <= a /\ a < (a \div ChunkSize) * ChunkSize + ChunkSize
    BY <1>1, <2>2, Division
  <2> QED
    BY <2>3 DEF a
<1> HIDE DEF count
<1>6. ASSUME NEW k \in 1 .. count
      PROVE  /\ first(k) \in 1 .. Len(all) /\ k * ChunkSize \in Nat /\ k * ChunkSize = first(k) - 1 + ChunkSize
             /\ last(k) \in {k * ChunkSize, Len(all)} /\ last(k) <= Len(all)
             /\ last(k) \in first(k) .. Len(all)
             /\ chunks[k] \in Seq(1 .. n) /\ Len(chunks[k]) = last(k) - first(k) + 1
             /\ \A j \in 1 .. last(k) - first(k) + 1 : chunks[k][j] = all[first(k) - 1 + j]
  <2>1. k - 1 \in Nat /\ (k - 1) * ChunkSize \in Nat
    BY <1>1, <1>5
  <2>2. k * ChunkSize \in Nat /\ k * ChunkSize <= count * ChunkSize /\ k * ChunkSize = (k - 1) * ChunkSize + ChunkSize
    BY <1>1, <1>5, Smaller
  <2>3. first(k) \in Nat /\ first(k) >= 1 /\ first(k) <= Len(all) /\ k * ChunkSize = first(k) - 1 + ChunkSize
    BY <1>1, <1>2, <1>5, <2>1, <2>2
  <2> HIDE DEF first
  <2>4. last(k) \in {k * ChunkSize, Len(all)} /\ last(k) <= Len(all)
    <3>1. k * ChunkSize \in Int /\ Len(all) \in Int
      BY <1>2, <2>2
    <3> QED
      BY <3>1, LargerSmaller
  <2> HIDE DEF last
  <2>5. last(k) \in first(k) .. Len(all)
    BY SMTT(30), <1>1, <1>2, <2>2, <2>3, <2>4
  <2>6. first(k) \in 1 .. Len(all)
    BY <1>2, <2>3
  <2>7. chunks[k] = SubSeq(all, first(k), last(k))
    BY <1>3
  <2>8. \A a, b \in 1 .. Len(all) : a <= b =>
            /\ SubSeq(all, a, b) \in Seq(1 .. n) /\ Len(SubSeq(all, a, b)) = b - a + 1
            /\ \A j \in 1 .. b - a + 1 : SubSeq(all, a, b)[j] = all[a - 1 + j]
    BY SMTT(30), <1>2
  <2>9. last(k) \in 1 .. Len(all) /\ first(k) <= last(k)
    BY <1>2, <2>5, <2>6
  <2> QED
    BY SMTT(30), <2>2, <2>3, <2>4, <2>5, <2>6, <2>7, <2>8, <2>9
<1>7. DOMAIN chunks = 1 .. count
  BY <1>3
<1> HIDE DEF first, last
<1>8. ASSUME NEW k \in DOMAIN chunks PROVE chunks[k] \in Seq(1 .. n) /\ Len(chunks[k]) \in Nat \ {0}
  <2>1. k \in 1 .. count
    BY <1>7, <1>8
  <2> QED
    BY <1>2, <1>6, <2>1
<1>9. ASSUME NEW s \in 1 .. Len(all)
      PROVE  LET k == (s - 1) \div ChunkSize + 1
                 j == ((s - 1) % ChunkSize) + 1
             IN k \in 1 .. count /\ j \in 1 .. Len(chunks[k]) /\ chunks[k][j] = all[s]
  <2> DEFINE q == (s - 1) \div ChunkSize  r == (s - 1) % ChunkSize  k == q + 1
  <2>1. s - 1 \in Nat /\ s - 1 + 1 = s
    BY <1>2
  <2>2. q \in Nat /\ q * ChunkSize \in Nat /\ s - 1 = q * ChunkSize + r /\ r \in 0 .. ChunkSize - 1
    BY <1>1, <2>1, Division
  <2> HIDE DEF q, r
  <2>3. k \in 1 .. count
    <3>1. CASE k <= count
      BY <1>5, <2>2, <3>1
    <3>2. CASE count < k
      <4>1. count * ChunkSize <= q * ChunkSize
        BY <1>1, <1>5, <2>2, <3>2, Smaller
      <4> QED
        BY <1>1, <1>2, <1>5, <2>1, <2>2, <4>1
    <3> QED
      BY <1>5, <2>2, <3>1, <3>2
  <2>4. first(k) = q * ChunkSize + 1
    BY <2>2 DEF first
  <2>5. s = first(k) + r /\ first(k) + r = first(k) - 1 + (r + 1)
    BY <1>1, <2>1, <2>2, <2>4
  <2> HIDE DEF k
  <2> DEFINE end == k * ChunkSize
  <2>6. /\ end \in Nat /\ end = first(k) - 1 + ChunkSize /\ last(k) \in {end, Len(all)}
        /\ first(k) \in 1 .. Len(all) /\ last(k) \in first(k) .. Len(all)
        /\ r \in 0 .. ChunkSize - 1
    BY <1>6, <2>2, <2>3
  <2> HIDE DEF end
  <2>7. r + 1 \in 1 .. last(k) - first(k) + 1
    <3>1. /\ {s, first(k), last(k), r, ChunkSize, Len(all)} \subseteq Int /\ s = first(k) + r
          /\ 0 <= r /\ r < ChunkSize /\ s <= Len(all) /\ (last(k) = first(k) - 1 + ChunkSize \/ last(k) = Len(all))
      BY <1>1, <1>2, <2>5, <2>6
    <3> QED
      BY <3>1, InPiece
  <2>8. chunks[k][r + 1] = all[s] /\ r + 1 \in 1 .. Len(chunks[k])
    BY <1>6, <2>3, <2>5, <2>7
  <2> QED
    BY <2>3, <2>8 DEF k, q, r
<1> QED
  BY <1>2, <1>5, <1>7, <1>8, <1>9 DEF all, chunks
-----------------------------------------------------------------------------
\* The sample a point is filled in from is the last one that is not behind it.
LEMMA SampleBefore ==
    ASSUME NEW n \in Nat \ {0}, NEW i \in 1 .. n
    PROVE  LET all == Profiles!SampleIndices(n)
               before == Profiles!Max({s \in DOMAIN all : all[s] <= i})
           IN /\ before \in 1 .. Len(all)
              /\ all[before] # i => i \notin Profiles!Range(all)
<1> DEFINE all == Profiles!SampleIndices(n)
           behind == {s \in DOMAIN all : all[s] <= i}
           before == Profiles!Max(behind)
<1>1. /\ all \in Seq(1 .. n) /\ Len(all) \in Nat \ {0} /\ all[1] = 1
      /\ \A s, t \in 1 .. Len(all) : s < t => all[s] < all[t]
  BY SamplesRise
<1> HIDE DEF all
<1>2. DOMAIN all = 1 .. Len(all) /\ \A s \in DOMAIN all : all[s] \in 1 .. n
  BY <1>1
<1>3. behind \subseteq 1 .. Len(all) /\ 1 \in behind
  BY <1>1, <1>2
<1>4. IsFiniteSet(behind)
  BY <1>1, <1>3, FS_Interval, FS_Subset
<1>5. \E m \in behind : \A s \in behind : s <= m
  <2> DEFINE itself == [s \in behind |-> s]
  <2>1. itself \in [behind -> Int]
    BY <1>1, <1>3
  <2>2. behind # {}
    BY <1>3
  <2> HIDE DEF behind
  <2>3. \E m \in behind : \A s \in behind : itself[s] <= itself[m]
    <3> HIDE DEF itself
    <3> QED BY <1>4, <2>1, <2>2, FarthestOf
  <2> QED
    BY <2>3
<1>6. before \in behind /\ \A s \in behind : s <= before
  <2> HIDE DEF behind
  <2>1. \E m \in behind : \A s \in behind : m >= s
    <3>1. \A m, s \in behind : s <= m => m >= s
      BY <1>1, <1>3
    <3> QED BY <1>5, <3>1
  <2> QED
    <3>1. before \in behind /\ \A s \in behind : before >= s
      BY <2>1 DEF Profiles!Max
    <3> QED BY <1>1, <1>3, <3>1
<1> HIDE DEF before
<1>7. ASSUME all[before] # i, NEW s \in DOMAIN all, all[s] = i
      PROVE  FALSE
  <2>1. s \in behind /\ s <= before
    BY <1>2, <1>6, <1>7
  <2>2. s # before /\ before \in 1 .. Len(all) /\ s \in 1 .. Len(all) /\ all[before] <= i
    BY <1>2, <1>6, <1>7
  <2>3. s < before
    BY <1>1, <2>1, <2>2
  <2>4. all[s] < all[before]
    BY <1>1, <2>2, <2>3
  <2> QED
    BY <1>2, <1>7, <2>2, <2>4
<1> QED
  BY <1>2, <1>3, <1>6, <1>7 DEF Profiles!Range, all, before

\* A chunk's heights are those of its points, or unknown.
HeightsOf(k) ==
    \A j \in 1 .. Len(Profiles!Chunks(points)[k]) :
        sampled[k][j] \in {{}, HeightAt(Profiles!Chunks(points)[k][j])}

ProfileInv ==
    /\ points \in Nat \ {0} /\ next \in Nat \ {0}
    /\ DOMAIN sampled = DOMAIN Profiles!Chunks(points)
    /\ running \subseteq DOMAIN sampled /\ \A k \in running : k < next
    /\ outcome # "failed" => \A k \in DOMAIN sampled : k < next /\ k \notin running => HeightsOf(k)
    /\ outcome = "done" => running = {} /\ next \notin DOMAIN sampled

LEMMA ReplyRead ==
    ASSUME NEW n \in Nat \ {0}, NEW k \in DOMAIN Profiles!Chunks(n), NEW short \in {0, 1}
    PROVE  LET chunk == Profiles!Chunks(n)[k]
               given == [i \in 1 .. Len(chunk) - short |-> HeightAt(chunk[i])]
           IN \A j \in 1 .. Len(chunk) : Profiles!ReadResults(given, Len(chunk))[j] \in {{}, HeightAt(chunk[j])}
<1> DEFINE chunk == Profiles!Chunks(n)[k]
           given == [i \in 1 .. Len(chunk) - short |-> HeightAt(chunk[i])]
<1>1. Len(chunk) \in Nat \ {0}
  BY ChunkOfSample
<1> HIDE DEF chunk
<1>2. Len(given) = Len(chunk) - short /\ \A j \in 1 .. Len(given) : given[j] = HeightAt(chunk[j])
  BY <1>1
<1>3. \A j \in 1 .. Len(chunk) : j <= Len(given) => j \in 1 .. Len(given)
  BY <1>1, <1>2
<1> HIDE DEF given
<1> QED
  BY <1>2, <1>3 DEF Profiles!ReadResults, chunk, given

LEMMA ProfileKept == ProfileInv /\ [Profiles!ProfileNext]_profileVars => ProfileInv'
<1> SUFFICES ASSUME ProfileInv, [Profiles!ProfileNext]_profileVars PROVE ProfileInv'
  OBVIOUS
<1>1. CASE UNCHANGED profileVars
  BY <1>1 DEF profileVars, ProfileInv, HeightsOf
<1>2. CASE Profiles!TakeChunk
  <2>1. /\ next \in DOMAIN sampled /\ running' = running \union {next} /\ next' = next + 1
        /\ UNCHANGED <<points, sampled, outcome>>
    BY <1>2 DEF Profiles!TakeChunk
  <2>2. \A k \in Nat : k < next + 1 => k = next \/ k < next
    BY DEF ProfileInv
  <2>3. DOMAIN sampled \subseteq Nat
    BY SMTT(30), ChunkOfSample DEF ProfileInv
  <2>4. \A k \in running' : k < next'
    BY <2>1, <2>3 DEF ProfileInv
  <2>5. \A k \in DOMAIN sampled : k < next' /\ k \notin running' => k < next /\ k \notin running
    BY <2>1, <2>2, <2>3
  <2>6. outcome # "done"
    BY <2>1 DEF ProfileInv
  <2>7. next' \in Nat \ {0} /\ running' \subseteq DOMAIN sampled
    BY <2>1 DEF ProfileInv
  <2> QED
    BY <2>1, <2>4, <2>5, <2>6, <2>7 DEF ProfileInv, HeightsOf
<1>3. CASE Profiles!ChunkAnswered
  <2>1. PICK k \in running, short \in {0, 1} :
            /\ running' = running \ {k}
            /\ LET wanted == Profiles!Chunks(points)[k]
                   given == [i \in 1 .. Len(wanted) - short |-> HeightAt(wanted[i])]
               IN sampled' = [sampled EXCEPT ![k] = Profiles!ReadResults(given, Len(wanted))]
            /\ UNCHANGED <<points, next, outcome>>
    BY <1>3 DEF Profiles!ChunkAnswered
  <2> DEFINE chunk == Profiles!Chunks(points)[k]
             read == Profiles!ReadResults([i \in 1 .. Len(chunk) - short |-> HeightAt(chunk[i])], Len(chunk))
  <2>2. sampled' = [sampled EXCEPT ![k] = read] /\ k \in DOMAIN sampled
    BY <2>1 DEF ProfileInv
  <2>3. \A j \in 1 .. Len(chunk) : read[j] \in {{}, HeightAt(chunk[j])}
    BY <2>2, ReplyRead DEF ProfileInv
  <2> HIDE DEF read
  <2>4. DOMAIN sampled' = DOMAIN sampled /\ sampled'[k] = read
        /\ \A c \in DOMAIN sampled : c # k => sampled'[c] = sampled[c]
    BY <2>2
  <2>5. HeightsOf(k)'
    BY <2>1, <2>3, <2>4 DEF HeightsOf
  <2>6. ASSUME outcome' # "failed", NEW c \in DOMAIN sampled, c < next', c \notin running'
        PROVE  HeightsOf(c)'
    <3>1. CASE c = k
      BY <2>5, <3>1
    <3>2. CASE c # k
      <4>1. HeightsOf(c)
        BY <2>1, <2>6, <3>2 DEF ProfileInv
      <4> QED
        BY <2>1, <2>4, <3>2, <4>1 DEF HeightsOf
    <3> QED
      BY <3>1, <3>2
  <2>7. outcome # "done"
    BY <2>1 DEF ProfileInv
  <2> QED
    BY <2>1, <2>4, <2>6, <2>7 DEF ProfileInv
<1>4. CASE Profiles!ChunkFailed
  <2>1. outcome' = "failed" /\ running' \subseteq running /\ UNCHANGED <<points, next, sampled>>
    BY <1>4 DEF Profiles!ChunkFailed
  <2> QED
    BY <2>1 DEF ProfileInv
<1>5. CASE Profiles!ProfileDone
  <2>1. outcome = "asking" /\ running = {} /\ next \notin DOMAIN sampled /\ UNCHANGED <<points, next, running, sampled>>
    BY <1>5 DEF Profiles!ProfileDone
  <2> QED
    BY <2>1 DEF ProfileInv, HeightsOf
<1> QED
  BY <1>1, <1>2, <1>3, <1>4, <1>5 DEF Profiles!ProfileNext

\* When all chunks are there, the value of a sample is the height of its point.
LEMMA SamplesMeasured ==
    ASSUME ProfileInv, outcome = "done", NEW s \in 1 .. Len(Profiles!SampleIndices(points))
    PROVE  Profiles!Flat(points, sampled)[s] \in {{}, HeightAt(Profiles!SampleIndices(points)[s])}
<1> DEFINE all == Profiles!SampleIndices(points)
           chunks == Profiles!Chunks(points)
           k == (s - 1) \div ChunkSize + 1
           j == ((s - 1) % ChunkSize) + 1
<1>1. points \in Nat \ {0}
  BY DEF ProfileInv
<1>2. k \in DOMAIN chunks /\ j \in 1 .. Len(chunks[k]) /\ chunks[k][j] = all[s]
  BY <1>1, ChunkOfSample
<1>3. all \in Seq(1 .. points)
  BY <1>1, SamplesRise
<1>4. Profiles!Flat(points, sampled)[s] = sampled[k][j]
  BY <1>3 DEF Profiles!Flat
<1> HIDE DEF k, j, chunks, all
<1>5. k < next /\ k \notin running
  <2>1. PICK count \in Nat : DOMAIN chunks = 1 .. count
    BY <1>1, ChunkOfSample DEF chunks
  <2>2. next \notin 1 .. count /\ next \in Nat \ {0} /\ running = {}
    BY <2>1 DEF ProfileInv, chunks
  <2> QED
    BY <1>2, <2>1, <2>2
<1>6. HeightsOf(k)
  BY <1>2, <1>5 DEF ProfileInv, chunks
<1>7. sampled[k][j] \in {{}, HeightAt(chunks[k][j])}
  BY <1>2, <1>6 DEF HeightsOf, chunks
<1> QED
  BY <1>2, <1>4, <1>7 DEF all

(* A height that is not marked as interpolated was measured at its point, in     *)
(* whichever order the chunks were answered, however short an answer was and     *)
(* however the samples fell on the track.                                       *)
THEOREM MeasuredHeld == Spec => []MeasuredIsMeasured
<1>1. Init => ProfileInv
  <2> SUFFICES ASSUME Init PROVE ProfileInv
    OBVIOUS
  <2>1. Profiles!ProfileInit
    BY DEF Init
  <2>2. points \in Nat \ {0}
    BY <2>1, ClientAssumption DEF Profiles!ProfileInit
  <2>3. \A k \in DOMAIN sampled : k \in Nat \ {0}
    BY <2>1, <2>2, ChunkOfSample DEF Profiles!ProfileInit
  <2>4. next = 1 /\ running = {} /\ outcome = "asking" /\ DOMAIN sampled = DOMAIN Profiles!Chunks(points)
    BY <2>1 DEF Profiles!ProfileInit
  <2>5. \A k \in DOMAIN sampled : ~(k < next)
    BY <2>3, <2>4
  <2> QED
    BY <2>2, <2>4, <2>5 DEF ProfileInv
<1>2. ProfileInv /\ [Next]_clientVars => ProfileInv'
  BY ProfileKept DEF Next, clientVars
<1>3. ProfileInv => MeasuredIsMeasured
  <2> SUFFICES ASSUME ProfileInv, outcome = "done",
                      NEW i \in 1 .. points, i \notin Profiles!Interpolated(points, Profiles!Flat(points, sampled))
               PROVE  Profiles!Elevations[i] \in {{}, HeightAt(i)}
    BY DEF MeasuredIsMeasured, Profiles!MeasuredIsMeasured
  <2> DEFINE all == Profiles!SampleIndices(points)
             values == Profiles!Flat(points, sampled)
             before == Profiles!Max({s \in DOMAIN all : all[s] <= i})
  <2>1. points \in Nat \ {0}
    BY DEF ProfileInv
  <2>2. before \in 1 .. Len(all) /\ (all[before] # i => i \notin Profiles!Range(all))
    BY <2>1, SampleBefore
  <2>3. values[before] \in {{}, HeightAt(all[before])}
    BY <2>2, SamplesMeasured
  <2>4. all[before] = i => Profiles!Fill(points, values)[i] = values[before]
    BY DEF Profiles!Fill
  <2>5. i \notin Profiles!Range(all) => Profiles!Fill(points, values)[i] = {}
    BY DEF Profiles!Interpolated
  <2> QED
    BY <2>2, <2>3, <2>4, <2>5 DEF Profiles!Elevations
<1> QED
  BY <1>1, <1>2, <1>3, PTL DEF Spec
=============================================================================
