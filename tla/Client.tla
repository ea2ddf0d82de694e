------------------------------- MODULE Client -------------------------------
(***************************************************************************)
(* The client side: the parts of the page and of the mobile app that keep  *)
(* a state, and the library, whose functions are asked one question.  The  *)
(* parts share no state, so one of them, the `part` of a behaviour, moves  *)
(* while the others stay as they began.                                    *)
(***************************************************************************)
EXTENDS Library

CONSTANTS
    Labels, BandCount, Callers, Keys,                                                                   \* Fuel
    World, GridStep, Pole, ResultLimit, MaxAreas, SmallestRadius, LargestRadius, Centres, Radii,        \* AreaSearch
    MaxHeights, ChunkSize, Concurrency, Lengths, HeightAt(_),                                           \* ElevationProfile
    Queries, PlaceSearches, Interval, MaxCached, LastTime,                                              \* PlaceSearch
    MaxEdits, MaxRuns, MaxAsked, Generations, MaxUploads,                                               \* RoutePlanner
    MaxSearches, AroundSpots, Kinds, MaxMoves, MaxAround,                                               \* PlannerSearch
    Geometries, Lines, MaxMatches,                                                                      \* TrackAnnotation
    MaxMessages, Retained, Issues, Priorities, Hooks, MaxOpenings, CursorSpots, MaxSettles,             \* PageShell
    Files, Shared, HistoryLimit, MaxRevs, MaxTasks,                                                     \* MobileEditor
    MaxChanges, MaxRestarts, MaxKeys, MaxPoints,                                                        \* MobileRide
    Catalogue, Cells, City, Installed, MaxWork                                                          \* RegionManager

\* What is absent is none of the things it could be, and the text of a complaint
\* stands for the whole of it.
ASSUME ClientAssumption ==
    /\ "none" \notin AroundSpots \union Shared
    /\ \A i, j \in Issues : i.text # "none" /\ (i.text = j.text => i.expected = j.expected)
    /\ Concurrency \in Nat /\ Interval \in Nat
    /\ {GridStep, MaxHeights, ChunkSize} \union Lengths \subseteq Nat \ {0} /\ MaxAreas \in Nat
    /\ Radii \union {Pole, Half, ResultLimit, SmallestRadius, LargestRadius} \subseteq Int
    /\ IsFiniteSet(World) /\ \A p \in World : p.lat \in -Pole .. Pole /\ p.lon \in -Half .. Half
    /\ \A c \in Centres : c.lat \in LargestRadius - Pole .. Pole - LargestRadius /\ c.lon \in -Half .. Half

VARIABLES
    part,
    cached, inflight, caller,                               \* Fuel
    areas, answer,                                          \* AreaSearch
    points, next, running, sampled, outcome,                \* ElevationProfile
    now, nextStart, queue, search, stored, starts,          \* PlaceSearch
    controls, profile, session, routing, planning, uploading, uploads, saving,
    routeSeq, debounce, asked, route, routeError, routedLoading,    \* RoutePlanner
    task, placeSeq, finding, found, searching, around, looking, lookups,
    layers, kindQueue, errors, poiLoading, position, heightOf, measuring,   \* PlannerSearch
    server, polling, graph, fast, geometry, enabled, match, requests, sent, \* TrackAnnotation
    concern, told, toasts, recent, staleTold, mode, modeRef, switching, issue, issueTold,
    disabled, bar, timer, settles, polls, posted,
    entries, openings, intro, cursor, elevation, lookup,                    \* PageShell
    library, doc, history, choices, dialog, tasks, busy, revs,
    inbox, pending, reading, acking, polled, inboxError, handled, arrived, imported, \* MobileEditor
    rideConcern, content, changes, hydrated, canPersist, draftSaved, draftTimer, line, draftFile, restarts, failed,
    ridePlan, rideRouting, routeState, rideAsked, tab, active, panels, doing,       \* MobileRide
    exploring, screen, operator, managerOpen, openedOffline, listed, regions, country, managerTab, areaKind,
    cityFinding, cities, managerDetail, trail, confirm, installed, inUse, job, storedMaps, starting,
    target, work, estimate, estimateAsked                   \* RegionManager

-----------------------------------------------------------------------------
Prices == INSTANCE Fuel

Areas == INSTANCE AreaSearch

Profiles == INSTANCE ElevationProfile WITH MaxLookups <- MaxHeights

Nominatim == INSTANCE PlaceSearch WITH Searches <- PlaceSearches

Planner == INSTANCE RoutePlanner WITH points <- controls, timer <- debounce

Searches == INSTANCE PlannerSearch WITH Spots <- AroundSpots, queue <- kindQueue

Annotations == INSTANCE TrackAnnotation WITH MaxLookups <- MaxMatches, lookup <- match

Shell == INSTANCE PageShell WITH Spots <- CursorSpots

Mobile == INSTANCE MobileEditor

Ride == INSTANCE MobileRide WITH
    concern <- rideConcern, timer <- draftTimer, stored <- draftFile,
    plan <- ridePlan, routing <- rideRouting, asked <- rideAsked

Regions == INSTANCE RegionManager WITH
    about <- exploring, open <- managerOpen, offline <- openedOffline, tab <- managerTab, kind <- areaKind,
    finding <- cityFinding, places <- cities, detail <- managerDetail, cached <- installed,
    stored <- storedMaps, asked <- estimateAsked

-----------------------------------------------------------------------------
fuelVars == <<cached, inflight, caller>>
areaVars == <<areas, answer>>
profileVars == <<points, next, running, sampled, outcome>>
placeVars == <<now, nextStart, queue, search, stored, starts>>
plannerVars == <<controls, profile, session, routing, planning, uploading, uploads, saving,
                 routeSeq, debounce, asked, route, routeError, routedLoading>>
searchVars == <<task, placeSeq, finding, found, searching, around, looking, lookups,
                layers, kindQueue, errors, poiLoading, position, heightOf, measuring>>
annotationVars == <<server, polling, graph, fast, geometry, enabled, match, requests, sent>>
shellVars == <<concern, told, toasts, recent, staleTold, mode, modeRef, switching, issue, issueTold,
               disabled, bar, timer, settles, polls, posted, entries, openings, intro, cursor, elevation, lookup>>
mobileVars == <<library, doc, history, choices, dialog, tasks, busy, revs,
                inbox, pending, reading, acking, polled, inboxError, handled, arrived, imported>>
rideVars == <<rideConcern, content, changes, hydrated, canPersist, draftSaved, draftTimer, line, draftFile, restarts, failed,
              ridePlan, rideRouting, routeState, rideAsked, tab, active, panels, doing>>
regionVars == <<exploring, screen, operator, managerOpen, openedOffline, listed, regions, country, managerTab, areaKind,
                cityFinding, cities, managerDetail, trail, confirm, installed, inUse, job, storedMaps, starting,
                target, work, estimate, estimateAsked>>
clientVars == <<part, libraryVars, fuelVars, areaVars, profileVars, placeVars, plannerVars, searchVars,
                annotationVars, shellVars, mobileVars, rideVars, regionVars>>

AnyQuestion == CHOOSE q \in Questions : TRUE

\* The choices a part begins with are made when it is the one that moves.
Init ==
    /\ part \in {"library", "fuel", "areas", "profile", "places", "planner", "searches", "annotation",
                 "shell", "mobile", "ride", "regions"}
    /\ LibraryInit /\ (part # "library" => question = AnyQuestion)
    /\ Prices!FuelInit /\ Areas!AreaInit /\ Nominatim!PlaceInit /\ Planner!PlannerInit
    /\ Profiles!ProfileInit /\ (part # "profile" => points = CHOOSE n \in Lengths : TRUE)
    /\ Searches!SearchInit /\ (part # "searches" => task = "place")
    /\ Annotations!AnnotationInit /\ Shell!ShellInit /\ (part # "shell" => concern = "mode")
    /\ Mobile!MobileInit
    /\ Ride!RideInit /\ (part # "ride" => rideConcern = "draft")
    /\ Regions!ManagerInit
    /\ part # "regions" => exploring = "list" /\ screen = "web" /\ operator /\ installed = {}

Next ==
    /\ UNCHANGED part
    /\ IF part = "library" THEN LibraryNext ELSE UNCHANGED libraryVars
    /\ IF part = "fuel" THEN Prices!FuelNext ELSE UNCHANGED fuelVars
    /\ IF part = "areas" THEN Areas!AreaNext ELSE UNCHANGED areaVars
    /\ IF part = "profile" THEN Profiles!ProfileNext ELSE UNCHANGED profileVars
    /\ IF part = "places" THEN Nominatim!PlaceNext ELSE UNCHANGED placeVars
    /\ IF part = "planner" THEN Planner!PlannerNext ELSE UNCHANGED plannerVars
    /\ IF part = "searches" THEN Searches!SearchNext ELSE UNCHANGED searchVars
    /\ IF part = "annotation" THEN Annotations!AnnotationNext ELSE UNCHANGED annotationVars
    /\ IF part = "shell" THEN Shell!ShellNext ELSE UNCHANGED shellVars
    /\ IF part = "mobile" THEN Mobile!MobileNext ELSE UNCHANGED mobileVars
    /\ IF part = "ride" THEN Ride!RideNext ELSE UNCHANGED rideVars
    /\ IF part = "regions" THEN Regions!ManagerNext ELSE UNCHANGED regionVars

Spec == Init /\ [][Next]_clientVars

-----------------------------------------------------------------------------
(* What the parts with a state promise *)

(* Around a point: an answer that is not marked as cut short has every place in  *)
(* its circle, up to the date line where the box ends, also when it came from an *)
(* area that was searched before; and no answer has a place outside its circle   *)
(* (AroundAreaCache, aroundSearchArea and searchAround of around.ts).           *)
AnswerComplete == part = "areas" => Areas!AnswerComplete

(* A height that is not marked as interpolated was measured at its point, in     *)
(* whichever order the chunks are answered (elevation.ts).                      *)
MeasuredIsMeasured == part = "profile" => Profiles!MeasuredIsMeasured

(* The services are spared: Nominatim is asked one search at a time and no     *)
(* faster than its interval, whatever is searched, aborted and answered          *)
(* meanwhile, and the elevation service has at most as many chunks of a profile  *)
(* in hand as there are workers (geocoding.ts, elevation.ts).                    *)
ServicesSpared ==
    /\ part = "places" => Nominatim!RateKept
    /\ part = "profile" => Profiles!PoolBounded

(* "Only the newest request may write state; a slow earlier response must never  *)
(* overwrite a newer route" (App.tsx): the route that is shown was computed for  *)
(* the points, the profile and the routing data that are shown with it.         *)
RouteIsCurrent == part = "planner" => Planner!RouteIsCurrent

(* The place list and the panel around a point show the answer to the latest     *)
(* search, and say that they are searching exactly while it is under way        *)
(* (searchPlace and searchAroundWaypoint of App.tsx).                           *)
ShowsLatest == part = "searches" => Searches!ShowsLatest

(* The ride check shows what was matched for the track on the screen and the     *)
(* generation the page has read, and one that says it is matching a track of two *)
(* points or more has a request that will be heard (useTrackAnnotation of        *)
(* RideCheck.tsx).                                                              *)
AnnotationFits == part = "annotation" => Annotations!AnnotationFits

(* Once the switch to cache-only is over, no complaint of a map tile that is not *)
(* cached stands, also none of before (handleVectorStatus of App.tsx).          *)
OfflineIsQuiet == part = "shell" => Shell!OfflineIsQuiet

(* A file that another app shared is opened once in a session of the app,        *)
(* however often its acknowledgement is lost, repeated or overtaken by a poll;   *)
(* a reload forgets what was handled (useIncomingGPX.ts).                       *)
SharedOnce == part = "mobile" => Mobile!SharedOnce

(* A shared file never replaces unsaved edits, nor a question, a choice or a     *)
(* task, unless the user said so.                                               *)
SharedWaits == Mobile!SharedWaits

(* The mobile app's draft: once nothing is left to write and the last write was  *)
(* not refused, the file that brings the ride back has what is on the screen,    *)
(* and no late write takes it back (the effects of App.tsx's draft).             *)
DraftKept == part = "ride" => Ride!DraftKept

(* The region manager estimates the routing data of the region on the screen     *)
(* when it is not there and nothing is prepared, and of no other: an answer for  *)
(* a region one has left is not shown, and while it is said to come a request is *)
(* under way that will be heard (the routing plan of OfflineRegions.tsx).        *)
EstimateFits == part = "regions" => Regions!EstimateFits
=============================================================================
