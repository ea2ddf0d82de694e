--------------------------- MODULE RegionManager ---------------------------
(* The region manager: the web's dialog (OfflineRegions.tsx) and the mobile     *)
(* app's browser (RegionBrowser.tsx).  Both walk from a list to an area's       *)
(* details and from there into its parts; the dialog also asks what the         *)
(* routing data of a region that is not there would take.                      *)
(*                                                                             *)
(* How downloads are started, polled and stopped is RegionDownloads's, and how    *)
(* an area is found among packs RegionPlan's; here a start, a stop and what they  *)
(* do to the status and to an area's maps are one step each.  The resource groups *)
(* are one, "maps"; regions are one level below countries.                      *)
EXTENDS Naturals, Sequences, FiniteSets

CONSTANTS
    Catalogue,      \* regions [id, kind, parent, known]; known: it has bounds
    Cells,          \* area -> the grid it is split into, {} when it fits one pack
    City,           \* an area that a city search finds
    Installed,      \* regions whose routing data may be there at first
    MaxWork         \* bound: downloads started and routing jobs of others

VARIABLES
    about,                          \* bound: "list" or "downloads", what is explored
    screen, operator,               \* "web" or "mobile"; may choose routing regions
    open, offline,                  \* the manager is open; the mode it was opened in
    listed, regions, country,       \* the catalogue, and the country it is filtered by
    tab, kind, finding, places,     \* what the list shows
    detail, trail, confirm,         \* the area that is open, those it was reached by, a question
    cached, inUse, job, stored, starting, target, work,     \* downloads and routing data
    estimate, asked                 \* what the routing data would take, and requests for it

listVars == <<listed, regions, country, tab, kind, finding, places>>
wayVars == <<detail, trail, confirm>>
downloadVars == <<cached, inUse, job, stored, starting, target, work>>
estimateVars == <<estimate, asked>>
managerVars == <<about, screen, operator, open, offline, listVars, wayVars, downloadVars, estimateVars>>

NoJob == [region |-> "", state |-> "none"]
NoEstimate == [region |-> "", loading |-> FALSE]
RoutingBusy == job.state = "running"
Downloading == RoutingBusy \/ \E a \in DOMAIN stored : stored[a] = "running"
Preparing == starting # {}

(* A region that the catalogue lacks is known by the name of its routing data.   *)
Merged ==
    regions \union {[id |-> c, kind |-> "region", parent |-> "", known |-> FALSE] :
                       c \in cached \ {r.id : r \in regions}}

AreaForRegion(r) == IF r.known THEN {[id |-> r.id, region |-> r.id]} ELSE {}
DetailOf(r) == [area |-> AreaForRegion(r), record |-> {r}]
JustArea(id, region) == [area |-> {[id |-> id, region |-> region]}, record |-> {}]

\* The area is taken from its record again, which may have become known.
DetailArea(d) ==
    LET rebuilt == UNION {AreaForRegion(r) : r \in d.record}
    IN IF rebuilt # {} THEN rebuilt ELSE d.area

(* A region's parts are the regions of the catalogue in it, else a grid.         *)
SubAreas(d) ==
    LET children == {r \in Merged : r.known /\ \E p \in d.record : r.parent = p.id}
    IN IF children # {} THEN {DetailOf(r) : r \in children}
       ELSE UNION {{JustArea(c, a.region) : c \in Cells[a.id]} : a \in DetailArea(d)}

RegionIds(d) == {a.region : a \in d.area} \ {""}
DetailRegion(d) ==
    IF RegionIds(d) # {} THEN CHOOSE id \in RegionIds(d) : TRUE
    ELSE IF d.record # {} THEN (CHOOSE r \in d.record : TRUE).id ELSE ""

\* Also the region that a download of this area was resolved to.
ShownRegion(d) ==
    IF DetailRegion(d) = "" /\ \E a \in d.area : a.id = target.area THEN target.region ELSE DetailRegion(d)

RegionRunning(d) == ShownRegion(d) # "" /\ job = [region |-> ShownRegion(d), state |-> "running"]
RoutingThere(d) == ShownRegion(d) \in cached
OtherRegionPreparing(d) == RoutingBusy /\ ~RegionRunning(d)

Maps(d) == UNION {{stored[a.id]} : a \in DetailArea(d)}
Missing(d) ==
    (IF RoutingThere(d) \/ RegionRunning(d) \/ (screen = "web" /\ ~operator) THEN {} ELSE {"routing"})
        \union IF Maps(d) \intersect {"done", "running"} = {} THEN {"maps"} ELSE {}

-----------------------------------------------------------------------------
(* The estimate: an effect on the region, on whether it is there, and on a job.  *)
(* Of the requests that were aborted the last is watched.                        *)
Needed ==
    /\ screen = "web" /\ open /\ detail # <<>> /\ ~RoutingBusy
    /\ DetailRegion(Head(detail)) \notin cached \union {""}

Wanted == IF Needed THEN DetailRegion(Head(detail)) ELSE ""

EstimateEffect ==
    IF Wanted' = Wanted THEN UNCHANGED estimateVars
    ELSE /\ estimate' = IF Wanted' = "" THEN NoEstimate ELSE [region |-> Wanted', loading |-> TRUE]
         /\ asked' = {[region |-> q.region, aborted |-> TRUE] : q \in {r \in asked : ~r.aborted}}
                     \union IF Wanted' = "" THEN {} ELSE {[region |-> Wanted', aborted |-> FALSE]}

\* Mutant: an estimate is shown whoever asked for it.
EstimateKeptAnyway(q) == /\ asked' = asked \ {q} /\ estimate' = [region |-> q.region, loading |-> FALSE]
                         /\ UNCHANGED <<about, screen, operator, open, offline, listVars, wayVars, downloadVars>>

EstimateAnswered(q) ==
    /\ asked' = asked \ {q}
    /\ IF q.aborted THEN UNCHANGED estimate ELSE estimate' = [region |-> q.region, loading |-> FALSE]
    /\ UNCHANGED <<about, screen, operator, open, offline, listVars, wayVars, downloadVars>>

-----------------------------------------------------------------------------
(* The list                                                                     *)
Opened == /\ listed' = "loading" /\ regions' = {} /\ country' = ""
          /\ tab' = IF screen = "web" /\ (Downloading \/ cached # {} \/ \E a \in DOMAIN stored : stored[a] # "none")
                    THEN "downloads" ELSE "browse"
          /\ kind' = "regions" /\ finding' = FALSE /\ places' = FALSE
          /\ detail' = <<>> /\ trail' = <<>> /\ confirm' = ""

OpenManager == /\ ~open /\ open' = TRUE /\ offline' \in BOOLEAN /\ Opened
               /\ UNCHANGED <<about, screen, operator, downloadVars>> /\ EstimateEffect

\* Leaving forgets where one was, and drops what is still asked for.
Left == open' = FALSE /\ Opened /\ UNCHANGED <<about, screen, operator, offline, downloadVars>> /\ EstimateEffect

Countries(set) == {r.id : r \in {s \in set : s.kind = "country"}}

(* The filter starts at the country of the region in use; the app looks at the   *)
(* status it had when the browser was opened.                                  *)
CatalogueListed ==
    /\ open /\ listed = "loading" /\ listed' = "listed"
    /\ regions' \in {Catalogue, {r \in Catalogue : r.id \in cached}}
    /\ LET own == {r.parent : r \in {s \in regions' : s.id = inUse}} \intersect Countries(regions')
       IN IF own # {} THEN country' \in own \union (IF screen = "mobile" THEN {""} ELSE {})
          ELSE UNCHANGED country
    /\ UNCHANGED <<about, screen, operator, open, offline, tab, kind, finding, places, wayVars, downloadVars>>
    /\ EstimateEffect

CatalogueRefused == /\ open /\ listed = "loading" /\ listed' = "refused"
                    /\ UNCHANGED <<about, screen, operator, open, offline, regions, country, tab, kind, finding, places,
                                   wayVars, downloadVars, estimateVars>>

AtList == open /\ detail = <<>>
Browsing == AtList /\ tab = "browse"
StaysAtList == UNCHANGED <<about, screen, operator, open, offline, listed, regions, wayVars, downloadVars, estimateVars>>

ShowTab == /\ AtList /\ screen = "web" /\ tab' \in {"downloads", "browse"}
           /\ UNCHANGED <<country, kind, finding, places>> /\ StaysAtList

\* What the filter and the search were about is gone; a search goes on.
ShowKind == /\ about = "list" /\ Browsing /\ kind' \in {"cities", "regions", "countries"}
            /\ places' = FALSE
            /\ UNCHANGED <<country, tab, finding>> /\ StaysAtList

Filter == /\ about = "list" /\ Browsing /\ StaysAtList /\ UNCHANGED <<tab, kind, finding, places>>
          /\ kind = "regions" /\ country' \in Countries(Merged) \union {""}

FindCities == /\ about = "list" /\ Browsing /\ kind = "cities" /\ ~finding /\ finding' = TRUE
              /\ UNCHANGED <<country, tab, kind, places>> /\ StaysAtList

\* The answer is shown wherever the user has gone since.
CitiesFound == /\ open /\ finding /\ finding' = FALSE /\ places' \in {places, TRUE}
               /\ UNCHANGED <<country, tab, kind>> /\ StaysAtList

-----------------------------------------------------------------------------
(* The way to an area and back                                                  *)
(* The dialog remembers every area; the browser only regions, so that a part of  *)
(* anything else leads back to the list.                                       *)
OpenDetail(d) ==
    /\ detail' = <<d>>
    /\ IF detail # <<>> /\ (screen = "web" \/ Head(detail).record # {})
       THEN trail' = Append(trail, Head(detail)) ELSE UNCHANGED trail
    /\ UNCHANGED confirm

Downloaded(r) == r.id \in cached
StartAllowed == ~Preparing /\ ~offline

\* The country that is filtered by is offered itself when it has no regions.
Unsplit(r) == /\ listed # "loading" /\ kind = "regions" /\ country = r.id
              /\ \A s \in Merged : s.parent # r.id

(* A row opens its region; its button also downloads one that is not there.       *)
(* What is typed leaves out rows, and in the dialog looks past the country.       *)
Rows ==
    IF tab = "downloads" THEN {r \in Merged : Downloaded(r)}
    ELSE {r \in Merged : \/ screen = "mobile" /\ Downloaded(r)
                         \/ kind = "regions" /\ r.kind = "region"
                               /\ (country = "" \/ r.parent = country \/ screen = "web")
                         \/ kind = "countries" /\ r.kind = "country"
                         \/ Unsplit(r)}

ChooseRegion(r) == /\ AtList /\ r \in Rows /\ OpenDetail(DetailOf(r))
                   /\ UNCHANGED <<about, screen, operator, open, offline, listVars, downloadVars>> /\ EstimateEffect

(* What a start asks for: it resolves the region, and shows itself as the target. *)
Starts(d, resources) ==
    /\ work < MaxWork /\ work' = work + 1
    /\ starting' = {[detail |-> d, resources |-> resources]}
    /\ target' = [area |-> "", region |-> ""]
    /\ UNCHANGED <<cached, inUse, job, stored>>

DownloadRegion(r) ==
    /\ AtList /\ r \in Rows /\ ~Downloaded(r) /\ StartAllowed /\ ~Downloading /\ r.known
    /\ OpenDetail(DetailOf(r)) /\ Starts(DetailOf(r), {"routing", "maps"})
    /\ UNCHANGED <<about, screen, operator, open, offline, listVars>> /\ EstimateEffect

ChooseCity == /\ Browsing /\ kind = "cities" /\ places /\ OpenDetail(JustArea(City, ""))
              /\ UNCHANGED <<about, screen, operator, open, offline, listVars, downloadVars>> /\ EstimateEffect

(* A stored area is a pack's extent; the rest of an unfinished one is resumed.    *)
OpenStored(a) ==
    /\ AtList /\ (screen = "web" => tab = "downloads") /\ stored[a] \in {"done", "stopped"}
    /\ OpenDetail(JustArea(a, "")) /\ UNCHANGED <<about, screen, operator, open, offline, listVars>>
    /\ \/ UNCHANGED downloadVars
       \/ /\ screen = "web" /\ stored[a] = "stopped" /\ StartAllowed /\ ~Downloading
          /\ Starts(JustArea(a, ""), {"maps"})
    /\ EstimateEffect

\* The parts of an area, or of the country that the list offers.
Parts == IF detail # <<>> THEN SubAreas(Head(detail))
         ELSE UNION {SubAreas(DetailOf(r)) : r \in {u \in Merged : Unsplit(u)}}

OpenPart(d) == /\ open /\ (detail = <<>> => Browsing) /\ OpenDetail(d)
               /\ UNCHANGED <<about, screen, operator, open, offline, listVars, downloadVars>> /\ EstimateEffect

(* A question first, also one that is not on the screen any more; then the way   *)
(* back, and at last the manager is left.                                      *)
Back ==
    /\ open
    /\ IF confirm = "" /\ detail = <<>> THEN Left
       ELSE /\ IF confirm # "" THEN confirm' = "" /\ UNCHANGED <<detail, trail>>
               ELSE /\ detail' = IF trail = <<>> THEN <<>> ELSE <<trail[Len(trail)]>>
                    /\ trail' = IF trail = <<>> THEN <<>> ELSE SubSeq(trail, 1, Len(trail) - 1)
                    /\ UNCHANGED confirm
            /\ UNCHANGED <<about, screen, operator, open, offline, listVars, downloadVars>> /\ EstimateEffect

Close == open /\ screen = "web" /\ Left

AskRemove(a) ==
    /\ AtList /\ screen = "web" /\ tab = "downloads" /\ stored[a] \in {"done", "stopped"}
    /\ \/ confirm # a /\ confirm' = a /\ UNCHANGED stored
       \/ confirm = a /\ confirm' = "" /\ (UNCHANGED stored \/ stored' = [stored EXCEPT ![a] = "none"])
    /\ UNCHANGED <<about, screen, operator, open, offline, listVars, detail, trail, cached, inUse, job, starting, target, work, estimateVars>>

-----------------------------------------------------------------------------
(* What an area's details offer                                                 *)
OfferRouting(d) ==
    /\ ~RoutingThere(d) /\ ~RegionRunning(d) /\ DetailArea(d) # {} /\ StartAllowed
    /\ IF screen = "web" THEN operator /\ ~OtherRegionPreparing(d) ELSE ~RoutingBusy

OfferMaps(d) == "maps" \in Missing(d) /\ DetailArea(d) # {} /\ StartAllowed

OfferRest(d) ==
    /\ Missing(d) # {} /\ DetailArea(d) # {} /\ StartAllowed
    /\ IF screen = "web" THEN "routing" \in Missing(d) => ~OtherRegionPreparing(d) ELSE ~Downloading /\ d.area # {}

OfferUse(d) ==
    /\ RoutingThere(d) /\ ShownRegion(d) # inUse /\ ~Preparing
    /\ IF screen = "web" THEN operator /\ ~RoutingBusy ELSE ~Downloading

Download(d) ==
    /\ \/ OfferRouting(d) /\ Starts(d, {"routing"})
       \/ OfferMaps(d) /\ Starts(d, {"maps"})
       \/ OfferRest(d) /\ Starts(d, Missing(d))
    /\ UNCHANGED <<about, screen, operator, open, offline, listVars, wayVars, estimateVars>>

UseRegion(d) == /\ OfferUse(d) /\ work < MaxWork /\ work' = work + 1
                /\ job' = [region |-> ShownRegion(d), state |-> "running"]
                /\ UNCHANGED <<about, screen, operator, open, offline, listVars, wayVars, cached, inUse, stored, starting, target>>
                /\ EstimateEffect

\* Everything, one's routing or one of the downloads; the last is in the list only.
StopDownloads ==
    /\ open /\ Downloading
    /\ IF screen = "web" THEN detail # <<>> \/ tab = "downloads" ELSE detail # <<>> /\ ~Preparing
    /\ \/ /\ job' = IF RoutingBusy /\ operator THEN NoJob ELSE job
          /\ stored' = [a \in DOMAIN stored |-> IF stored[a] = "running" THEN "stopped" ELSE stored[a]]
       \/ /\ screen = "web" /\ operator /\ RoutingBusy /\ job' = NoJob /\ UNCHANGED stored
          /\ detail # <<>> => RegionRunning(Head(detail))
       \/ /\ screen = "web" /\ detail = <<>> /\ UNCHANGED job
          /\ \E a \in DOMAIN stored : stored[a] = "running" /\ stored' = [stored EXCEPT ![a] = "stopped"]
    /\ UNCHANGED <<about, screen, operator, open, offline, listVars, wayVars, cached, inUse, starting, target, work>>
    /\ EstimateEffect

-----------------------------------------------------------------------------
(* The downloads go on                                                          *)
Ends == UNCHANGED <<about, screen, operator, open, offline, listVars, wayVars>> /\ EstimateEffect

(* A start that names no region has the server find one; it is refused while     *)
(* another region prepares.  Not the operator's start goes on without routing.   *)
Started == \E s \in starting :
    /\ starting' = {}
    /\ \E a \in DetailArea(s.detail), region \in {r.id : r \in Catalogue} :
           /\ a.region # "" => region = a.region
           /\ LET routes == "routing" \in s.resources /\ operator
                  refused == routes /\ RoutingBusy /\ job.region # region
              IN /\ job' = IF routes /\ ~RoutingBusy THEN [region |-> region, state |-> "running"] ELSE job
                 /\ stored' = IF refused \/ "maps" \notin s.resources THEN stored ELSE [stored EXCEPT ![a.id] = "running"]
                 /\ target' = [area |-> a.id, region |-> IF routes THEN region ELSE a.region]
    /\ UNCHANGED <<cached, inUse, work>> /\ Ends

StartRefused == Preparing /\ starting' = {} /\ UNCHANGED <<cached, inUse, job, stored, target, work>> /\ Ends

RoutingEnds ==
    /\ RoutingBusy
    /\ \/ /\ job' = [job EXCEPT !.state = "complete"] /\ cached' = cached \union {job.region} /\ inUse' = job.region
       \/ job' = [job EXCEPT !.state = "failed"] /\ UNCHANGED <<cached, inUse>>
    /\ UNCHANGED <<stored, starting, target, work>> /\ Ends

\* The operator is at work on another page.
OthersPrepare == /\ ~RoutingBusy /\ work < MaxWork /\ work' = work + 1
                 /\ \E r \in Catalogue : job' = [region |-> r.id, state |-> "running"]
                 /\ UNCHANGED <<cached, inUse, stored, starting, target>> /\ Ends

MapsEnd(a) == /\ stored[a] = "running" /\ \E end \in {"done", "stopped"} : stored' = [stored EXCEPT ![a] = end]
              /\ UNCHANGED <<cached, inUse, job, starting, target, work>> /\ Ends

-----------------------------------------------------------------------------

ManagerInit ==
    /\ about \in {"list", "downloads"}
    /\ screen \in {"web", "mobile"} /\ operator \in {TRUE, screen = "mobile"}
    /\ open = FALSE /\ offline = FALSE /\ listed = "loading" /\ regions = {} /\ country = ""
    /\ tab = "browse" /\ kind = "regions" /\ finding = FALSE /\ places = FALSE
    /\ detail = <<>> /\ trail = <<>> /\ confirm = ""
    /\ \E used \in BOOLEAN :
           /\ cached = IF used THEN Installed ELSE {}
           /\ inUse = IF used THEN CHOOSE r \in Installed : TRUE ELSE ""
           /\ stored = [a \in DOMAIN Cells |-> IF used /\ a = City THEN "stopped" ELSE "none"]
    /\ job = NoJob
    /\ starting = {} /\ target = [area |-> "", region |-> ""] /\ work = IF about = "list" THEN MaxWork ELSE 0
    /\ estimate = NoEstimate /\ asked = {}

ManagerNext ==
    \/ OpenManager \/ Close \/ Back
    \/ CatalogueListed \/ CatalogueRefused \/ ShowTab \/ ShowKind \/ Filter \/ FindCities \/ CitiesFound \/ ChooseCity
    \/ \E r \in Merged : ChooseRegion(r) \/ DownloadRegion(r)
    \/ \E a \in DOMAIN stored : OpenStored(a) \/ AskRemove(a) \/ MapsEnd(a)
    \/ \E d \in Parts : OpenPart(d)
    \/ open /\ detail # <<>> /\ (Download(Head(detail)) \/ UseRegion(Head(detail)))
    \/ StopDownloads \/ Started \/ StartRefused \/ RoutingEnds \/ OthersPrepare
    \/ \E q \in asked : EstimateAnswered(q)

ManagerSpec == ManagerInit /\ [][ManagerNext]_managerVars

-----------------------------------------------------------------------------
(* The estimate in hand is that of the region on the screen, and while it is     *)
(* said to come a request is under way that will be heard.                      *)
EstimateFits ==
    /\ estimate.region = Wanted
    /\ estimate.loading <=> \E q \in asked : ~q.aborted
    /\ \A q \in asked : ~q.aborted => q.region = Wanted
=============================================================================
