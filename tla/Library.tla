------------------------------- MODULE Library -------------------------------
(***************************************************************************)
(* The library of the page: functions without a state, which are asked one *)
(* question.  The modules they are in are instances of this one, and what  *)
(* they answer is what is promised.                                        *)
(***************************************************************************)
EXTENDS Integers, Sequences, FiniteSets

CONSTANTS
    Questions,                                                        \* what is asked
    Half, MinZoom, MaxZoom, TerrainZoom, PartMapTiles, PartTerrainTiles, MaxGridParts, SplitDepth, MaxNesting, \* RegionPlan
    Services, Rasters, AbsoluteUrls, Unit, PathHighways,              \* Replies
    MinRange, MaxRange, DefaultRange, MaxReserve, DefaultReserve,     \* TrackReport
    CoordUnit, HeightUnit,                                            \* GpxFile
    WaypointCorridor, WidestTolerance,                                \* TrackEdit
    Tile, CardWidth, CardHeight, Padding, MaxTileZoom                 \* TrackView

VARIABLES question, reply

-----------------------------------------------------------------------------
Plans == INSTANCE RegionPlan

Backend == INSTANCE Replies WITH
    Latitude <- 90, Longitude <- 180, MostPoints <- 4

Gpx == INSTANCE GpxFile WITH
    SymbolOf <- [fuel |-> "Gas Station", camp |-> "Campground"],
    Aliases <- [fuel |-> {"gas station", "fuel"}, camp |-> {"campground"}]

Edits == INSTANCE TrackEdit

Screen == INSTANCE TrackView WITH
    SlopeWindow <- 2, Bands <- 3, MinBar <- 1, MaxBars <- 4, Noticeable <- 1, OnRoute <- 1, NearRoute <- 3,
    ListLimit <- 2, MostPoints <- 4

-----------------------------------------------------------------------------
(* What the library's functions may be asked about.                            *)
Points == [lat : Int, lon : Int, ele : SUBSET Int, time : SUBSET STRING]

Waypoints == [lat : Int, lon : Int, ele : SUBSET Int]

RoadTags == [highway : STRING, motorcycle : STRING, motor_vehicle : STRING, vehicle : STRING, access : STRING]

AreaQuestion(q) == q.area \in Plans!Areas /\ q.limit \in Int

PackQuestion(q) == q.area \in Plans!Areas /\ \A p \in q.packs : p.bbox \in Plans!Boxes

\* Stops in the order of the track; a setting is missing or a number.
FuelQuestion(q) ==
    /\ q.total \in Nat /\ q.stops \in Seq([km : Nat])
    /\ \A i, j \in DOMAIN q.stops : q.stops[i].km <= q.total /\ (i <= j => q.stops[i].km <= q.stops[j].km)
    /\ q.input \in [range : SUBSET Int, reserve : SUBSET Int]
    /\ \A r \in q.input.range : q.input.range = {r}
    /\ \A r \in q.input.reserve : q.input.reserve = {r}

\* The way to every point, and spans one after the other along them.
RoadQuestion(q) ==
    /\ q.way \in Seq(Nat) /\ q.way # <<>> /\ \A i, j \in DOMAIN q.way : i <= j => q.way[i] <= q.way[j]
    /\ q.spans \in Seq([from : Nat, to : Nat, road : SUBSET RoadTags])
    /\ \A k \in DOMAIN q.spans : q.spans[k].from <= q.spans[k].to
    /\ \A k \in 2 .. Len(q.spans) : q.spans[k - 1].to <= q.spans[k].from

\* A track of two points and more, with the elevations of its points.
EditQuestion(q) ==
    /\ q.track \in [coordinates : Seq(Points), elevations : Seq(SUBSET Int), waypoints : SUBSET [lat : Int, lon : Int]]
    /\ Edits!Aligned(q.track) /\ Len(q.track.coordinates) >= 2
    /\ q.at \in Int /\ q.stage \in Int /\ {q.half, q.tolerance} \subseteq Nat

GpxQuestion(q) ==
    /\ q.track \in [name : SUBSET STRING, time : SUBSET STRING, coordinates : Seq(Points), waypoints : Seq(Waypoints)]
    /\ q.track.coordinates # <<>> /\ q.now \in STRING

LineQuestion(q) == q.colors \in Seq(STRING)

\* There is no picture of a track of fewer points.
CardQuestion(q) == q.points \in Seq([x : Int, y : Int]) /\ Len(q.points) >= 2

ASSUME LibraryAssumption ==
    /\ {Half, PartMapTiles, PartTerrainTiles, MaxGridParts} \subseteq Nat \ {0} /\ {SplitDepth, MaxNesting} \subseteq Nat
    /\ MaxZoom \in Nat /\ {MinZoom, TerrainZoom} \subseteq 0 .. MaxZoom
    /\ {Unit, CoordUnit, HeightUnit, Tile} \subseteq Nat \ {0} /\ {CardWidth, CardHeight, Padding, MaxTileZoom} \subseteq Nat
    /\ {MinRange, MaxRange, DefaultRange} \subseteq Nat /\ {MaxReserve, DefaultReserve} \subseteq 0 .. 100
    /\ \A q \in Questions :
           /\ q.about = "area" => AreaQuestion(q)
           /\ q.about = "packs" => PackQuestion(q)
           /\ q.about = "fuel" => FuelQuestion(q)
           /\ q.about = "roads" => RoadQuestion(q)
           /\ q.about = "edit" => EditQuestion(q)
           /\ q.about = "gpx" => GpxQuestion(q)
           /\ q.about = "line" => LineQuestion(q)
           /\ q.about = "card" => CardQuestion(q)

-----------------------------------------------------------------------------
(* A question to the library; the answer, once there is one, is the only        *)
(* element of reply.                                                            *)
libraryVars == <<question, reply>>

LibraryInit == question \in Questions /\ reply = <<>>

\* What the page is served as, and what it makes of the server's configuration.
ConfigReply(q) ==
    LET first == Backend!BootstrapRuntimeConfig(q.base, q.embedded)
    IN [first |-> first, loaded |-> Backend!LoadRuntimeConfig(q.reply, q.base, {first})]

AreaReply(q) ==
    [parts |-> Plans!DownloadParts(q.area), plans |-> Plans!StartPlans(q.area, q.limit)]

EditReply(q) ==
    [reversed |-> Edits!ReverseTrack(q.track), parts |-> Edits!SplitTrack(q.track, q.at),
     stages |-> Edits!SplitIntoStages(q.track, q.stage), smooth |-> Edits!SmoothTrackElevation(q.track, q.half),
     kept |-> Edits!Kept(q.track.coordinates, q.tolerance)]

\* A track is written and read again, and what was read once more.
GpxReply(q) ==
    LET Read(track, guessed) == Gpx!The(Gpx!ParseGPX(Gpx!BuildGPX(track, guessed, q.now)))
        once == Read(q.track, q.guessed)
    IN [once |-> once, again |-> Read(once[1], {})]

Answer(q) ==
    CASE q.about = "area" -> AreaReply(q)
      [] q.about = "packs" -> Plans!GroupStatus(q.packs, q.area, q.group)
      [] q.about = "config" -> ConfigReply(q)
      [] q.about = "fuel" -> Backend!PlanFuelRange(q.total, q.stops, q.input)
      [] q.about = "roads" -> Backend!AccessReport(q.spans, q.way)
      [] q.about = "edit" -> EditReply(q)
      [] q.about = "gpx" -> GpxReply(q)
      [] q.about = "line" -> Screen!Runs(q.colors)
      [] q.about = "card" -> Screen!ThumbLayout(q.points)

LibraryNext == reply = <<>> /\ reply' = <<Answer(question)>> /\ UNCHANGED question

LibrarySpec == LibraryInit /\ [][LibraryNext]_libraryVars

Got == reply[1]
About(subject) == reply # <<>> /\ question.about = subject

-----------------------------------------------------------------------------
(* What the library promises *)

(* The grid a large area is cut into covers it without overlap, also across the *)
(* date line; and so do the packs that are asked for an area of one piece that   *)
(* does not cross it, when none is skipped.  Of an area that the catalogue cuts, *)
(* the packs cover the whole or exactly its parts (gridParts, planMapPacks and   *)
(* startRegionDownload of offlineRegions.ts).                                   *)
PartsTile ==
    LET area == question.area
        whole == Plans!Squares(area.bounds)
    IN About("area") =>
        /\ area.parts = <<>> /\ Got.parts # <<>> => Plans!Tiles(Got.parts, area.bounds)
        /\ \A plan \in Got.plans :
              LET requests == plan.requests
                  asked == UNION {Plans!Squares(requests[k]) : k \in DOMAIN requests}
                  parts == UNION {Plans!Squares(area.parts[k].bounds) : k \in DOMAIN area.parts}
              IN plan.skipped = 0 /\ ~Plans!CrossesDateline(area.bounds) =>
                     /\ asked = whole \/ (area.parts # <<>> /\ asked = parts)
                     /\ area.parts = <<>> => Plans!Tiles(Plans!Pieces(requests), area.bounds)

(* An area whose maps, terrain or places are shown as downloaded, or each of its *)
(* parts in the catalogue, lies inside packs that settled with nothing of the    *)
(* group failed or missing, and with something of it where it is the maps        *)
(* (areaDownloadState and groupStatus of offlineRegions.ts).  Not said of areas  *)
(* across the date line: coversBounds takes the rest of the circle for them.     *)
DoneIsDownloaded ==
    LET group == question.group
        Arrived(p) == /\ Plans!PackSettled(p)
                      /\ p.progress[group].failed = 0 /\ p.progress[group].done = p.progress[group].total
                      /\ group = "maps" => p.progress[group].total > 0
    IN About("packs") /\ Got = "done" /\ (\A b \in Plans!BoundsOf(question.area) : ~Plans!CrossesDateline(b)) =>
           Plans!WhollyIn(question.area, UNION {Plans!Squares(p.bbox) : p \in {r \in question.packs : Arrived(r)}})

(* A page that was served cache-only, or by a backend it has not heard of yet,   *)
(* asks no provider directly when its configuration cannot be read              *)
(* (bootstrapRuntimeConfig and loadRuntimeConfig of offline.ts).                *)
FailsClosed ==
    About("config") /\ question.reply.state \in {"refused", "unreadable", "down"}
        /\ (question.embedded = "cache-only" \/ (question.embedded = "" /\ question.base # "")) =>
        \A config \in Got.loaded :
            \A service \in Services : Backend!SelectRuntimeTransport(config, service) # "direct"

(* Wherever on the track the tank has been ridden beyond what is meant to be    *)
(* used, a leg says so, and says dry where it is empty; no other leg is warned  *)
(* of (planFuelRange of fuelRange.ts).                                          *)
RangeWarned ==
    LET Since(km) == Backend!SinceLastStop(question.stops, km)
        Tells(km, status) == \E k \in DOMAIN Got : /\ Got[k].from < km /\ km <= Got[k].to
                                                  /\ status \in {"any", Got[k].status}
        settings == Backend!NormalizeFuelRange(question.input.range, question.input.reserve)
        usable == Backend!UsableKm(settings)
    IN About("fuel") =>
        /\ \A km \in 1 .. question.total : /\ Since(km) > usable => Tells(km, "any")
                                           /\ Since(km) > settings.range => Tells(km, "dry")
        /\ \A k \in DOMAIN Got : /\ Since(Got[k].to) > usable
                                 /\ Got[k].status = "dry" => Since(Got[k].to) > settings.range

(* The stretches a rider is warned of are the ways that carry a warning, no     *)
(* more and no less, apart and with nothing to tell two that meet together, and *)
(* the lengths of all classes add up to what was looked up (accessReport of     *)
(* access.ts).                                                                  *)
AccessAccounted ==
    About("roads") =>
        /\ Backend!StretchSteps(Got.stretches) = Backend!WarnedSteps(question.spans, question.way)
        /\ Got.warned = Cardinality(Backend!StretchSteps(Got.stretches))
        /\ Got.total = Got.km["closed"] + Got.km["private"] + Got.km["restricted"] + Got.km["path"]
                       + Got.km["open"] + Got.km["untagged"] + Got.km["unknown"]
        /\ \A r \in 2 .. Len(Got.stretches) : /\ Got.stretches[r - 1].to <= Got.stretches[r].from
                                              /\ ~Backend!Joins(Got.stretches[r - 1], Got.stretches[r])

(* A rider is warned of every dry stretch and of every way that may be closed,   *)
(* and of nothing else.                                                         *)
RiderWarned == RangeWarned /\ AccessAccounted

(* Edits keep the shape of the track: parts and stages put together are the     *)
(* track, a track reversed twice is itself, elevations stay those of their      *)
(* points, smoothing is the average around each point, and what simplifying     *)
(* leaves out is within tolerance of the line that is left (edit.ts).           *)
TrackKeepsShape ==
    About("edit") =>
        LET track == question.track
            cum == Edits!CumulativeKm(track.coordinates)
        IN /\ Edits!Glued(Got.parts) = track.coordinates /\ Edits!Glued(Got.stages) = track.coordinates
           /\ Edits!ReverseTrack(Got.reversed) = track
           /\ Edits!Aligned(Got.reversed) /\ Edits!Aligned(Got.smooth)
           /\ \A k \in DOMAIN Got.parts : Edits!Aligned(Got.parts[k])
           /\ \A k \in DOMAIN Got.stages : Edits!Aligned(Got.stages[k])
           /\ \A i \in DOMAIN track.elevations :
                  Got.smooth.elevations[i] = Edits!AverageAround(track.elevations, cum, question.half, i)
           /\ Edits!StaysOnLine(track.coordinates, Got.kept, question.tolerance)

(* A track that is written and read again is one track with the points and the   *)
(* waypoints it had, to the precision of the file, their times, and the          *)
(* elevations that were measured, not those that were interpolated; written once *)
(* more, nothing changes (buildGPX and parseGPX of gpx.ts).                      *)
RoundTrip ==
    About("gpx") =>
        LET before == question.track
            after == Got.once[1]
        IN /\ Len(Got.once) = 1 /\ Got.again = Got.once
           /\ after.coordinates = [i \in DOMAIN before.coordinates |->
                  LET c == before.coordinates[i]
                  IN [lat |-> Gpx!Coord(c.lat), lon |-> Gpx!Coord(c.lon), time |-> c.time,
                      ele |-> IF i \in question.guessed THEN {} ELSE Gpx!Height(c.ele)]]
           /\ after.elevations = [i \in DOMAIN after.coordinates |-> after.coordinates[i].ele]
           /\ after.waypoints = [i \in DOMAIN before.waypoints |->
                  LET w == before.waypoints[i]
                  IN [lat |-> Gpx!Coord(w.lat), lon |-> Gpx!Coord(w.lon), ele |-> Gpx!Height(w.ele)]]

(* The track's line is drawn whole, in runs of one colour that meet, and every   *)
(* pixel of a card that is on the map has its tile (ColoredTrack.tsx,            *)
(* TrackCard.tsx).                                                              *)
DrawnWhole ==
    /\ About("line") => Screen!DrawsTrack(Got, question.colors, Len(question.colors))
    /\ About("card") => Screen!CardCovered(Got)
=============================================================================
