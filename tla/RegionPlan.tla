----------------------------- MODULE RegionPlan -----------------------------
(***************************************************************************)
(* How src/lib/offlineRegions.ts cuts an area into pack requests, and how  *)
(* it finds the area again among the packs of a later visit.               *)
(*                                                                         *)
(* A longitude is a number in -Half .. Half of a circle of 2 * Half units, *)
(* a latitude its height above the lower edge of the Mercator square, in   *)
(* the same units.  Divisions round down to the unit.                      *)
(***************************************************************************)
EXTENDS Integers, Sequences, FiniteSets, FiniteSetsExt

CONSTANTS Half,              \* 180 degrees
          MinZoom, MaxZoom,  \* MAP_MIN_ZOOM, MAP_MAX_ZOOM
          TerrainZoom,       \* TERRAIN_ZOOM
          PartMapTiles, PartTerrainTiles,
          MaxGridParts,      \* MAX_GRID_PARTS
          SplitDepth,        \* SPLIT_DEPTH
          MaxNesting         \* bound: how deep parts of parts are followed

Circle == 2 * Half

CeilDiv(a, b) == (a + b - 1) \div b

-----------------------------------------------------------------------------
(* Bounds and tiles *)

NormalizedLongitude(lon) == IF lon >= -Half /\ lon < Half THEN lon
                            ELSE ((lon + Half) % Circle) - Half

\* Two corners of an unwrapped map; {} stands for null.
NormalizePackBounds(p, q) ==
    LET south == Max({0, Min({p.lat, q.lat})})
        north == Min({Circle, Max({p.lat, q.lat})})
        west == Min({p.lon, q.lon})
        east == Max({p.lon, q.lon})
    IN IF south >= north \/ east = west \/ east - west >= Circle THEN {}
       ELSE {[south |-> south, west |-> NormalizedLongitude(west),
              north |-> north, east |-> NormalizedLongitude(east)]}

LongitudeSpan(b) == IF b.east >= b.west THEN b.east - b.west ELSE b.east + Circle - b.west

WrapLongitude(lon) == IF lon >= Half THEN lon - Circle ELSE lon

Boxes == {b \in [south : 0 .. Circle, west : -Half .. Half - 1, north : 0 .. Circle, east : -Half .. Half - 1] :
              b.south <= b.north}

\* The columns and rows of a zoom: 2 to its power.
Side[zoom \in 0 .. MaxZoom] == IF zoom = 0 THEN 1 ELSE 2 * Side[zoom - 1]

\* Every tile column and row that the bounds touch, the edges included.
TilesAt(b, zoom) ==
    LET n == Side[zoom]
        Column(lon) == Min({n - 1, ((lon + Half) * n) \div Circle})
        Row(lat) == ((Circle - lat) * n) \div Circle
        columns == IF b.east >= b.west THEN Column(b.east) - Column(b.west) + 1
                   ELSE n - Column(b.west) + Column(b.east) + 1
    IN columns * (Min({n - 1, Row(b.south)}) - Row(b.north) + 1)

TileCount(b) ==
    LET upto[zoom \in MinZoom .. MaxZoom] ==
            IF zoom = MinZoom THEN TilesAt(b, zoom) ELSE upto[zoom - 1] + TilesAt(b, zoom)
    IN upto[MaxZoom]

FitsOnePack(b) == TileCount(b) <= PartMapTiles /\ TilesAt(b, TerrainZoom) <= PartTerrainTiles

-----------------------------------------------------------------------------
(* Parts of an area: those the catalogue of regions knows, one level of them *)

Areas == [bounds : Boxes, parts : Seq([bounds : Boxes, parts : {<<>>}])]

Piece(b) == [bounds |-> b, parts |-> <<>>]

Pieces(cells) == [k \in DOMAIN cells |-> Piece(cells[k])]

\* Math.round(Math.sqrt(count * aspect)), at least one.
Columns(count, span, height) ==
    Max({1} \union {c \in 1 .. count * span : (2 * c - 1) * (2 * c - 1) * height <= 4 * count * span})

\* Mutant: the last column ends where the division puts it.
GridCellLoose(b, rows, columns, row, column) ==
    LET height == b.north - b.south
        span == LongitudeSpan(b)
    IN [south |-> b.north - (height * (row + 1)) \div rows,
        north |-> b.north - (height * row) \div rows,
        west |-> WrapLongitude(b.west + (span * column) \div columns),
        east |-> WrapLongitude(b.west + (span * column + span - 1) \div columns)]

GridCell(b, rows, columns, row, column) ==
    LET height == b.north - b.south
        span == LongitudeSpan(b)
    IN [south |-> IF row = rows - 1 THEN b.south ELSE b.north - (height * (row + 1)) \div rows,
        north |-> b.north - (height * row) \div rows,
        west |-> WrapLongitude(b.west + (span * column) \div columns),
        east |-> IF column = columns - 1 THEN b.east
                 ELSE WrapLongitude(b.west + (span * (column + 1)) \div columns)]

Grid(b, count) ==
    LET columns == Columns(count, LongitudeSpan(b), b.north - b.south)
        rows == Max({1, CeilDiv(count, columns)})
    IN [k \in 1 .. rows * columns |->
           GridCell(b, rows, columns, (k - 1) \div columns, (k - 1) % columns)]

GridDone(cells) == (\A k \in DOMAIN cells : FitsOnePack(cells[k])) \/ Len(cells) >= MaxGridParts

\* The parts that the tiles ask for.
FirstParts(b) == Max({CeilDiv(TileCount(b), PartMapTiles), CeilDiv(TilesAt(b, TerrainZoom), PartTerrainTiles)})

\* The coarsest grid from there on that fits.
GridCount(b, first) ==
    CHOOSE n \in first .. first + MaxGridParts : /\ GridDone(Grid(b, n))
                                                /\ \A m \in first .. n - 1 : ~GridDone(Grid(b, m))

GridParts(b) == IF FitsOnePack(b) THEN <<>> ELSE Pieces(Grid(b, GridCount(b, FirstParts(b))))

DownloadParts(area) == IF FitsOnePack(area.bounds) THEN <<>>
                       ELSE IF area.parts # <<>> THEN area.parts ELSE GridParts(area.bounds)

\* Across the longer side; the cosine of the latitude is left out.
SplitArea(b) ==
    IF LongitudeSpan(b) >= b.north - b.south
    THEN LET middle == WrapLongitude(b.west + LongitudeSpan(b) \div 2)
         IN <<Piece([b EXCEPT !.east = middle]), Piece([b EXCEPT !.west = middle])>>
    ELSE LET middle == (b.south + b.north) \div 2
         IN <<Piece([b EXCEPT !.north = middle]), Piece([b EXCEPT !.south = middle])>>

-----------------------------------------------------------------------------
(* Planning: limit is what the server takes for one pack *)

NoPlan == [requests |-> <<>>, skipped |-> 0]

Plus(p, q) == [requests |-> p.requests \o q.requests, skipped |-> p.skipped + q.skipped]

\* planPartPacks: the plans of the parts, one after the other.
PlanParts(plan, parts, depth) ==
    LET upto[k \in 0 .. Len(parts)] == IF k = 0 THEN NoPlan ELSE Plus(upto[k - 1], plan[<<parts[k], depth>>])
    IN upto[Len(parts)]

\* plan is what the parts are planned with.
Planned(plan, area, limit, depth) ==
    LET known == DownloadParts(area)
        halves == IF depth >= SplitDepth THEN <<>>
                  ELSE IF area.parts # <<>> THEN area.parts ELSE SplitArea(area.bounds)
    IN IF known # <<>> THEN PlanParts(plan, known, depth)
       ELSE IF TileCount(area.bounds) <= limit
            THEN [requests |-> <<area.bounds>>, skipped |-> 0]
            ELSE IF halves = <<>> THEN [NoPlan EXCEPT !.skipped = 1]
                 ELSE PlanParts(plan, halves, depth + 1)

\* An area nested deeper than the bound counts as skipped.
PlanMapPacks(area, limit) ==
    LET plan[n \in 0 .. MaxNesting] ==
            [at \in Areas \X (0 .. SplitDepth) |->
                IF n = 0 THEN [NoPlan EXCEPT !.skipped = 1] ELSE Planned(plan[n - 1], at[1], limit, at[2])]
    IN plan[MaxNesting][<<area, 0>>]

Corner(lat, lon) == [lat |-> lat, lon |-> lon]

\* What startRegionDownload asks of an area: its corners are normalized once more,
\* which makes an area across the date line the rest of the circle.  {} is an error.
StartPlans(area, limit) ==
    LET b == area.bounds
        normalized == NormalizePackBounds(Corner(b.south, b.west), Corner(b.north, b.east))
        plans == {PlanMapPacks([area EXCEPT !.bounds = n], limit) : n \in normalized}
    IN {plan \in plans : plan.requests # <<>>}

-----------------------------------------------------------------------------
(* Recognising an area among packs: [id, bbox, status, detail, incomplete, *)
(* updated, progress], where progress is what the pack reports of every    *)
(* group, added up over its kinds: [done, total, failed, present,          *)
(* unavailable].                                                           *)

PackIsActive(p) == p.status \in {"queued", "running", "cancelling"}

PackSettled(p) == p.status = "complete" \/ p.detail \in {"provider_limits", "resource_failures"}

\* Mutant: a settled pack is a finished one.
SettledIsFinished(p, group) == PackSettled(p)

\* Nothing that is reported failed or is missing; maps have to have something to
\* show, a settled pack that has no terrain or no places is finished.
PackFinished(p, group) ==
    LET progress == p.progress[group]
    IN /\ PackSettled(p)
       /\ progress.failed = 0 /\ progress.done = progress.total
       /\ group = "maps" => progress.total > 0

CoversBounds(a, b) == /\ a.south <= b.south /\ a.west <= b.west
                      /\ a.north >= b.north /\ a.east >= b.east

\* A finished pack first, then one under way; the latest of them.
CoveringPack(packs, b, group) ==
    LET Rank(p) == IF PackFinished(p, group) THEN 0 ELSE IF PackIsActive(p) THEN 1 ELSE 2
        covering == {p \in packs : CoversBounds(p.bbox, b)}
    IN {p \in covering : \A q \in covering : \/ Rank(p) < Rank(q)
                                             \/ Rank(p) = Rank(q) /\ p.updated > q.updated
                                             \/ Rank(p) = Rank(q) /\ p.updated = q.updated
                                                                  /\ p.id <= q.id}

AreaParts(packs, area, depth) ==
    LET planned == IF area.parts # <<>> THEN area.parts ELSE GridParts(area.bounds)
        halved == /\ depth < SplitDepth
                  /\ \E p \in packs : /\ CoversBounds(area.bounds, p.bbox)
                                      /\ ~CoversBounds(p.bbox, area.bounds)
    IN IF planned # <<>> THEN planned
       ELSE IF halved THEN SplitArea(area.bounds) ELSE <<>>

NoPacks == [found |-> {}, missing |-> 0]

Joined(p, q) == [found |-> p.found \union q.found, missing |-> p.missing + q.missing]

JoinParts(collect, parts) ==
    LET upto[k \in 0 .. Len(parts)] == IF k = 0 THEN NoPacks ELSE Joined(upto[k - 1], collect[parts[k]])
    IN upto[Len(parts)]

\* collect is what the packs of the parts are collected with.
Collected(collect, packs, area, depth, group) ==
    LET direct == CoveringPack(packs, area.bounds, group)
        parts == AreaParts(packs, area, depth)
    IN IF direct # {} THEN [NoPacks EXCEPT !.found = direct]
       ELSE IF parts = <<>> THEN [NoPacks EXCEPT !.missing = 1] ELSE JoinParts(collect, parts)

\* An area nested deeper than the bound counts as missing.
CollectAreaPacks(packs, area, group) ==
    LET collect[n \in 0 .. MaxNesting] ==
            [part \in Areas |-> IF n = 0 THEN [NoPacks EXCEPT !.missing = 1]
                                ELSE Collected(collect[n - 1], packs, part, MaxNesting - n, group)]
    IN collect[MaxNesting][area]

\* What the packs found for an area, and the parts without one, make of it.
Combined(found, missing, group) ==
    [packs |-> found,
     covers |-> missing = 0 /\ found # {},
     complete |-> missing = 0 /\ found # {} /\ \A p \in found : PackFinished(p, group),
     active |-> \E p \in found : PackIsActive(p),
     failed |-> {p \in found : /\ ~PackIsActive(p)
                               /\ p.status = "failed" \/ p.incomplete
                               /\ ~PackFinished(p, group)}]

CombinedOf(collected, group) == Combined(collected.found, collected.missing, group)

\* The packs that hold the group.
Relevant(packs, group) == {p \in packs : p.progress[group].present \/ p.progress[group].unavailable}

AreaDownloadState(packs, area, group) == CombinedOf(CollectAreaPacks(Relevant(packs, group), area, group), group)

\* The first pack that stopped short was cancelled, and nothing of the others failed.
Stopped(state, group) ==
    /\ \A p \in state.failed : (\A q \in state.failed : p.id <= q.id) => p.detail = "cancelled"
    /\ \A p \in state.packs : p.progress[group].failed = 0

Unavailable(state, group) ==
    state.packs # {} /\ \A p \in state.packs : p.progress[group].unavailable /\ ~p.progress[group].present

StateName(state, group) ==
    CASE state.complete -> "done"
      [] ~state.complete /\ state.active ->
             IF \E p \in state.packs : p.status = "running" THEN "running" ELSE "queued"
      [] OTHER ->
             IF Unavailable(state, group) THEN "unavailable"
             ELSE IF state.failed # {}
                  THEN IF Stopped(state, group) THEN "stopped" ELSE IF state.covers THEN "failed" ELSE "partial"
                  ELSE IF state.packs # {} THEN "partial" ELSE "none"

GroupStatus(packs, area, group) == StateName(AreaDownloadState(packs, area, group), group)

\* For "7 of 19 regions".
PartsProgress(packs, parts, group) ==
    LET state == [k \in DOMAIN parts |-> GroupStatus(packs, parts[k], group)]
    IN [done |-> Cardinality({k \in DOMAIN parts : state[k] = "done"}),
        active |-> Cardinality({k \in DOMAIN parts : state[k] \in {"running", "queued"}})]

-----------------------------------------------------------------------------
(* Reference definitions *)

\* The unit squares inside some bounds.
Squares(b) == {<<((b.west + k + Half) % Circle) - Half, y>> :
                  k \in 0 .. LongitudeSpan(b) - 1, y \in b.south .. b.north - 1}

\* Parts cover an area, without overlap.
Tiles(parts, b) ==
    /\ UNION {Squares(parts[k].bounds) : k \in DOMAIN parts} = Squares(b)
    /\ \A j, k \in DOMAIN parts :
          j # k => Squares(parts[j].bounds) \cap Squares(parts[k].bounds) = {}

\* The bounds of an area and of its parts.
BoundsOf(area) == {area.bounds} \union {area.parts[k].bounds : k \in DOMAIN area.parts}

\* An area is all there, or every part the catalogue knows of it is.
WhollyIn(area, squares) ==
    \/ Squares(area.bounds) \subseteq squares
    \/ area.parts # <<>> /\ \A k \in DOMAIN area.parts : Squares(area.parts[k].bounds) \subseteq squares

\* The packs of a plan, with what each reports.
PacksOf(plan, progress) ==
    {[id |-> k, bbox |-> plan.requests[k], status |-> "complete", detail |-> "none",
      incomplete |-> FALSE, updated |-> 0, progress |-> progress] : k \in DOMAIN plan.requests}

CrossesDateline(b) == b.east < b.west
=============================================================================
