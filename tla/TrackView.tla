------------------------------ MODULE TrackView ------------------------------
(* What the track screen makes of the open track and of its checks: the       *)
(* coloured line (ColoredTrack.tsx), the profile (ElevationProfile.tsx and    *)
(* App.tsx), the ride check (RideCheck.tsx), what is around a point           *)
(* (AroundPanel.tsx), the library card (TrackCard.tsx) and the fuel legend.   *)
(* Ways are whole metres; an elevation is a set, {} where it is not known.    *)
EXTENDS Geometry, TrackReport

CONSTANTS SlopeWindow,      \* SLOPE_WINDOW_KM
          Bands,            \* ALTITUDE_BANDS
          MinBar, MaxBars,  \* 20 m, MAX_PROFILE_BARS
          Noticeable,       \* 0.05 km: what a check mentions
          OnRoute, NearRoute, ListLimit,    \* ON_ROUTE_M, NEAR_ROUTE_M, LIST_LIMIT
          Tile, CardWidth, CardHeight, Padding, MaxTileZoom

-----------------------------------------------------------------------------
(* Colours                                                                     *)
\* The class of a slope of rise over way, in percent; none is level.
SegmentColor(rise, way) ==
    LET Above(p) == 100 * rise > p * way
        From(p) == 100 * rise >= p * way
    IN CASE way <= 0 -> 3
         [] way > 0 /\ rise >= 0 -> IF Above(15) THEN 0 ELSE IF Above(8) THEN 1 ELSE IF Above(2) THEN 2 ELSE 3
         [] OTHER -> IF From(-2) THEN 4 ELSE IF From(-8) THEN 5 ELSE IF From(-15) THEN 6 ELSE 7

AltitudeBand(e, low, high) ==
    IF high > low THEN Min({Bands - 1, ((e - low) * Bands) \div (high - low)}) ELSE 0

\* The point a slope is measured from: a window back, or the first one.
Behind(cum, i) == Max({1} \union {j \in 1 .. i - 1 : cum[i] - cum[j] >= SlopeWindow})

\* Of the segment that ends at point i; surfaces is {} or the track's classes.
ColorAt(elevations, cum, wanted, surfaces, low, high, i) ==
    LET mode == IF wanted = "surface" /\ surfaces = {} THEN "slope" ELSE wanted
        here == elevations[i]
        back == elevations[Behind(cum, i)]
        Height(e) == CHOOSE h \in e : TRUE
    IN CASE mode = "surface" -> <<"surface", (CHOOSE s \in surfaces : TRUE)[i - 1]>>
         [] mode # "surface" /\ (here = {} \/ (mode = "slope" /\ back = {})) -> <<"no data">>
         [] mode = "altitude" /\ here # {} -> <<"band", AltitudeBand(Height(here), low, high)>>
         [] OTHER -> <<"slope", SegmentColor(Height(here) - Height(back), cum[i] - cum[Behind(cum, i)])>>

\* Mutant: a run starts with its own first point.
ExtendedApart(runs, color, i) ==
    LET last == Len(runs)
    IN IF runs # <<>> /\ runs[last].color = color
       THEN [runs EXCEPT ![last].to = i]
       ELSE Append(runs, [color |-> color, from |-> i, to |-> i])

\* The segment up to point i belongs to the last run, or begins one at the
\* point before.
Extended(runs, color, i) ==
    LET last == Len(runs)
    IN IF runs # <<>> /\ runs[last].color = color
       THEN [runs EXCEPT ![last].to = i]
       ELSE Append(runs, [color |-> color, from |-> i - 1, to |-> i])

\* The line in runs of one colour, each of all points from one to another;
\* colors[i] is that of the segment up to i.
Runs(colors) ==
    LET drawn[i \in 1 .. Len(colors)] == IF i = 1 THEN <<>> ELSE Extended(drawn[i - 1], colors[i], i)
    IN IF colors = <<>> THEN <<>> ELSE drawn[Len(colors)]

-----------------------------------------------------------------------------
(* The profile                                                                 *)
\* Points with an elevation, at least a bar's way from the last one.
ProfilePoints(elevations, cum) ==
    LET apart == Max({MinBar, Last(cum) \div MaxBars})
        Sample(taken, i) == IF elevations[i] = {} \/ (taken # <<>> /\ cum[i] - cum[Last(taken)] < apart)
                            THEN taken ELSE Append(taken, i)
    IN IF cum = <<>> THEN <<>> ELSE FoldLeft(Sample, <<>>, [i \in DOMAIN cum |-> i])

ProfileBars(elevations, cum, wanted, surfaces) ==
    LET taken == ProfilePoints(elevations, cum)
        Height(k) == CHOOSE h \in elevations[taken[k]] : TRUE
        heights == {Height(k) : k \in DOMAIN taken}
        Rise(k) == IF k = 1 THEN 0 ELSE Height(k) - Height(k - 1)
        Run(k) == IF k = 1 THEN 0 ELSE cum[taken[k]] - cum[taken[k - 1]]
        Class(k) == (CHOOSE s \in surfaces : TRUE)[Max({1, Min({taken[k], Len(cum)}) - 1})]
    IN [k \in DOMAIN taken |->
           [index |-> taken[k], height |-> Height(k) - Min(heights), rise |-> Rise(k),
            color |-> CASE wanted = "surface" /\ surfaces # {} -> <<"surface", Class(k)>>
                        [] wanted = "altitude" -> <<"band", AltitudeBand(Height(k), Min(heights), Max(heights))>>
                        [] OTHER -> <<"slope", SegmentColor(Rise(k), Run(k))>>]]

YAxisTicks(low, high) == [t \in 0 .. 4 |-> low + ((IF high = low THEN 1 ELSE high - low) * t) \div 4]

XAxisTicks(bars) == [t \in 0 .. 4 |-> bars[((Len(bars) - 1) * t) \div 4 + 1].index]

\* The bars under a selection: the first one, and the first beyond it.
SelectionRange(bars, selection) ==
    LET low == Min({selection.start, selection.end})
        high == Max({selection.start, selection.end})
        From(of, otherwise) == Min(of \union {otherwise})
    IN [first |-> From({k \in DOMAIN bars : bars[k].index >= low}, Len(bars)),
        beyond |-> From({k \in DOMAIN bars : bars[k].index > high}, Len(bars) + 1)]

\* A click on a bar while a section is picked: the first sets the anchor.
SelectBar(picked, index) ==
    IF picked.anchor = 0 THEN [anchor |-> index, start |-> index, end |-> index]
    ELSE [anchor |-> 0, start |-> picked.anchor, end |-> index]

-----------------------------------------------------------------------------
(* The ride check                                                              *)
\* Restrictions of one kind, the severe ones first, then the long ones.
GroupStretches(stretches, severity) ==
    LET Key(s) == <<s.id, s.tag>>
        keys == {Key(stretches[k]) : k \in DOMAIN stretches}
        Way(key) == MapThenSumSet(LAMBDA k : stretches[k].to - stretches[k].from,
                                  {k \in DOMAIN stretches : Key(stretches[k]) = key})
        Rank(key) == CHOOSE r \in DOMAIN severity : severity[r] = key[1]
    IN SetToSortSeq({[key |-> key, way |-> Way(key)] : key \in keys},
                    LAMBDA a, b : \/ Rank(a.key) < Rank(b.key)
                                  \/ (Rank(a.key) = Rank(b.key) /\ a.way > b.way))

Way(report, class) == IF class \in DOMAIN report.km THEN report.km[class] ELSE 0

\* The verdict of the access check, and what it says beside it.
AccessWarnings(report) ==
    LET known == report.total - Way(report, "unknown")
        unmatched == report.total > 0 /\ 20 * known < report.total
    IN [verdict |-> CASE unmatched /\ report.stretches = <<>> -> "no road data"
                      [] report.stretches # <<>> -> "restricted"
                      [] OTHER -> "clear",
        quiet |-> {class \in {"untagged", "unknown"} : Way(report, class) > Noticeable}]

\* Almost nothing matched a road; the unknown way is told apart from the rest.
SurfaceBreakdown(summary, unmatched) ==
    [outside |-> summary.total > 0 /\ 20 * unmatched > 19 * summary.total,
     unknown |-> summary.unknown > Noticeable]

FuelRangeView(loaded, loading, longest, usable, range, warnings) ==
    IF ~loaded THEN [offers |-> IF loading THEN "wait" ELSE "find stations"]
    ELSE [longest |-> IF longest > range THEN "danger" ELSE IF longest > usable THEN "warn" ELSE "ok",
          fits |-> warnings = <<>>]

\* The badges of the tabs: what a check found, before its tab is opened.
RideTabs(annotation, access, warnings) ==
    [surface |-> IF annotation = "ready" THEN "share" ELSE "none",
     access |-> IF access = {} THEN "none"
                ELSE IF \E r \in access : r.stretches # <<>> THEN "danger" ELSE "ok",
     fuel |-> IF warnings = {} THEN "none"
              ELSE IF \E w \in warnings : \E k \in DOMAIN w : w[k].status = "dry" THEN "danger"
              ELSE IF warnings = {<<>>} THEN "ok" ELSE "warn"]

\* Where along the track a kilometre falls: the pair of points around it.
PointAtKm(cum, km) ==
    CASE km <= 0 -> <<1, 1>>
      [] km > 0 /\ km >= Last(cum) -> <<Len(cum), Len(cum)>>
      [] OTHER -> LET low == Max({i \in DOMAIN cum : cum[i] <= km}) IN <<low, low + 1>>

\* What a tab shows until the road match is there.
AnnotationStatus(state) == IF state \in {"error", "unavailable"} THEN state ELSE "matching"

-----------------------------------------------------------------------------
(* What is around a point; places: [id, category], offsets {} or by id         *)
RouteBadge(offset) == IF offset > NearRoute THEN "none" ELSE IF offset <= OnRoute THEN "on route" ELSE "near"

AroundResults(state, places, hidden, offsets, sort) ==
    LET shown == SelectSeq(places, LAMBDA p : p.category \notin hidden)
        off == CHOOSE o \in offsets : TRUE
        near == SelectSeq(shown, LAMBDA p : off[p.id].offset <= NearRoute)
        visible == IF sort = "route" /\ offsets # {}
                   THEN SortSeq(near, LAMBDA p, q : off[p.id].at < off[q.id].at) ELSE shown
    IN IF state \in {"loading", "cancelled", "error"} THEN [panel |-> state]
       ELSE [panel |-> IF visible = <<>> THEN "empty" ELSE "list", visible |-> visible,
             listed |-> SubSeq(visible, 1, Min({ListLimit, Len(visible)})),
             note |-> Len(visible) > ListLimit,
             onRoute |-> {p \in Range(places) : \E o \in offsets : o[p.id].offset <= OnRoute},
             enabled |-> {p.category : p \in Range(places)}]

-----------------------------------------------------------------------------
(* The library                                                                 *)
\* The tiles that extent pixels from the first one on lie on.
ThumbTiles(first, extent) == first \div Tile .. (first + extent) \div Tile

\* Tiles along one side of the world.
WorldTiles[z \in 0 .. MaxTileZoom] == IF z = 0 THEN 1 ELSE 2 * WorldTiles[z - 1]

\* The deepest zoom at which the track fits its card, and the tiles behind it;
\* points are pixels of the whole world at zoom 0, with X wrapping around.
ThumbLayout(points) ==
    LET xs == {points[i].x : i \in DOMAIN points}
        ys == {points[i].y : i \in DOMAIN points}
        Fits(z) == /\ (Max(xs) - Min(xs)) * WorldTiles[z] <= CardWidth - 2 * Padding
                   /\ (Max(ys) - Min(ys)) * WorldTiles[z] <= CardHeight - 2 * Padding
        zoom == Max({0} \union {z \in 0 .. MaxTileZoom : Fits(z)})
        world == WorldTiles[zoom]
        left == ((Min(xs) + Max(xs)) * world - CardWidth) \div 2
        top == ((Min(ys) + Max(ys)) * world - CardHeight) \div 2
    IN [world |-> world, left |-> left, top |-> top,
        tiles |-> {[column |-> x, x |-> x % world, y |-> y] :
                      x \in ThumbTiles(left, CardWidth),
                      y \in ThumbTiles(top, CardHeight) \cap 0 .. world - 1}]

\* The legend of the pumps' prices: the fuels on offer, how many are ranked.
FuelPriceLegend(pois, reference) ==
    LET fuels == UNION {DOMAIN p.prices : p \in Range(pois)}
    IN IF fuels = {} THEN {}
       ELSE {[fuels |-> fuels, ranked |-> Len(SelectSeq(pois, LAMBDA p : reference \in DOMAIN p.prices))]}

-----------------------------------------------------------------------------
(* Reference definitions                                                       *)
\* Runs that meet, from the first point to point m; each has the colour of its
\* segments, and not that of the run before.
DrawsTrack(runs, colors, m) ==
    /\ runs = <<>> <=> m < 2
    /\ \A r \in DOMAIN runs :
           /\ runs[r].from < runs[r].to
           /\ runs[r].from = IF r = 1 THEN 1 ELSE runs[r - 1].to
           /\ r = Len(runs) => runs[r].to = m
           /\ \A i \in runs[r].from + 1 .. runs[r].to : colors[i] = runs[r].color
           /\ r > 1 => runs[r].color # runs[r - 1].color

\* Every pixel of the card that is on the map has its tile.
CardCovered(layout) ==
    \A x \in layout.left .. layout.left + CardWidth - 1, y \in layout.top .. layout.top + CardHeight - 1 :
        y \in 0 .. Tile * layout.world - 1 =>
            \E t \in layout.tiles : t.column = x \div Tile /\ t.y = y \div Tile
=============================================================================
