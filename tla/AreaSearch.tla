----------------------------- MODULE AreaSearch -----------------------------
(***************************************************************************)
(* Places around a point and inside a view: src/lib/around.ts and          *)
(* src/lib/poi.ts.  A search asks for a box that is rounded outward to a   *)
(* grid, keeps what it was answered for the session, and answers a circle  *)
(* from any box it has that is good enough.                                *)
(***************************************************************************)
EXTENDS Geometry

CONSTANTS World,          \* the places there are: [id, lat, lon, category]
          GridStep,       \* AROUND_GRID_DEG
          Pole,           \* 90 degrees
          ResultLimit,    \* AROUND_RESULT_LIMIT
          MaxAreas,       \* areas of the session cache
          SmallestRadius, LargestRadius,
          Centres,        \* points searched around, a radius or more from a pole
          Radii

VARIABLES areas,   \* the session cache, the latest first
          answer   \* of the last search

areaVars == <<areas, answer>>

-----------------------------------------------------------------------------

ClassifyAround(tags) ==
    CASE tags.amenity \in {"drinking_water", "water_point"} \/ tags.natural = "spring" -> "water"
      [] tags.tourism \in {"alpine_hut", "wilderness_hut"} -> "hut"
      [] tags.amenity = "shelter" /\ tags.shelter # "public_transport" -> "hut"
      [] tags.tourism \in {"camp_site", "caravan_site"} -> "camp"
      [] tags.amenity = "fuel" -> "fuel"
      [] tags.shop \in {"motorcycle", "motorcycle_repair"} -> "repair"
      [] tags.tourism = "viewpoint" -> "viewpoint"
      [] OTHER -> "none"

Radius(r) == Min({Max({r, SmallestRadius}), LargestRadius})

\* The box of the circle, rounded outward to the grid and cut off at the pole
\* and at the date line: what a circle has on the other side is left out.
AroundSearchArea(centre, radius) ==
    LET Down(v, edge) == Max({-edge, (v \div GridStep) * GridStep})
        Up(v, edge) == Min({edge, ((v + GridStep - 1) \div GridStep) * GridStep})
    IN [south |-> Down(centre.lat - radius, Pole), west |-> Down(centre.lon - radius, Half),
        north |-> Up(centre.lat + radius, Pole), east |-> Up(centre.lon + radius, Half)]

Surrounds(outer, inner) == /\ outer.south <= inner.south /\ outer.west <= inner.west
                          /\ outer.north >= inner.north /\ outer.east >= inner.east

In(p, area) == Surrounds(area, [south |-> p.lat, west |-> p.lon, north |-> p.lat, east |-> p.lon])

\* Mutant: an area that was cut short answers a circle inside it.
CoveringAny(cache, area) ==
    LET same == {i \in DOMAIN cache : cache[i].area = area}
        around == {i \in DOMAIN cache : Surrounds(cache[i].area, area)}
    IN IF same # {} THEN {cache[Min(same)]} ELSE IF around # {} THEN {[cache[Min(around)] EXCEPT !.truncated = FALSE]} ELSE {}

\* The same box, whatever it holds; else a box around it that is complete.
Covering(cache, area) ==
    LET same == {i \in DOMAIN cache : cache[i].area = area}
        around == {i \in DOMAIN cache : ~cache[i].truncated /\ Surrounds(cache[i].area, area)}
    IN IF same # {} THEN {cache[Min(same)]}
       ELSE IF around # {} THEN {cache[Min(around)]} ELSE {}

\* The answer for a box takes the place of the one that was there.
Put(cache, result) ==
    LET same == {i \in DOMAIN cache : cache[i].area = result.area}
        others == IF same = {} THEN cache ELSE RemoveAt(cache, Min(same))
        all == <<result>> \o others
    IN SubSeq(all, 1, Min({MaxAreas, Len(all)}))

\* The nearest first; places equally far in whichever order.
NearestFirst(centre, places) ==
    CHOOSE list \in [1 .. Cardinality(places) -> places] :
        /\ Range(list) = places
        /\ \A i, j \in DOMAIN list :
              i < j => HaversineDistance(centre, list[i]) <= HaversineDistance(centre, list[j])

\* One of each id, and only what has a category.
AroundPoisWithin(elements, centre, radius) ==
    NearestFirst(centre, {p \in elements : p.category # "none" /\ HaversineDistance(centre, p) <= radius})

\* What Overpass answers: at most the limit of what there is, whichever.
Replies(area) == LET there == {p \in World : In(p, area)}
                 IN IF Cardinality(there) <= ResultLimit THEN {there} ELSE kSubset(ResultLimit, there)

Answered(centre, radius, result, reused) ==
    answer' = [state |-> "found", centre |-> centre, radius |-> radius, reused |-> reused,
               pois |-> AroundPoisWithin(result.elements, centre, radius), truncated |-> result.truncated]

AreaInit == /\ areas = <<>>
            /\ answer = [state |-> "none"]

SearchFromCache(centre, r) ==
    LET radius == Radius(r)
        area == AroundSearchArea(centre, radius)
    IN /\ \E result \in Covering(areas, area) : Answered(centre, radius, result, TRUE)
       /\ UNCHANGED areas

SearchAround(centre, r) ==
    LET radius == Radius(r)
        area == AroundSearchArea(centre, radius)
    IN /\ Covering(areas, area) = {}
       /\ \E elements \in Replies(area) :
             LET result == [area |-> area, elements |-> elements,
                            truncated |-> Cardinality(elements) >= ResultLimit]
             IN areas' = Put(areas, result) /\ Answered(centre, radius, result, FALSE)

SearchFails(centre, r) ==
    /\ Covering(areas, AroundSearchArea(centre, Radius(r))) = {}
    /\ answer' = [state |-> "failed"]
    /\ UNCHANGED areas

AreaNext == \E centre \in Centres, r \in Radii :
               SearchFromCache(centre, r) \/ SearchAround(centre, r) \/ SearchFails(centre, r)

InCircle(p) == p.category # "none" /\ HaversineDistance(answer.centre, p) <= answer.radius

\* The way from the centre to p does not have to cross the date line.
OnThisSide(p) == AbsDiff(answer.centre.lon, p.lon) <= answer.radius

\* Reference: an answer lists places of the circle only, and one that is not
\* marked as cut short has every one of them that is on the centre's side of the
\* date line.
AnswerComplete ==
    answer.state = "found" =>
        /\ \A p \in Range(answer.pois) : InCircle(p)
        /\ ~answer.truncated => \A p \in World : InCircle(p) /\ OnThisSide(p) => p \in Range(answer.pois)

-----------------------------------------------------------------------------
(* Points of interest of a view *)

BoundsAround(points, pad) ==
    [south |-> Min({points[i].lat : i \in DOMAIN points}) - pad,
     west |-> Min({points[i].lon : i \in DOMAIN points}) - pad,
     north |-> Max({points[i].lat : i \in DOMAIN points}) + pad,
     east |-> Max({points[i].lon : i \in DOMAIN points}) + pad]

\* Official prices first, when they have something to say of the view; OSM
\* otherwise.  An aborted request ends the search.
PoisForArea(kind, spain, official, osm) ==
    LET asked == kind = "fuel" /\ spain
    IN CASE asked /\ official = "aborted" -> "aborted"
         [] asked /\ official = "stations" -> "official"
         [] OTHER -> IF osm = "ok" THEN "osm" ELSE osm

\* What the reply of Overpass means: busy, unreadable, or elements.
OverpassReply(status, body, cacheMiss) ==
    CASE status \in {429, 502, 503, 504} -> IF cacheMiss THEN "cache miss" ELSE "busy"
      [] status \notin {200, 429, 502, 503, 504} -> "error"
      [] OTHER -> CASE body = "json" -> "ok" [] body = "too busy" -> "busy" [] OTHER -> "unreadable"

\* Closest approach of a place to a route along a line of positions.
RouteOffset(place, route, cum) ==
    LET Clamped(i) == IF route[i] <= route[i + 1] THEN Max({route[i], Min({place, route[i + 1]})})
                      ELSE Max({route[i + 1], Min({place, route[i]})})
        Off(i) == AbsDiff(place, Clamped(i))
        legs == 1 .. Len(route) - 1
        best == Min({i \in legs : \A j \in legs : Off(i) <= Off(j)})
    IN [offset |-> Off(best), at |-> cum[best] + AbsDiff(route[best], Clamped(best))]
=============================================================================
