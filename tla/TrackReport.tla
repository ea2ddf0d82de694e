---------------------------- MODULE TrackReport ----------------------------
(***************************************************************************)
(* What Broom's annotations and the fuel stations say of a track:          *)
(* src/lib/access.ts, src/lib/surface.ts, src/lib/trackSurface.ts and      *)
(* src/lib/fuelRange.ts.                                                   *)
(*                                                                         *)
(* A position is a number: Unit for every point before it, and the         *)
(* fraction of the way to the next one.  A tag that is absent is "".       *)
(* {} is null, a malformed field, or a result that was refused.            *)
(***************************************************************************)
EXTENDS Geometry

CONSTANTS Unit,            \* what the way to the next point is divided into
          PathHighways,    \* PATH_HIGHWAYS
          MostPoints,      \* what the lookup takes
          MinRange, MaxRange, DefaultRange,     \* of a tank: 10, 5000, 250 km
          MaxReserve, DefaultReserve            \* 90, 15 %

AccessKeys == <<"motorcycle", "motor_vehicle", "vehicle", "access">>

AccessClasses == {"closed", "private", "restricted", "path", "open", "untagged", "unknown"}

Warned == {"closed", "private", "restricted", "path"}

Index(position) == position \div Unit

-----------------------------------------------------------------------------
(* Access *)

ClassifyValue(value) ==
    CASE value \in {"yes", "permissive", "designated"} -> "open"
      [] value = "no" -> "closed"
      [] value \in {"private", "unknown"} -> value
      [] OTHER -> "restricted"

\* The most specific tag decides; access=yes says nothing on a path.
ClassifyAccess(road) ==
    LET tags == CHOOSE r \in road : TRUE
        path == tags.highway \in PathHighways
        stated == SelectSeq(AccessKeys, LAMBDA key : tags[key] # "")
        key == Head(stated)
        class == ClassifyValue(tags[key])
    IN CASE road = {} -> [id |-> "unknown", tag |-> {}]
         [] road # {} /\ stated = <<>> -> [id |-> IF path THEN "path" ELSE "untagged", tag |-> {}]
         [] OTHER -> [id |-> IF key = "access" /\ path /\ class = "open" THEN "path" ELSE class,
                      tag |-> {<<key, tags[key]>>}]

KmAt(cum, position) ==
    LET i == Index(position)
        base == cum[Min({Len(cum), i + 1})]
    IN IF i + 1 >= Len(cum) THEN base
       ELSE base + ((cum[i + 2] - base) * (position % Unit)) \div Unit

Span(span, cum) ==
    LET verdict == ClassifyAccess(span.road)
    IN [from |-> KmAt(cum, span.from), to |-> KmAt(cum, span.to), id |-> verdict.id, tag |-> verdict.tag]

Joins(last, next) == last.id = next.id /\ last.tag = next.tag /\ last.to = next.from

NoReport == [stretches |-> <<>>, km |-> [c \in AccessClasses |-> 0], total |-> 0]

\* A span that has a way counts towards its class; one that carries a warning
\* goes on with the last stretch or begins one.
Entered(report, span) ==
    LET last == Len(report.stretches)
        way == span.to - span.from
        counted == [report EXCEPT !.km[span.id] = @ + way, !.total = @ + way]
        goesOn == report.stretches # <<>> /\ Joins(report.stretches[last], span)
    IN CASE way <= 0 -> report
         [] way > 0 /\ span.id \notin Warned -> counted
         [] OTHER -> [counted EXCEPT !.stretches = IF goesOn THEN [@ EXCEPT ![last].to = span.to] ELSE Append(@, span)]

\* The warning stretches, and the way of every class.
AccessReport(spans, cum) ==
    LET n == Len(spans)
        report[k \in 0 .. n] == IF k = 0 THEN NoReport ELSE Entered(report[k - 1], Span(spans[k], cum))
        stretches == report[n].stretches
        way[r \in 0 .. Len(stretches)] == IF r = 0 THEN 0 ELSE way[r - 1] + stretches[r].to - stretches[r].from
    IN [stretches |-> stretches, km |-> report[n].km, total |-> report[n].total, warned |-> way[Len(stretches)]]

LocateSegmentRoads(roads) ==
    [i \in DOMAIN roads |-> [from |-> (i - 1) * Unit, to |-> i * Unit, road |-> roads[i]]]

-----------------------------------------------------------------------------
(* Surface *)

ClassifySurface(surface) ==
    CASE surface \in {"asphalt", "paved", "concrete", "paving_stones", "cobblestone", "sett"} -> "paved"
      [] surface \in {"compacted", "fine_gravel", "gravel", "pebblestone"} -> "compacted"
      [] surface \in {"ground", "dirt", "earth", "unpaved", "grass", "grass_paver"} -> "dirt"
      [] surface \in {"sand", "mud", "clay", "rock", "impassable"} -> "path"
      [] OTHER -> "unknown"

\* distances: [id, km]
SummarizeSurfaceDistances(distances) ==
    LET long == SelectSeq(distances, LAMBDA d : d.km > 0)
        Way(of) == MapThenSumSet(LAMBDA k : long[k].km, {k \in DOMAIN long : long[k].id \in of})
    IN [shares |-> [c \in {long[k].id : k \in DOMAIN long} |-> Way({c})],
        total |-> MapThenSumSet(LAMBDA k : long[k].km, DOMAIN long),
        unpaved |-> Way({"compacted", "dirt", "path"}),
        unknown |-> Way({"unknown"})]

\* segments[i] is the way from point i to the next.
SummarizeSurface(segments, cum) ==
    SummarizeSurfaceDistances([i \in 1 .. Min({Len(segments), Len(cum) - 1}) |->
                                  [id |-> segments[i], km |-> cum[i + 1] - cum[i]]])

\* A position is refused when its index is not a point of the track.
DecodePosition(raw, points) == {p \in raw : p >= 0 /\ Index(p) < points}

\* A span carries what was matched there; unmatched is unknown.
DecodeSpan(raw, points) ==
    {[from |-> from, to |-> to, matched |-> raw.matched,
      surface |-> IF raw.matched THEN ClassifySurface(raw.surface) ELSE "unknown",
      road |-> IF raw.matched THEN raw.road ELSE {}] :
        from \in DecodePosition(raw.from, points), to \in DecodePosition(raw.to, points)}

\* The whole reply is refused for one bad part of it, and when the distances
\* do not add up to the length of the track.
AnnotateTrack(points, reply) ==
    LET summary == SummarizeSurfaceDistances([k \in DOMAIN reply.surfaces |->
                      [id |-> ClassifySurface(reply.surfaces[k].surface), km |-> Max(reply.surfaces[k].km)]])
        spans == [k \in DOMAIN reply.spans |-> DecodeSpan(reply.spans[k], points)]
        sound == /\ points \in 2 .. MostPoints
                 /\ reply.ok /\ \A k \in DOMAIN reply.surfaces : \E km \in reply.surfaces[k].km : km >= 0
                 /\ summary.total = reply.distance
                 /\ \A k \in DOMAIN spans : \E s \in spans[k] : s.from <= s.to
    IN IF sound THEN {[summary |-> summary, spans |-> [k \in DOMAIN spans |-> CHOOSE s \in spans[k] : TRUE]]}
       ELSE {}

Overlap(span, i) == Min({span.to, i * Unit}) - Max({span.from, (i - 1) * Unit})

\* The class of whichever span covers most of a segment, the first of them.
SegmentSurfaces(spans, points) ==
    LET Covers(k, i) == Overlap(spans[k], i) > 0
        Most(i) == Min({k \in DOMAIN spans : Covers(k, i) /\ \A j \in DOMAIN spans :
                            Overlap(spans[j], i) <= Overlap(spans[k], i)})
    IN [i \in 1 .. points - 1 |->
           IF \E k \in DOMAIN spans : Covers(k, i) THEN spans[Most(i)].surface ELSE "unknown"]

-----------------------------------------------------------------------------
(* The tank *)

NormalizeFuelRange(range, reserve) ==
    [range |-> IF \E r \in range : r >= MinRange THEN Min(range \union {MaxRange}) ELSE DefaultRange,
     reserve |-> IF \E r \in reserve : r >= 0 THEN Min(reserve \union {MaxReserve})
                 ELSE DefaultReserve]

\* One stop for every pass inside the corridor, at its closest point.  The box
\* that is looked at first does not go across the date line.
FuelStopsAlong(points, cum, stations, corridor) ==
    LET Offset(s, i) == HaversineDistance(points[i], stations[s])
        Near(s, i) == AbsDiff(points[i].lon, stations[s].lon) <= corridor /\ Offset(s, i) <= corridor
        SamePass(s, i, j) == \A k \in Min({i, j}) .. Max({i, j}) : Near(s, k)
        Closest(s, i) == \A j \in DOMAIN points :
                            SamePass(s, i, j) => \/ Offset(s, i) < Offset(s, j)
                                                 \/ (Offset(s, i) = Offset(s, j) /\ i <= j)
        passes == {p \in (DOMAIN stations) \X (DOMAIN points) :
                      Near(p[1], p[2]) /\ Closest(p[1], p[2])}
        order == SetToSortSeq(passes, LAMBDA p, q :
                    \/ cum[p[2]] < cum[q[2]]
                    \/ (cum[p[2]] = cum[q[2]] /\ (p[1] < q[1] \/ (p[1] = q[1] /\ p[2] < q[2]))))
    IN [k \in DOMAIN order |-> [km |-> cum[order[k][2]], station |-> stations[order[k][1]].id,
                                offset |-> Offset(order[k][1], order[k][2])]]

UsableKm(settings) == (settings.range * (100 - settings.reserve)) \div 100

\* Where stop i is; the first is the start of the track, the last its end.
KmOf(total, stops, i) == CASE i = 0 -> 0 [] i \in DOMAIN stops -> stops[i].km [] OTHER -> total

\* From stop i - 1 to stop i: whether the tank is dry before the end of the
\* leg, and where that is or the reserve begins.
Leg(total, stops, settings, i) ==
    LET from == KmOf(total, stops, i - 1)
        to == KmOf(total, stops, i)
        dry == to - from > settings.range
    IN [from |-> from, to |-> to, status |-> IF dry THEN "dry" ELSE "reserve",
        at |-> from + IF dry THEN settings.range ELSE UsableKm(settings)]

\* Mutant: the way from the last station to the end is not looked at.
PlanToLastStop(total, stops, input) ==
    LET settings == NormalizeFuelRange(input.range, input.reserve)
        warned[i \in 0 .. Len(stops)] ==
            IF i = 0 THEN <<>>
            ELSE LET leg == Leg(total, stops, settings, i)
                 IN IF leg.to - leg.from <= UsableKm(settings) THEN warned[i - 1] ELSE Append(warned[i - 1], leg)
    IN warned[Len(stops)]

\* The legs that need attention, of stops in the order of the track.
PlanFuelRange(total, stops, input) ==
    LET settings == NormalizeFuelRange(input.range, input.reserve)
        warned[i \in 0 .. Len(stops) + 1] ==
            IF i = 0 THEN <<>>
            ELSE LET leg == Leg(total, stops, settings, i)
                 IN IF leg.to - leg.from <= UsableKm(settings) THEN warned[i - 1] ELSE Append(warned[i - 1], leg)
    IN warned[Len(stops) + 1]

LongestLegKm(total, stops) ==
    Max({0} \union {KmOf(total, stops, i) - KmOf(total, stops, i - 1) : i \in 1 .. Len(stops) + 1})

-----------------------------------------------------------------------------
(* Reference definitions *)

\* How far the tank has been ridden at a kilometre of the track.
SinceLastStop(stops, km) == km - Max({0} \union {stops[i].km : i \in {j \in DOMAIN stops : stops[j].km < km}})

\* The spans follow one another from the start of the track to its end.
Contiguous(spans, points) ==
    /\ spans # <<>> /\ spans[1].from = 0 /\ Last(spans).to = (points - 1) * Unit
    /\ \A k \in 1 .. Len(spans) - 1 : spans[k].to = spans[k + 1].from

\* The unit steps of the way on which a rider has to be warned.
WarnedSteps(spans, cum) ==
    UNION {KmAt(cum, spans[k].from) .. KmAt(cum, spans[k].to) - 1 :
              k \in {j \in DOMAIN spans : ClassifyAccess(spans[j].road).id \in Warned}}

StretchSteps(stretches) == UNION {stretches[k].from .. stretches[k].to - 1 : k \in DOMAIN stretches}
=============================================================================
