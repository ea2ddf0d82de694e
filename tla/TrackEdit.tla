----------------------------- MODULE TrackEdit -----------------------------
(***************************************************************************)
(* The edits of src/lib/edit.ts: each makes a new track.                   *)
(* A track is [coordinates, elevations, waypoints]; a coordinate is        *)
(* [lat, lon, ele] and names, times and the rest of the file are left out. *)
(***************************************************************************)
EXTENDS Geometry

CONSTANTS WaypointCorridor,  \* how far a waypoint may be from the kept line
          WidestTolerance    \* the first, coarsest, tolerance of the search

Rebuild(track, coordinates) == [track EXCEPT !.coordinates = coordinates,
                                             !.elevations = [i \in DOMAIN coordinates |-> coordinates[i].ele]]

WaypointsNear(waypoints, points) ==
    {w \in waypoints : \E i \in DOMAIN points : HaversineDistance(points[i], w) <= WaypointCorridor}

Cut(track, first, last) ==
    LET kept == SubSeq(track.coordinates, first, last)
    IN [Rebuild(track, kept) EXCEPT !.waypoints = WaypointsNear(track.waypoints, kept)]

ReverseTrack(track) == Rebuild(track, Reverse(track.coordinates))

\* Indexes start at 1 here.
TrimTrack(track, a, b) == Cut(track, Max({1, Min({a, b})}), Min({Len(track.coordinates), Max({a, b})}))

SplitTrack(track, i) ==
    LET n == Len(track.coordinates)
        cut == Max({2, Min({n - 1, i})})
    IN <<Cut(track, 1, cut), Cut(track, cut, n)>>

\* A stage ends at the first point that is stageKm past the last end.
SplitIntoStages(track, stageKm) ==
    LET cum == CumulativeKm(track.coordinates)
        n == Len(track.coordinates)
        split[i \in 1 .. n] ==
            IF i = 1 THEN [start |-> 1, stages |-> <<>>]
            ELSE LET before == split[i - 1]
                 IN IF cum[i] >= cum[before.start] + stageKm \/ i = n
                    THEN [start |-> i, stages |-> Append(before.stages, Cut(track, before.start, i))]
                    ELSE before
    IN IF n = 0 \/ stageKm <= 0 \/ cum[n] <= stageKm THEN <<track>> ELSE split[n].stages

JoinTracks(a, b) == [coordinates |-> a.coordinates \o b.coordinates,
                     elevations |-> a.elevations \o b.elevations,
                     waypoints |-> a.waypoints \union b.waypoints]

-----------------------------------------------------------------------------
(* Ramer-Douglas-Peucker *)

SegmentSquare(p, q) == (q.lon - p.lon) * (q.lon - p.lon) + (q.lat - p.lat) * (q.lat - p.lat)

\* Square of the distance of r from the segment, times its scale.
Scale(p, q) == Max({1, SegmentSquare(p, q)})

ScaledSquare(p, q, r) ==
    LET dx == q.lon - p.lon  dy == q.lat - p.lat
        px == r.lon - p.lon  py == r.lat - p.lat
        dot == px * dx + py * dy
        cross == px * dy - py * dx
    IN CASE dot <= 0 -> SegmentSquare(p, r) * Scale(p, q)
         [] dot > 0 /\ dot >= SegmentSquare(p, q) -> SegmentSquare(q, r) * Scale(p, q)
         [] OTHER -> cross * cross

WithinTolerance(p, q, r, tolerance) == ScaledSquare(p, q, r) <= tolerance * tolerance * Scale(p, q)

\* Mutant: the point in the middle is kept instead of the farthest one.
KeepMiddle(points, tolerance) ==
    LET n == Len(points)
        keep[s \in (1 .. n) \X (1 .. n)] ==
            LET a == s[1]  b == s[2]  inner == a + 1 .. b - 1
            IN IF b - a < 2 \/ WithinTolerance(points[a], points[b], points[(a + b) \div 2], tolerance)
               THEN {a, b} ELSE keep[<<a, (a + b) \div 2>>] \union keep[<<(a + b) \div 2, b>>]
    IN IF n < 3 \/ tolerance <= 0 THEN DOMAIN points ELSE keep[<<1, n>>]

\* The indexes that are kept: the farthest point of a span that is out of
\* tolerance splits it.
Kept(points, tolerance) ==
    LET n == Len(points)
        Off(a, b, i) == ScaledSquare(points[a], points[b], points[i])
        keep[s \in (1 .. n) \X (1 .. n)] ==
            LET a == s[1]
                b == s[2]
                inner == a + 1 .. b - 1
                far == Min({i \in inner : \A j \in inner : Off(a, b, j) <= Off(a, b, i)})
            IN IF b - a < 2 \/ WithinTolerance(points[a], points[b], points[far], tolerance)
               THEN {a, b}
               ELSE keep[<<a, far>>] \union keep[<<far, b>>]
    IN IF n < 3 \/ tolerance <= 0 THEN DOMAIN points ELSE keep[<<1, n>>]

SimplifyCoordinates(points, tolerance) ==
    LET kept == SetToSortSeq(Kept(points, tolerance), <)
    IN [k \in DOMAIN kept |-> points[kept[k]]]

\* Bisection over whole tolerances.
SimplifyToMaxPoints(track, maxPoints) ==
    LET points == track.coordinates
        Bisect[s \in (0 .. WidestTolerance) \X (0 .. WidestTolerance)] ==
            LET middle == (s[1] + s[2]) \div 2
            IN IF s[2] - s[1] <= 1 THEN s[2]
               ELSE IF Cardinality(Kept(points, middle)) > maxPoints
                    THEN Bisect[<<middle, s[2]>>] ELSE Bisect[<<s[1], middle>>]
    IN IF Len(points) <= maxPoints THEN track
       ELSE Rebuild(track, SimplifyCoordinates(points, Bisect[<<0, WidestTolerance>>]))

-----------------------------------------------------------------------------
(* Elevation repair *)

WithElevations(track, elevations) ==
    [track EXCEPT !.coordinates = [i \in DOMAIN @ |-> [@[i] EXCEPT !.ele = elevations[i]]],
                  !.elevations = elevations]

SmoothTrackElevation(track, half) ==
    WithElevations(track, SmoothElevations(track.elevations, CumulativeKm(track.coordinates), half))

-----------------------------------------------------------------------------
(* Reference definitions *)

\* The stored elevations are those of the points.
Aligned(track) == track.elevations = [i \in DOMAIN track.coordinates |-> track.coordinates[i].ele]

\* Pieces that share their ends, put together again.
Glued(pieces) ==
    LET line[k \in 1 .. Len(pieces)] ==
            IF k = 1 THEN pieces[1].coordinates ELSE line[k - 1] \o Tail(pieces[k].coordinates)
    IN line[Len(pieces)]

AverageAround(elevations, cum, half, i) ==
    LET near == {j \in DOMAIN elevations : AbsDiff(cum[j], cum[i]) <= half}
    IN IF elevations[i] = {} THEN {}
       ELSE {SumOver(elevations, near) \div Cardinality({j \in near : elevations[j] # {}})}

\* Every point that was dropped is within tolerance of the line that is left.
StaysOnLine(points, kept, tolerance) ==
    \A i \in DOMAIN points \ kept :
       LET before == Max({k \in kept : k < i})
           after == Min({k \in kept : k > i})
       IN WithinTolerance(points[before], points[after], points[i], tolerance)
=============================================================================
