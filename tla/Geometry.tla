------------------------------ MODULE Geometry ------------------------------
(***************************************************************************)
(* Points of a track on a chart of integer coordinates whose longitudes    *)
(* run from -Half to Half and meet there, and the measures that            *)
(* src/lib/geo.ts takes of them.  Only that the distance is a metric that  *)
(* goes the shorter way round matters to the callers; here it is the       *)
(* larger of the two differences.  The chart has no meridians that meet at *)
(* a pole.  An elevation is a set: {} where it is not known.               *)
(***************************************************************************)
EXTENDS Integers, Sequences, SequencesExt, FiniteSetsExt

CONSTANT Half   \* 180 degrees

AbsDiff(a, b) == IF a < b THEN b - a ELSE a - b

\* The difference of two longitudes, across the date line where that is shorter.
LonDiff(a, b) == Min({AbsDiff(a, b), AbsDiff(AbsDiff(a, b), 2 * Half)})

HaversineDistance(p, q) == Max({AbsDiff(p.lat, q.lat), LonDiff(p.lon, q.lon)})

\* cum[i]: the way from the first point to point i.
CumulativeKm(points) ==
    LET cum[i \in 1 .. Len(points)] ==
            IF i = 1 THEN 0 ELSE cum[i - 1] + HaversineDistance(points[i - 1], points[i])
    IN cum

\* The elevations at some of the points, summed up.
SumOver(elevations, points) ==
    LET sum[i \in 0 .. Len(elevations)] ==
            IF i = 0 THEN 0
            ELSE sum[i - 1] + IF i \in points /\ elevations[i] # {} THEN CHOOSE e \in elevations[i] : TRUE ELSE 0
    IN sum[Len(elevations)]

\* Moves the window to point i: hi goes to the first point beyond it, lo to
\* the first one in it; what is passed is added and taken off.
Slide(elevations, cum, half, w, i) ==
    LET n == Len(elevations)
        hi == Min({k \in w.hi .. n : cum[k] > cum[i] + half} \union {n + 1})
        lo == Min({k \in w.lo .. hi - 1 : cum[k] >= cum[i] - half} \union {hi})
        Known(points) == Cardinality({j \in points : elevations[j] # {}})
    IN [lo |-> lo, hi |-> hi,
        sum |-> w.sum + SumOver(elevations, w.hi .. hi - 1) - SumOver(elevations, w.lo .. lo - 1),
        count |-> w.count + Known(w.hi .. hi - 1) - Known(w.lo .. lo - 1)]

\* Running average over a window that slides along the track.
SmoothElevations(elevations, cum, half) ==
    LET slid[i \in 0 .. Len(elevations)] ==
            IF i = 0 THEN [lo |-> 1, hi |-> 1, sum |-> 0, count |-> 0]
            ELSE Slide(elevations, cum, half, slid[i - 1], i)
    IN [i \in DOMAIN elevations |->
           IF elevations[i] = {} \/ slid[i].count <= 0 THEN elevations[i] ELSE {slid[i].sum \div slid[i].count}]

\* Gain and loss with hysteresis: only a reversal has to clear the noise.
ElevationStats(elevations, noise) ==
    LET Up(s, e) == [s EXCEPT !.gain = @ + e - s.ref, !.ref = e, !.direction = 1]
        Down(s, e) == [s EXCEPT !.loss = @ + s.ref - e, !.ref = e, !.direction = -1]
        Step(s, e) ==
            LET d == e - s.ref
            IN CASE s.ref = -1 -> [s EXCEPT !.ref = e]
                 [] s.ref # -1 /\ (d >= noise \/ (s.direction = 1 /\ d > 0)) -> Up(s, e)
                 [] s.ref # -1 /\ (d <= -noise \/ (s.direction = -1 /\ d < 0)) -> Down(s, e)
                 [] OTHER -> s
        known == SelectSeq(elevations, LAMBDA e : e # {})
    IN FoldLeft(LAMBDA s, e : Step(s, Max(e)), [ref |-> -1, direction |-> 0, gain |-> 0, loss |-> 0], known)

\* Steps of the points that carry a time: [t, p].  A step of no time counts
\* towards the way and nothing else; speeds of limit and more are glitches.
TimeStats(stamped, moving, limit) ==
    LET n == Len(stamped)
        Dt(i) == stamped[i].t - stamped[i - 1].t
        Dm(i) == HaversineDistance(stamped[i - 1].p, stamped[i].p)
        timed == {i \in 2 .. n : Dt(i) > 0}
        riding == {i \in timed : Dm(i) >= moving * Dt(i)}
        plausible == {i \in timed : Dm(i) > 0 /\ Dm(i) < limit * Dt(i)}
    IN IF n < 2 THEN {}
       ELSE {[total |-> stamped[n].t - stamped[1].t,
              moving |-> MapThenSumSet(Dt, riding),
              movingWay |-> MapThenSumSet(Dm, riding),
              way |-> MapThenSumSet(Dm, 2 .. n),
              fastest |-> {i \in plausible : \A j \in plausible : Dm(j) * Dt(i) <= Dm(i) * Dt(j)}]}

\* The longest stretch without any of the pois, and where it starts.
LongestGap(points, cum, pois, corridor) ==
    LET near == {i \in DOMAIN points : \E p \in pois : HaversineDistance(points[i], p) <= corridor}
        hits == {0, cum[Len(points)]} \union {cum[i] : i \in near}
        Next(h) == Min({g \in hits : g > h})
        starts == hits \ {Max(hits)}
        gap == Max({Next(h) - h : h \in starts})
    IN IF points = <<>> \/ starts = {} THEN [gap |-> 0, at |-> 0]
       ELSE [gap |-> gap, at |-> Min({h \in starts : Next(h) - h = gap})]
=============================================================================
