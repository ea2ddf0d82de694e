------------------------------ MODULE GpxFile ------------------------------
(***************************************************************************)
(* Reading and writing GPX: src/lib/gpx.ts and src/lib/waypointMarkers.ts. *)
(* A document is [root, name, time, wpt, trk, rte]; a track element has a  *)
(* name and segments, a point is [lat, lon, ele, time] where {} is missing *)
(* or not a number.  The text of the file is left out, and with it the     *)
(* escapes; the rounding of what is written is not.                        *)
(***************************************************************************)
EXTENDS Integers, Sequences, SequencesExt, FiniteSetsExt

CONSTANTS CoordUnit,    \* 0.0000001 degrees: what is written of a coordinate
          HeightUnit,   \* 0.01 m: what is written of an elevation
          SymbolOf,     \* marker id -> its gpxSymbol
          Aliases       \* marker id -> the symbols it is known by, in lower case

\* To the nearest multiple; a half goes away from zero.
Nearest(n, unit) ==
    LET Up(k) == ((k + unit \div 2) \div unit) * unit
    IN IF n < 0 THEN -Up(-n) ELSE Up(n)

Coord(n) == Nearest(n, CoordUnit)

Height(ele) == {Nearest(n, HeightUnit) : n \in ele}

The(field) == CHOOSE value \in field : TRUE

ParsePoint(el) == IF el.lat = {} \/ el.lon = {} THEN <<>>
                  ELSE <<[lat |-> The(el.lat), lon |-> The(el.lon), ele |-> el.ele, time |-> el.time]>>

ParsePoints(list) ==
    LET read[i \in 0 .. Len(list)] == IF i = 0 THEN <<>> ELSE read[i - 1] \o ParsePoint(list[i])
    IN read[Len(list)]

\* Segments of one track are put together.
PointsOf(el) ==
    LET read[s \in 0 .. Len(el.segments)] ==
            IF s = 0 THEN <<>> ELSE read[s - 1] \o ParsePoints(el.segments[s])
    IN read[Len(el.segments)]

ParseWaypoints(list) ==
    LET points == ParsePoints(list)
    IN [i \in DOMAIN points |-> [lat |-> points[i].lat, lon |-> points[i].lon, ele |-> points[i].ele]]

\* The name of the element, of the file, or a number; {} is none.
NameFor(el, doc, number) == IF el.name # {} THEN el.name ELSE IF doc.name # {} THEN doc.name ELSE {number}

\* An element without points is left out; a track that has no time of the
\* file has that of its first point.
ToTrack(out, el, doc, isRoute) ==
    LET points == PointsOf(el)
    IN IF points = <<>> THEN out
       ELSE Append(out, [name |-> NameFor(el, doc, Len(out) + 1), coordinates |-> points,
                         elevations |-> [i \in DOMAIN points |-> points[i].ele],
                         waypoints |-> ParseWaypoints(doc.wpt), isRoute |-> isRoute,
                         time |-> IF doc.time # {} \/ isRoute THEN doc.time ELSE points[1].time])

\* The tracks and then the routes; {} is a document that is refused.
ParseGPX(doc) ==
    LET n == Len(doc.trk)
        tracks[k \in 0 .. n + Len(doc.rte)] ==
            CASE k = 0 -> <<>>
              [] k \in 1 .. n -> ToTrack(tracks[k - 1], doc.trk[k], doc, FALSE)
              [] OTHER -> ToTrack(tracks[k - 1], doc.rte[k - n], doc, TRUE)
    IN IF doc.root # "gpx" THEN {} ELSE {tracks[n + Len(doc.rte)]}

\* Mutant: what was interpolated is written like what was measured.
BuildGPXWithGuesses(track, guessed, now) ==
    LET Point(c, time) == [lat |-> {Coord(c.lat)}, lon |-> {Coord(c.lon)}, ele |-> Height(c.ele), time |-> time]
        points == [i \in DOMAIN track.coordinates |-> Point(track.coordinates[i], track.coordinates[i].time)]
    IN [root |-> "gpx", name |-> track.name, time |-> IF track.time = {} THEN {now} ELSE track.time,
        wpt |-> [i \in DOMAIN track.waypoints |-> Point(track.waypoints[i], {})],
        trk |-> <<[name |-> track.name, segments |-> <<points>>]>>, rte |-> <<>>]

\* One track of one segment, with the time of the track or that of now.
BuildGPX(track, guessed, now) ==
    LET Point(c, ele, time) == [lat |-> {Coord(c.lat)}, lon |-> {Coord(c.lon)}, ele |-> Height(ele), time |-> time]
        Waypoint(w) == Point(w, w.ele, {})
        Measured(i) == IF i \in guessed THEN {} ELSE track.coordinates[i].ele
        points == [i \in DOMAIN track.coordinates |->
                      Point(track.coordinates[i], Measured(i), track.coordinates[i].time)]
    IN [root |-> "gpx", name |-> track.name, time |-> IF track.time = {} THEN {now} ELSE track.time,
        wpt |-> [i \in DOMAIN track.waypoints |-> Waypoint(track.waypoints[i])],
        trk |-> <<[name |-> track.name, segments |-> <<points>>]>>, rte |-> <<>>]

-----------------------------------------------------------------------------
(* Names: sequences of characters, each "upper", "lower", "accent",        *)
(* "digit", "hyphen", "underscore" or "other"                              *)

\* Letters lose case and accents, digits stay, everything else is one hyphen
\* between two of them.
ToGpxFilename(name) ==
    LET Plain(c) == IF c \in {"upper", "lower", "accent"} THEN "lower" ELSE IF c = "digit" THEN c ELSE "hyphen"
        Write(out, c) == IF Plain(c) = "hyphen" /\ (out = <<>> \/ Last(out) = "hyphen") THEN out
                         ELSE Append(out, Plain(c))
        slug == FoldLeft(Write, <<>>, name)
    IN IF slug # <<>> /\ Last(slug) = "hyphen" THEN Front(slug) ELSE slug

\* A hyphen between digits stays; other separators are one blank each.
FromGpxFilename(stem) ==
    LET n == Len(stem)
        Digit(i) == i \in 1 .. n /\ stem[i] = "digit"
        Read(i) == CASE stem[i] \in {"underscore", "other"} -> "blank"
                     [] stem[i] = "hyphen" -> IF Digit(i - 1) /\ Digit(i + 1) THEN "hyphen" ELSE "blank"
                     [] OTHER -> stem[i]
        Write(out, i) == IF Read(i) = "blank" /\ (out = <<>> \/ Last(out) = "blank") THEN out
                         ELSE Append(out, Read(i))
        title == FoldLeft(Write, <<>>, [i \in 1 .. n |-> i])
        trimmed == IF title # <<>> /\ Last(title) = "blank" THEN Front(title) ELSE title
    IN IF trimmed = <<>> THEN stem
       ELSE IF trimmed[1] = "lower" THEN <<"upper">> \o Tail(trimmed) ELSE trimmed

\* No symbol is a generic waypoint, one that is not known is none.
MarkerIdFromSymbol(symbol) ==
    IF symbol = "" THEN {"generic"} ELSE {id \in DOMAIN SymbolOf : symbol \in Aliases[id]}
=============================================================================
