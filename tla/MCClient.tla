------------------------------ MODULE MCClient ------------------------------
(***************************************************************************)
(* The client side for TLC: the questions that are put to the library's     *)
(* functions.                                                              *)
(***************************************************************************)
EXTENDS Client, SequencesExt, TLC

CONSTANT PackLimit   \* tiles the server takes for one pack

-----------------------------------------------------------------------------
(* The values of the client's constants that no .cfg can write *)

Place(id, lat, lon, category) == [id |-> id, lat |-> lat, lon |-> lon, category |-> category]
\* The last two are across the date line from each other.
Places == {Place(1, 1, 1, "water"), Place(2, 3, 2, "hut"), Place(3, 2, 5, "camp"), Place(4, 0, 0, "none"),
           Place(5, 3, 8, "fuel"), Place(6, 2, -7, "hut")}
Around == {[lat |-> 2, lon |-> 2], [lat |-> 1, lon |-> 1], [lat |-> 3, lon |-> 4], [lat |-> 2, lon |-> 7]}

\* The service knows nothing of every fifth point.
Ground(i) == IF i % 5 = 0 THEN {} ELSE {(i * i) % 7}

Complaints == {[text |-> "miss", expected |-> TRUE], [text |-> "broken", expected |-> FALSE]}

\* Spain has a region, Portugal none; Portugal is too large for one pack.
Region(id, kind, parent) == [id |-> id, kind |-> kind, parent |-> parent, known |-> TRUE]
Iberia == {Region("es", "country", ""), Region("ar", "region", "es"), Region("pt", "country", "")}
Grids == [a \in {"es", "ar", "pt", "pt:1", "town"} |-> IF a = "pt" THEN {"pt:1"} ELSE {}]

Commands == INSTANCE McpCommands WITH
    MostRoute <- 2, MostPoints <- 3, MostItems <- 2, North <- 90, East <- 180, LongTexts <- {"long"},
    Markers <- {"fuel", "camp"}, TrackFiles <- {"track.gpx"}

-----------------------------------------------------------------------------
(* Questions to the library *)

Selections == [south : {0, 3}, north : {7, 16}, west : {-8, -3, 5}, east : {-6, 2, 7}]

\* Regions of a catalogue overlap and leave gaps; of the second country each fits one
\* pack, or two halves of one.
Box(south, west, north, east) == Plans!Piece([south |-> south, west |-> west, north |-> north, east |-> east])
CatalogueParts == {<<Box(3, -8, 9, -2), Box(5, -3, 16, 7)>>, <<Box(3, -8, 7, -6), Box(5, -3, 9, 0)>>}

Downloads == {area \in [bounds : Selections, parts : {<<>>} \union CatalogueParts] :
                 \A k \in DOMAIN area.parts : Plans!CoversBounds(area.bounds, area.parts[k].bounds)}

AreaQuestions == {[about |-> "area", area |-> area, limit |-> PackLimit] : area \in Downloads}

\* The packs of a plan, one of them with its maps not whole; none has terrain, and of
\* places half a pack is there.
Report(done, total) == [done |-> done, total |-> total, failed |-> 0, present |-> total > 0, unavailable |-> total = 0]
Reports == [maps |-> Report(2, 2), terrain |-> Report(0, 0), places |-> Report(1, 1)]

Damage(packs, kind) ==
    {CASE p.id # 1 \/ kind = "none" -> p
       [] p.id = 1 /\ kind = "failed" ->
              [p EXCEPT !.progress["maps"].failed = 1, !.detail = "resource_failures", !.incomplete = TRUE]
       [] OTHER -> [p EXCEPT !.progress["maps"].done = 0, !.status = "running"] : p \in packs}

PackQuestions == UNION {{[about |-> "packs", area |-> area, group |-> group, packs |-> Damage(Plans!PacksOf(plan, Reports), kind)] :
                            plan \in Plans!StartPlans(area, PackLimit),
                            group \in {"maps", "terrain", "places"}, kind \in {"none", "failed", "running"}} : area \in Downloads}

Stops(kms) == LET order == SetToSortSeq(kms, <) IN [k \in DOMAIN order |-> [km |-> order[k]]]
\* A tank of 4 with 1 in reserve, one without reserve, and settings to be mended.
Tanks == {[range |-> {4}, reserve |-> {25}], [range |-> {3}, reserve |-> {0}], [range |-> {1}, reserve |-> {-1}]}
FuelQuestions == {[about |-> "fuel", total |-> 10, stops |-> Stops(kms), input |-> tank] :
                     kms \in SUBSET {0, 2, 3, 5, 6, 9}, tank \in Tanks}

Track(lats, known) ==
    LET point == [i \in DOMAIN lats |-> [lat |-> lats[i], lon |-> 2 * i - 6, time |-> IF i = 2 THEN {"noon"} ELSE {},
                                         ele |-> IF i \in known THEN {lats[i] + i} ELSE {}]]
    IN [coordinates |-> point, elevations |-> [i \in DOMAIN lats |-> point[i].ele], waypoints |-> {[lat |-> 0, lon |-> -2]}]
EditQuestions == {[about |-> "edit", track |-> Track(lats, known), at |-> i, stage |-> 3, half |-> 2, tolerance |-> t] :
                     lats \in [1 .. 5 -> {0, 3}], known \in {1 .. 5, {1, 2, 4}}, i \in {2, 4}, t \in {1, 2}}

Tags(highway, motorcycle, access) ==
    {[highway |-> highway, motorcycle |-> motorcycle, motor_vehicle |-> "", vehicle |-> "", access |-> access]}
Roads == {{}, Tags("path", "", "yes"), Tags("road", "private", ""), Tags("road", "yes", "no")}
\* With or without the second of three segments.
RoadSpans(roads, whole) == LET all == Backend!LocateSegmentRoads(roads) IN IF whole THEN all ELSE <<all[1], all[3]>>
RoadQuestions == {[about |-> "roads", spans |-> RoadSpans(roads, whole), way |-> <<0, 3, 5, 9>>] :
                     roads \in [1 .. 3 -> Roads], whole \in BOOLEAN}

Hut == [lat |-> -15, lon |-> 8, ele |-> {203}]
GpxQuestions == {[about |-> "gpx", guessed |-> guessed, now |-> "today",
                  track |-> [name |-> name, time |-> time, waypoints |-> <<Hut>>,
                             coordinates |-> Track(<<11, -25, 37, 40>>, known).coordinates]] :
                    guessed \in SUBSET {2, 3, 4}, known \in {1 .. 4, {1, 4}, {}}, name \in {{}, {"ride"}}, time \in {{}, {"then"}}}

LineQuestions == {[about |-> "line", colors |-> colors] : colors \in [1 .. 5 -> {"steep", "flat", "no data"}]}
CardQuestions == {[about |-> "card", points |-> <<[x |-> a, y |-> b], [x |-> c, y |-> d]>>] :
                     a \in {0, 1}, b \in {0, 1, 2}, c \in {1, 3}, d \in {2, 3}}

Config(fields) == Backend!Obj([offline |-> Backend!Obj(fields)])
ConfigBodies == {Backend!Null, Backend!Txt("<html>"), Config([enabled |-> Backend!Flag(TRUE), mode |-> Backend!Txt("auto")])}
ConfigQuestions == {[about |-> "config", base |-> base, embedded |-> embedded, reply |-> [state |-> state, body |-> body]] :
                       base \in {"", "/api"}, embedded \in {"", "auto", "cache-only"},
                       state \in {"ok", "refused", "unreadable", "down", "aborted"}, body \in ConfigBodies}

LibraryQuestions == UNION {AreaQuestions, PackQuestions, FuelQuestions, EditQuestions, RoadQuestions, GpxQuestions, LineQuestions,
                    CardQuestions, ConfigQuestions}

=============================================================================
