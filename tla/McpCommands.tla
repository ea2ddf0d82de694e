---------------------------- MODULE McpCommands ----------------------------
(***************************************************************************)
(* The commands an agent sends to the page, as src/lib/mcp.ts takes them   *)
(* apart: a command is parsed whole or refused, {} is a refusal.           *)
(* A text is a name; how long it is, and which markers there are, are      *)
(* parameters.                                                             *)
(***************************************************************************)
EXTENDS Wire, FiniteSets

CONSTANTS MostRoute, MostPoints, MostItems,  \* 100, 6000 and 1000
          North, East,                       \* 90 and 180 degrees
          LongTexts,                         \* texts beyond their limit
          Markers,                           \* WAYPOINT_MARKER_IDS
          TrackFiles                         \* bare names of .gpx files

Enum(v, options) == String(v) \cap options

\* A field that may be absent: its reader's answers in a set, {} a refusal.
Optional(v, Read(_)) == IF v = Absent THEN {{}} ELSE {{x} : x \in Read(v)}

Named(v) == {t \in Text(v) : t \notin LongTexts}
Short(v) == {t \in String(v) : t \notin LongTexts}

EditMode(v) == IF v = Absent THEN {"replace"} ELSE Enum(v, {"replace", "append"})

FitView(v) == IF v = Absent THEN {TRUE} ELSE Boolean(v)

Coordinate(v) ==
    {[lat |-> lat, lon |-> lon, ele |-> ele] :
        lat \in {n \in Signed(At(v, "lat")) : n \in -North .. North},
        lon \in {n \in Signed(At(v, "lon")) : n \in -East .. East},
        ele \in Optional(At(v, "elevation"), Signed)}

\* A list of which every member reads, of no more than limit and of least.
Items(v, Read(_), least, limit) ==
    LET list == Elements(v)
    IN IF \/ v.is # "list" \/ Len(list) \notin least .. limit
          \/ \E i \in DOMAIN list : Read(list[i]) = {}
       THEN {}
       ELSE {[i \in DOMAIN list |-> CHOOSE x \in Read(list[i]) : TRUE]}

\* A marker stands for its symbol; both at once is refused.
Waypoint(v) ==
    {p @@ [symbol |-> Else(marker, symbol), name |-> name] :
        p \in Coordinate(v), name \in Optional(At(v, "name"), Short),
        marker \in Optional(At(v, "marker"), LAMBDA m : Enum(m, Markers)),
        symbol \in {s \in Optional(At(v, "sym"), Short) :
                       s = {} \/ At(v, "marker") = Absent}}

MapMarker(v) ==
    {p @@ [marker |-> marker, name |-> name] :
        p \in Coordinate(v), marker \in Enum(At(v, "marker"), Markers),
        name \in Optional(At(v, "name"), Short)}

PoiKinds(v) ==
    {kinds \in Items(v, LAMBDA k : Enum(k, {"fuel", "water", "camp"}), 1, 3) :
        Cardinality(Range(kinds)) = Len(kinds)}

Drawing(a, least, limit) ==
    {[points |-> p, mode |-> m, fitView |-> f] :
        p \in Items(At(a, "points"), Coordinate, least, limit), m \in EditMode(At(a, "mode")),
        f \in FitView(At(a, "fitView"))}

Arguments(name, a) ==
    CASE name = "plan_route" ->
             {d @@ [profile |-> p] : d \in Drawing(a, 0, MostRoute),
                  p \in Optional(At(a, "profile"), LAMBDA v : Enum(v, {"road", "mixed", "trail", "enduro"}))}
      [] name = "draw_track" -> Drawing(a, 1, MostPoints)
      [] name = "draw_map_track" -> Drawing(a, 0, MostPoints)
      [] name = "set_waypoints" ->
             {[target |-> t, mode |-> m, waypoints |-> w] :
                  t \in Enum(At(a, "target"), {"planner", "track"}), m \in EditMode(At(a, "mode")),
                  w \in Items(At(a, "waypoints"), Waypoint, 0, MostItems)}
      [] name = "set_map_markers" ->
             {[markers |-> k, mode |-> m, fitView |-> f] :
                  k \in Items(At(a, "markers"), MapMarker, 0, MostItems), m \in EditMode(At(a, "mode")),
                  f \in FitView(At(a, "fitView"))}
      [] name = "switch_mode" -> {[mode |-> m] : m \in Enum(At(a, "mode"), {"planner", "editor", "explore"})}
      [] name = "set_map_view" ->
             {[lat |-> p.lat, lon |-> p.lon, zoom |-> z] :
                  p \in Coordinate(Obj([lat |-> At(a, "lat"), lon |-> At(a, "lon")])),
                  z \in Optional(At(a, "zoom"), LAMBDA v : Signed(v) \cap 1 .. 20)}
      [] name = "open_track" -> {[filename |-> f] : f \in Named(At(a, "filename")) \cap TrackFiles}
      [] name = "select_track" -> {[index |-> i] : i \in Number(At(a, "index"))}
      [] name = "load_pois" ->
             {[kinds |-> k, scope |-> s] : k \in PoiKinds(At(a, "kinds")),
                  s \in Enum(At(a, "scope"), {"current_view", "current_track"})}
      [] OTHER -> {}

ParseMcpCommand(v) ==
    IF ~IsRecord(At(v, "arguments")) THEN {}
    ELSE {[id |-> id, name |-> name, arguments |-> a] :
             id \in Named(At(v, "id")), name \in Named(At(v, "name")),
             a \in UNION {Arguments(n, At(v, "arguments")) : n \in Named(At(v, "name"))}}
=============================================================================
