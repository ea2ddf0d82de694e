------------------------------ MODULE Replies ------------------------------
(***************************************************************************)
(* What the page makes of the backend's answers (src/lib/offline.ts and    *)
(* the decoders of offlineRegions.ts, routing.ts and geocoding.ts), and    *)
(* the policy that decides where a request goes.                           *)
(***************************************************************************)
EXTENDS Wire, TrackReport

CONSTANTS Services, Rasters,   \* SERVICE_KEYS, RASTER_KEYS
          AbsoluteUrls,        \* endpoints that name their host
          Latitude, Longitude  \* the largest of each

Only(keys, f) == [k \in {key \in keys : f[key] # {}} |-> CHOOSE x \in f[k] : TRUE]

-----------------------------------------------------------------------------
(* Runtime configuration and transport *)

ResolveApiUrl(endpoint, base) == IF endpoint \in AbsoluteUrls THEN <<"", endpoint>> ELSE <<base, endpoint>>

Endpoint(v, base) == {ResolveApiUrl(t, base) : t \in Text(v)}

DecodeRuntimeConfig(root, base) ==
    LET offline == At(root, "offline")
        maps == At(root, "maps")
        style == At(maps, "openfreemap")
    IN [services |-> Only(Services, [k \in Services |-> Endpoint(At(At(root, "services"), k), base)]),
        raster |-> Only(Rasters, [k \in Rasters |-> Endpoint(At(At(maps, "raster"), k), base)]),
        style |-> Endpoint(At(style, "style"), base),
        allowBulk |-> Or(Boolean(At(style, "allowBulk")), FALSE),
        offline |-> IF ~IsTrue(At(offline, "enabled")) THEN {}
                    ELSE {[mode |-> IF Text(At(offline, "mode")) = {"cache-only"} THEN "cache-only" ELSE "auto",
                           modeControl |-> Endpoint(At(offline, "modeControl"), base),
                           routing |-> Endpoint(At(offline, "routing"), base),
                           operator |-> Or(Boolean(At(offline, "operator")), TRUE)]}]

Embedded(mode, base) ==
    DecodeRuntimeConfig(Obj([offline |-> Obj([enabled |-> Flag(TRUE), mode |-> Txt(mode)])]), base)

\* The mode the server rendered into the page; a configured backend that has
\* not answered yet fails closed.
BootstrapRuntimeConfig(base, embedded) ==
    CASE embedded \in {"auto", "cache-only"} -> Embedded(embedded, base)
      [] embedded \notin {"auto", "cache-only"} /\ base # "" -> Embedded("cache-only", base)
      [] OTHER -> DecodeRuntimeConfig(Null, base)

\* Mutant: an answer that is not a config is read like one.
LoadsWhatever(reply, base, fallback) == {DecodeRuntimeConfig(reply.body, base)}

\* reply.state is "ok", "refused", "unreadable", "down" or "aborted".
LoadRuntimeConfig(reply, base, fallback) ==
    CASE reply.state = "ok" -> {DecodeRuntimeConfig(reply.body, base)}
      [] reply.state = "aborted" -> {}
      [] OTHER -> {Or(fallback, DecodeRuntimeConfig(Null, base))}

CacheOnly(runtime) == \E o \in runtime.offline : o.mode = "cache-only"

SelectRuntimeTransport(runtime, service) ==
    CASE service \in DOMAIN runtime.services -> "backend"
      [] service \notin DOMAIN runtime.services /\ CacheOnly(runtime) -> "unavailable"
      [] OTHER -> "direct"

\* One request, or none; what went wrong there is not tried elsewhere.
FetchRuntimeService(runtime, service, answers) ==
    LET transport == SelectRuntimeTransport(runtime, service)
    IN IF transport = "unavailable" THEN [asked |-> {}, result |-> "cache miss"]
       ELSE [asked |-> {transport}, result |-> answers[transport]]

\* The elevation service asks its own backend first and, unless that one is
\* managed, a configured direct service next.
FetchElevationChunk(runtime, direct, answers) ==
    LET managed == runtime.offline # {}
        backend == answers["backend"]
    IN CASE backend \in {"ok", "aborted"} -> [asked |-> {"backend"}, result |-> backend]
         [] backend \notin {"ok", "aborted"} /\ (managed \/ ~direct) ->
                [asked |-> {"backend"}, result |-> "error"]
         [] OTHER -> [asked |-> {"backend", "direct"}, result |-> answers["direct"]]

\* The layers that may be drawn: cache-only shows what the backend serves.
RuntimeTerrainLayers(runtime, layers) ==
    LET own == [openfreemap |-> runtime.style # {}, osm |-> "osm" \in DOMAIN runtime.raster,
                topo |-> "opentopo" \in DOMAIN runtime.raster,
                cyclosm |-> "cyclosm" \in DOMAIN runtime.raster]
        Served(l) == l \in DOMAIN own /\ own[l]
    IN IF CacheOnly(runtime) THEN [l \in {k \in layers : Served(k)} |-> "backend"]
       ELSE [l \in layers |-> IF Served(l) THEN "backend" ELSE "direct"]

RuntimeHillshadeLayer(runtime) == IF CacheOnly(runtime) THEN {} ELSE {"direct"}

GetThumbnailLayer(layers, id, raster) ==
    CASE id \notin DOMAIN layers -> "empty" [] id \in raster -> id [] OTHER -> "fallback"

-----------------------------------------------------------------------------
(* Storage, packs and routing *)

ParseCacheMetadata(state, cachedAt, age) ==
    IF state = "" THEN {}
    ELSE {[state |-> state, cachedAt |-> cachedAt, age |-> {a \in age : a >= 0}, stale |-> state = "stale"]}

ResponseError(body, fallback) ==
    LET code == Text(At(body, "code"))
    IN CASE code = {"offline_cache_miss"} -> "cache miss"
         [] code = {"pack_too_large"} -> "too large"
         [] OTHER -> Or(Text(At(body, "detail")), fallback)

ValidPackBounds(b) ==
    /\ b.south >= -Latitude /\ b.north <= Latitude /\ b.south < b.north
    /\ {b.west, b.east} \subseteq -Longitude .. Longitude /\ b.west # b.east

Corners(v) ==
    LET Corner(k) == At(v, k)
    IN IF \E k \in {"south", "west", "north", "east"} : Corner(k).is # "number" THEN {}
       ELSE {[south |-> Corner("south").number, west |-> Corner("west").number,
              north |-> Corner("north").number, east |-> Corner("east").number]}

DecodePackBounds(v) == {b \in Corners(v) : ValidPackBounds(b)}

DecodeScope(v) == IF IsRecord(v)
                  THEN {[bytes |-> Number(At(v, "bytes")),
                         entries |-> Else(Number(At(v, "entries")),
                                          Else(Number(At(v, "files")), Number(At(v, "tiles"))))]}
                  ELSE {}

DecodeScopes(v) == DecodeEntries(DecodeScope, v)

DecodePackResources(v) ==
    LET Decode(p) == IF IsRecord(p)
                     THEN {[done |-> Or(Number(At(p, "done")), 0), total |-> Or(Number(At(p, "total")), 0),
                            failed |-> Or(Else(Number(At(p, "failed")), Number(At(p, "failures"))), 0)]}
                     ELSE {}
    IN DecodeEntries(Decode, v)

DecodeProvider(v) ==
    LET open == Boolean(At(v, "circuitOpen"))
        failures == Number(At(v, "failures"))
    IN IF ~IsRecord(v) THEN {}
       ELSE {[healthy |-> Else(Boolean(At(v, "healthy")), {~o : o \in open}),
              available |-> Else(Boolean(At(v, "available")), {~o : o \in open}),
              state |-> Else(Else(Text(At(v, "state")), Text(At(v, "status"))),
                             IF open = {TRUE} THEN {"circuit open"}
                             ELSE IF \E n \in failures : n > 0 THEN {"degraded"} ELSE {})]}

DecodeJob(v) ==
    LET progress == At(v, "progress")
    IN {[id |-> id, name |-> Text(At(v, "name")),
         status |-> Or(Else(Text(At(v, "status")), Text(At(v, "state"))), "unknown"),
         done |-> Else(Else(Number(At(v, "done")), Number(At(v, "completed"))),
                       Else(Number(At(progress, "done")), Number(At(progress, "completed")))),
         total |-> Else(Number(At(v, "total")), Number(At(progress, "total"))),
         detail |-> Else(Text(At(v, "detail")), Text(At(v, "error")))] : id \in Text(At(v, "id"))}

DecodeOfflineStatus(root) ==
    [mode |-> IF Text(At(root, "mode")) = {"cache-only"} THEN "cache-only" ELSE "auto",
     bytes |-> Number(At(root, "bytes")), maxBytes |-> Number(At(root, "maxBytes")),
     scopes |-> DecodeScopes(At(root, "scopes")),
     providers |-> DecodeEntries(DecodeProvider, At(root, "providers")),
     jobs |-> FlatMap(DecodeJob, Elements(At(root, "jobs")))]

DecodeBlocked(v) == {[reason |-> reason, resource |-> Text(At(v, "resource")), layer |-> Text(At(v, "layer"))] :
                        reason \in Text(At(v, "reason"))}

DecodePack(v) ==
    {job @@ [kind |-> Text(At(v, "coverageKind")) \cap {"area", "city", "region", "country"},
             unavailable |-> FlatMap(DecodeBlocked, Elements(At(v, "unavailable"))),
             bbox |-> DecodePackBounds(At(v, "bbox")),
             updated |-> Text(At(v, "updatedAt")),
             incomplete |-> Or(Boolean(At(v, "incomplete")), job.status = "incomplete"),
             resources |-> DecodePackResources(At(v, "resources"))] : job \in DecodeJob(v)}

\* Of a list, or of an object that has it.
DecodePacks(v) == FlatMap(DecodePack, IF v.is = "list" THEN v.list ELSE Elements(At(v, "packs")))

DecodePackEstimate(root) ==
    [resources |-> Else(Number(At(root, "resources")),
                        Else(Number(At(root, "resourceCount")), Number(At(root, "estimatedResources")))),
     bytes |-> Else(Number(At(root, "bytes")), Number(At(root, "estimatedBytes"))),
     quota |-> Else(Number(At(root, "quotaRemaining")),
                    Else(Number(At(root, "remainingQuota")), Number(At(At(root, "quota"), "remaining")))),
     counts |-> DecodeEntries(Number, At(root, "counts")),
     blocked |-> FlatMap(DecodeBlocked, Elements(At(root, "blocked"))),
     scopes |-> DecodeScopes(At(root, "scopes"))]

DecodeRoutingDataStatus(root) ==
    LET Cached(v) == {[region |-> id, generation |-> generation, selected |-> IsTrue(At(v, "selected")),
                       pinned |-> IsTrue(At(v, "pinned"))] :
                          id \in Text(At(v, "regionId")), generation \in Text(At(v, "generationId"))}
        job == At(root, "job")
    IN [enabled |-> IsTrue(At(root, "enabled")), ready |-> IsTrue(At(root, "ready")),
        region |-> Text(At(root, "regionId")), generation |-> Text(At(root, "generationId")),
        job |-> {[id |-> id, region |-> region, state |-> Or(Text(At(job, "state")), "unknown"),
                  done |-> Number(At(job, "done")), total |-> Number(At(job, "total")),
                  retrying |-> IsTrue(At(job, "retrying"))] :
                     id \in Text(At(job, "id")), region \in Text(At(job, "regionId"))},
        cached |-> FlatMap(Cached, Elements(At(root, "cached"))),
        cacheBytes |-> Or(Number(At(root, "cacheBytes")), 0)]

\* An answer of 200 that cannot be read counts as online.
SetRuntimeOfflineMode(reply) ==
    IF reply.state \notin {"ok", "unreadable"} THEN {}
    ELSE {IF reply.state = "ok" /\ Text(At(reply.body, "mode")) = {"cache-only"} THEN "cache-only" ELSE "auto"}

DecodeRoutingRegions(root) ==
    LET Region(v) == {[id |-> id, name |-> name, parent |-> Text(At(v, "parent")),
                       kind |-> Or(Text(At(v, "kind")) \cap {"continent", "country"}, "region"),
                       bbox |-> Corners(At(v, "bbox")),
                       installed |-> IsTrue(At(v, "installed")), active |-> IsTrue(At(v, "active"))] :
                          id \in String(At(v, "id")), name \in String(At(v, "name"))}
    IN [regions |-> FlatMap(Region, Elements(At(root, "regions"))),
        cachedOnly |-> IsTrue(At(root, "cachedOnly"))]

-----------------------------------------------------------------------------
(* Routes and places: one bad part of a route refuses all of it, a bad     *)
(* place is left out                                                       *)

Within(v, limit) == v.is = "number" /\ v.number \in -limit .. limit

DecodePoint(v, elevation) ==
    IF \/ ~Within(At(v, "lat"), Longitude \div 2) \/ ~Within(At(v, "lon"), Longitude)
       \/ elevation.is # "null" /\ (At(elevation, "meters").is # "number" \/ At(elevation, "interpolated").is # "flag")
    THEN {}
    ELSE {[lat |-> At(v, "lat").number, lon |-> At(v, "lon").number,
           ele |-> IF elevation.is = "null" THEN {} ELSE {At(elevation, "meters").number}]}

RoadOf(v) == IF IsRecord(v) THEN {[k \in {"highway"} \union Range(AccessKeys) |-> Or(Text(At(v, k)), "")]} ELSE {}

\* Later segments write over earlier ones.
DecodeBroomRoute(root) ==
    LET points == Elements(At(root, "coordinates"))
        n == Len(points)
        elevations == Elements(At(root, "elevations"))
        segments == Elements(At(root, "segments"))
        From(s) == At(s, "geometryStart")
        To(s) == At(s, "geometryEnd")
        aligned == \A k \in DOMAIN segments :
                      /\ From(segments[k]).is = "number" /\ To(segments[k]).is = "number"
                      /\ From(segments[k]).number >= 0 /\ To(segments[k]).number < n
                      /\ From(segments[k]).number <= To(segments[k]).number
        Of(i) == {k \in DOMAIN segments : From(segments[k]).number < i /\ i <= To(segments[k]).number}
        Annotated(i) == segments[Max(Of(i))]
        road(i) == Of(i) # {} /\ ~IsTrue(At(Annotated(i), "beeline"))
    IN IF \/ At(root, "schemaVersion") # Num(1) \/ n < 2 \/ Len(elevations) # n
          \/ At(root, "segments").is # "list" \/ ~aligned
          \/ \E i \in 1 .. n : DecodePoint(points[i], elevations[i]) = {}
       THEN {}
       ELSE {[coordinates |-> [i \in 1 .. n |-> CHOOSE p \in DecodePoint(points[i], elevations[i]) : TRUE],
              surface |-> [i \in 1 .. n - 1 |->
                              IF road(i) THEN ClassifySurface(Or(Text(At(Annotated(i), "surface")), "none"))
                              ELSE "unknown"],
              roads |-> [i \in 1 .. n - 1 |-> IF road(i) THEN RoadOf(At(Annotated(i), "road")) ELSE {}],
              duration |-> Signed(At(root, "durationSeconds"))]}

ParsePlaceResult(v) ==
    LET box == Elements(At(v, "boundingbox"))
        bounded == /\ Len(box) = 4 /\ \A i \in {1, 2} : Within(box[i], Longitude \div 2)
                   /\ \A i \in {3, 4} : Within(box[i], Longitude)
                   /\ box[1].number < box[2].number /\ box[3].number # box[4].number
    IN IF /\ \E id \in Number(At(v, "place_id")) : id > 0
          /\ Text(At(v, "display_name")) # {}
          /\ Within(At(v, "lat"), Longitude \div 2) /\ Within(At(v, "lon"), Longitude)
       THEN {[lat |-> At(v, "lat").number, lon |-> At(v, "lon").number,
              bounds |-> IF bounded THEN {[i \in 1 .. 4 |-> box[i].number]} ELSE {}]}
       ELSE {}

\* What the page relies on in a route it was given.
RouteAligned(route) ==
    /\ Len(route.surface) = Len(route.coordinates) - 1
    /\ Len(route.roads) = Len(route.coordinates) - 1
    /\ \A i \in DOMAIN route.roads : route.roads[i] = {} => ClassifyAccess(route.roads[i]).id = "unknown"
=============================================================================
