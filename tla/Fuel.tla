-------------------------------- MODULE Fuel --------------------------------
(***************************************************************************)
(* Fuel stations: the official prices of src/lib/fuel.ts, and the data set *)
(* that is downloaded once and shared by every caller.                     *)
(*                                                                         *)
(* A raw field is a set: {} when it is missing or not a number.            *)
(***************************************************************************)
EXTENDS Geometry, Functions

CONSTANTS Labels,     \* the fuels of PRICE_FIELDS
          BandCount,  \* bands of FUEL_PRICE_BANDS
          Callers, Keys

VARIABLES cached, inflight, caller

fuelVars == <<cached, inflight, caller>>

-----------------------------------------------------------------------------
(* Prices *)

\* The band of each price by its rank, counting what is strictly cheaper.
PriceBands(values) ==
    LET n == Len(values)
        Cheaper(v) == Cardinality({i \in DOMAIN values : values[i] < v})
        level == \A i, j \in DOMAIN values : values[i] = values[j]
    IN [i \in DOMAIN values |->
           IF level THEN (BandCount - 1) \div 2
           ELSE Min({BandCount - 1, (Cheaper(values[i]) * BandCount) \div (n - 1)})]

\* A station sells the fuels in the domain of its prices.
FuelBandColors(pois, reference) ==
    LET priced == SelectSeq(pois, LAMBDA p : reference \in DOMAIN p.prices)
        bands == PriceBands([i \in DOMAIN priced |-> priced[i].prices[reference]])
        Colour(id) == LET at == {i \in DOMAIN priced : priced[i].id = id}
                      IN IF at = {} THEN "no price" ELSE bands[Max(at)]
    IN IF priced = <<>> THEN <<>>
       ELSE [id \in {pois[i].id : i \in DOMAIN pois} |-> Colour(id)]

AvailableFuels(pois) == Labels \cap UNION {DOMAIN pois[i].prices : i \in DOMAIN pois}

ParseStation(raw) ==
    LET Sold(label) == raw.prices[label] # {} /\ \A price \in raw.prices[label] : price > 0
    IN {[id |-> raw.id, lat |-> lat, lon |-> lon,
         prices |-> [label \in {l \in Labels : Sold(l)} |-> Max(raw.prices[label])]] :
            lat \in raw.lat, lon \in raw.lon}

ParseFuelStations(list) == FoldLeft(LAMBDA out, raw : out \o SetToSeq(ParseStation(raw)), <<>>, list)

\* The nearest to the middle of the box first, at most limit of them.
SpanishFuelPois(stations, box, limit) ==
    LET centre == [lat |-> (box.south + box.north) \div 2, lon |-> (box.west + box.east) \div 2]
        inside == SelectSeq(stations, LAMBDA s : /\ box.south <= s.lat /\ s.lat <= box.north
                                                 /\ box.west <= s.lon /\ s.lon <= box.east)
        order == SetToSortSeq(DOMAIN inside, LAMBDA i, j :
                    LET di == HaversineDistance(centre, inside[i])
                        dj == HaversineDistance(centre, inside[j])
                    IN di < dj \/ (di = dj /\ i < j))
        taken == SubSeq(order, 1, Min({limit, Len(order)}))
    IN [pois |-> [k \in DOMAIN taken |-> inside[taken[k]]], truncated |-> Len(inside) > limit]

-----------------------------------------------------------------------------
(* The national data set, one per transport key *)

Idle == [key |-> "none", state |-> "idle", aborted |-> FALSE]

FuelInit == /\ cached = [k \in Keys |-> "none"]
            /\ inflight = [k \in Keys |-> FALSE]
            /\ caller = [c \in Callers |-> Idle]

\* What a caller makes of the data set: its own signal decides last.
Outcome(c) == IF caller[c].aborted THEN "aborted" ELSE "answered"

LoadFuelDataset(c, k) ==
    /\ caller[c].state = "idle"
    /\ IF cached[k] = "stored"
       THEN /\ caller' = [caller EXCEPT ![c].key = k, ![c].state = Outcome(c)]
            /\ UNCHANGED inflight
       ELSE /\ caller' = [caller EXCEPT ![c].key = k, ![c].state = "waiting"]
            /\ inflight' = [inflight EXCEPT ![k] = TRUE]
    /\ UNCHANGED cached

AbortCaller(c) == /\ caller[c].state \in {"idle", "waiting"} /\ ~caller[c].aborted
                  /\ caller' = [caller EXCEPT ![c].aborted = TRUE]
                  /\ UNCHANGED <<cached, inflight>>

Downloaded(k) ==
    /\ inflight[k]
    /\ inflight' = [inflight EXCEPT ![k] = FALSE]
    /\ cached' = [cached EXCEPT ![k] = "stored"]
    /\ caller' = [c \in Callers |-> IF caller[c].key = k /\ caller[c].state = "waiting"
                                    THEN [caller[c] EXCEPT !.state = Outcome(c)] ELSE caller[c]]

DownloadFailed(k) ==
    /\ inflight[k]
    /\ inflight' = [inflight EXCEPT ![k] = FALSE]
    /\ caller' = [c \in Callers |-> IF caller[c].key = k /\ caller[c].state = "waiting"
                                    THEN [caller[c] EXCEPT !.state = "failed"] ELSE caller[c]]
    /\ UNCHANGED cached

Again(c) == /\ caller[c].state \in {"answered", "aborted", "failed"}
            /\ caller' = [caller EXCEPT ![c] = Idle]
            /\ UNCHANGED <<cached, inflight>>

FuelNext == \/ \E c \in Callers : AbortCaller(c) \/ Again(c) \/ \E k \in Keys : LoadFuelDataset(c, k)
            \/ \E k \in Keys : Downloaded(k) \/ DownloadFailed(k)
=============================================================================
