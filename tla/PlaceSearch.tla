---------------------------- MODULE PlaceSearch ----------------------------
(***************************************************************************)
(* Place search: the session cache of src/lib/geocoding.ts in front of the *)
(* rate-limited queue of src/lib/rateLimit.ts.  Requests start one after   *)
(* the other, in the order they were asked, and Interval apart.            *)
(***************************************************************************)
EXTENDS Integers, Sequences, SequencesExt, FiniteSetsExt

CONSTANTS Queries, Searches,
          Interval,     \* NOMINATIM_REQUEST_INTERVAL_MS
          MaxCached,    \* MAX_CACHED_SEARCHES
          LastTime      \* bound of the clock

VARIABLES now, nextStart,
          queue,        \* searches in the order of their promises; the head runs
          search,       \* search -> [query, state, aborted]
          stored,       \* the cache: queries, the oldest first
          starts        \* history: when requests were sent

placeVars == <<now, nextStart, queue, search, stored, starts>>

PlaceInit == /\ now = 0 /\ nextStart = 0
             /\ queue = <<>> /\ stored = <<>> /\ starts = <<>>
             /\ search = [s \in Searches |-> [query |-> "none", state |-> "idle", aborted |-> FALSE]]

SearchPlaces(s, q) ==
    /\ search[s].state = "idle"
    /\ IF q \in Range(stored)
       THEN /\ search' = [search EXCEPT ![s] = [@ EXCEPT !.query = q, !.state = "answered"]]
            /\ UNCHANGED queue
       ELSE /\ search' = [search EXCEPT ![s] = [@ EXCEPT !.query = q, !.state = "queued"]]
            /\ queue' = Append(queue, s)
    /\ UNCHANGED <<now, nextStart, stored, starts>>

Ends(s, state) == /\ search' = [search EXCEPT ![s].state = state]
                  /\ queue' = Tail(queue)

\* The abort of the head is seen at once, and that of the others when it is
\* their turn.
AbortSearch(s) == /\ search[s].state \in {"queued", "asking"} /\ ~search[s].aborted
                  /\ search' = [search EXCEPT ![s].aborted = TRUE]
                  /\ UNCHANGED <<now, nextStart, queue, stored, starts>>

SearchAborted(s) == /\ queue # <<>> /\ Head(queue) = s /\ search[s].aborted
                    /\ Ends(s, "aborted")
                    /\ UNCHANGED <<now, nextStart, stored, starts>>

\* Mutant: the delay is not looked at.
SendAtOnce(s) == /\ queue # <<>> /\ Head(queue) = s /\ search[s].state = "queued" /\ ~search[s].aborted
                 /\ search' = [search EXCEPT ![s].state = "asking"]
                 /\ starts' = Append(starts, now)
                 /\ UNCHANGED <<now, nextStart, queue, stored>>

Send(s) == /\ queue # <<>> /\ Head(queue) = s /\ search[s].state = "queued" /\ ~search[s].aborted
           /\ now >= nextStart
           /\ nextStart' = now + Interval
           /\ search' = [search EXCEPT ![s].state = "asking"]
           /\ starts' = Append(starts, now)
           /\ UNCHANGED <<now, queue, stored>>

\* The oldest search leaves a full cache; one that is there keeps its place.
PlaceAnswered(s) ==
    /\ search[s].state = "asking"
    /\ Ends(s, "answered")
    /\ LET kept == IF Len(stored) >= MaxCached THEN Tail(stored) ELSE stored
       IN stored' = IF search[s].query \in Range(kept) THEN kept ELSE Append(kept, search[s].query)
    /\ UNCHANGED <<now, nextStart, starts>>

PlaceRefused(s) == /\ search[s].state = "asking"
                   /\ Ends(s, "failed")
                   /\ UNCHANGED <<now, nextStart, stored, starts>>

TimePasses == /\ now < LastTime
              /\ now' = now + 1
              /\ UNCHANGED <<nextStart, queue, search, stored, starts>>

PlaceNext == \/ TimePasses
             \/ \E s \in Searches : \/ AbortSearch(s) \/ SearchAborted(s) \/ Send(s)
                                    \/ PlaceAnswered(s) \/ PlaceRefused(s)
                                    \/ \E q \in Queries : SearchPlaces(s, q)

\* One request at a time, and the interval between any two.
RateKept == /\ Cardinality({s \in Searches : search[s].state = "asking"}) <= 1
            /\ \A i \in 1 .. Len(starts) - 1 : starts[i + 1] - starts[i] >= Interval
=============================================================================
