----------------------------- MODULE CacheFetch -----------------------------
(***************************************************************************)
(* One cached resource and everybody who touches it: callers of            *)
(* outboundClient.do (internal/server/provider.go), the fetch they share,  *)
(* packs that pin and release the entry, and eviction                      *)
(* (internal/server/cache_store.go).  The index is guarded by mu, the      *)
(* files by writeMu; a reader copies the metadata under mu and reads the   *)
(* body under no lock at all.                                              *)
(*                                                                         *)
(* Versions stand for upstream contents; the upstream never goes back to   *)
(* an earlier one.  A metadata record names the version it describes in    *)
(* place of length, checksum and ETag.                                     *)
(***************************************************************************)
EXTENDS Integers, FiniteSets

CONSTANTS Callers, Packs,
          MaxUpstream \* bound on the changes of the upstream resource

ASSUME CacheFetchAssumption == MaxUpstream \in Nat \ {0}

VARIABLES origin,   \* the upstream: its version, and whether it sends validators
          entry,    \* index: NoEntry or the metadata
          body,     \* version of the body file, 0 when there is none
          locked,   \* writeMu is held across a put
          torn,     \* ghost: a file operation failed and may have left index
                    \* and body apart; a put or a removal that succeeds mends it
          pc,       \* per caller
          seen,     \* per caller: the copy that get() took of the metadata
          fetch,    \* NoFetch or the fetch under way
          holders   \* ghost: packs told that this entry is pinned for them

fetchVars == <<origin, entry, body, locked, torn, pc, seen, fetch, holders>>
callerVars == <<pc, seen>>

NoEntry == [ver |-> 0, pins |-> {}, fresh |-> FALSE]
NoFetch == [step |-> "none", stale |-> NoEntry, got |-> 0]

Metadata == [ver : 0 .. MaxUpstream, pins : SUBSET Packs, fresh : BOOLEAN]
Fetches == [step : {"none", "network", "storing", "done"}, stale : Metadata,
            got : 0 .. MaxUpstream]

Present == entry # NoEntry

-----------------------------------------------------------------------------
(* do: the lookup *)

\* get copies the metadata under mu.
Get(c) == /\ pc[c] = "idle"
          /\ seen' = [seen EXCEPT ![c] = entry]
          /\ pc' = [pc EXCEPT ![c] = IF Present THEN "reading" ELSE "joining"]
          /\ UNCHANGED <<origin, entry, body, locked, torn, fetch, holders>>

\* The caller goes on without the copy.
Forgets(c, at) == pc' = [pc EXCEPT ![c] = at] /\ seen' = [seen EXCEPT ![c] = NoEntry]

\* The body is the one the copy describes: a fresh one answers the caller, a
\* stale one goes with it.
ReadGood(c) == /\ pc[c] = "reading"
               /\ body = seen[c].ver
               /\ IF seen[c].fresh THEN Forgets(c, "idle")
                  ELSE pc' = [pc EXCEPT ![c] = "joining"] /\ UNCHANGED seen
               /\ UNCHANGED <<origin, entry, body, locked, torn, fetch, holders>>

\* Another body, or none: a put sets the old one aside for a moment.
ReadBad(c) == /\ pc[c] = "reading"
              /\ body # seen[c].ver \/ (locked /\ Present)
              /\ Forgets(c, "dropping")
              /\ UNCHANGED <<origin, entry, body, locked, torn, fetch, holders>>

Removed == /\ ~locked
           /\ entry' = NoEntry
           /\ body' = (IF Present THEN 0 ELSE body)
           /\ holders' = {}
           /\ torn' = (torn /\ ~Present)
           /\ UNCHANGED locked

\* One of the two files or the directory cannot be written: the entry stays
\* indexed, with or without its body.
RemovalFails == /\ ~locked /\ Present
                /\ body' \in {body, 0}
                /\ torn' = TRUE
                /\ UNCHANGED <<entry, holders, locked>>

RemoveEntry == Removed \/ RemovalFails

\* get calls remove, which takes both locks, and ignores its error.
Drop(c) == /\ pc[c] = "dropping"
           /\ RemoveEntry
           /\ pc' = [pc EXCEPT ![c] = "joining"]
           /\ UNCHANGED <<origin, seen, fetch>>

\* Coalescing: a caller leads a fetch only when none is under way.
Join(c) == /\ pc[c] = "joining"
           /\ IF fetch = NoFetch
              THEN fetch' = [step |-> "network", stale |-> seen[c], got |-> 0]
              ELSE UNCHANGED fetch
           /\ Forgets(c, "following")
           /\ UNCHANGED <<origin, entry, body, locked, torn, holders>>

\* No fetch for this caller: the queue is full, its context has ended, or the
\* mode is cache-only and the answer is the stale entry or a miss.
TurnedAway(c) == /\ pc[c] = "joining"
                 /\ Forgets(c, "idle")
                 /\ UNCHANGED <<origin, entry, body, locked, torn, fetch, holders>>

\* The caller's own context ends; the fetch goes on without it.
Leave(c) == /\ pc[c] = "following"
            /\ pc' = [pc EXCEPT ![c] = "idle"]
            /\ UNCHANGED <<origin, entry, body, locked, torn, seen, fetch, holders>>

-----------------------------------------------------------------------------
(* fetch *)

Done == fetch' = [fetch EXCEPT !.step = "done"]

\* Mutant: the update of an entry that is gone brings its metadata back.
UpdatedAlways(meta) == meta

\* updateMetadata: an entry that was removed meanwhile stays removed.
Updated(meta) == IF Present THEN meta ELSE entry

\* The conditional request names the version that upstream still has.
Confirms == origin.validators /\ fetch.stale.ver = origin.ver

\* 304: the metadata that was looked up is written back as fresh.
NotModified == /\ fetch.step = "network"
               /\ Confirms
               /\ ~locked
               /\ entry' = Updated([fetch.stale EXCEPT !.fresh = TRUE])
               /\ Done
               /\ UNCHANGED <<origin, body, locked, torn, holders, callerVars>>

\* A response that may no longer be stored has its entry removed.
Prohibited == /\ fetch.step = "network"
              /\ fetch.stale # NoEntry
              /\ RemoveEntry
              /\ Done
              /\ UNCHANGED <<origin, callerVars>>

\* The response that is stored later is the one received now.
Received == /\ fetch.step = "network" /\ fetch.got = 0
            /\ ~Confirms
            /\ fetch' = [fetch EXCEPT !.got = origin.ver]
            /\ UNCHANGED <<origin, entry, body, locked, torn, holders, callerVars>>

\* putWithAdmission takes writeMu and replaces the pair on disk ...
StoreBegin == /\ fetch.step = "network" /\ fetch.got # 0
              /\ ~locked
              /\ locked' = TRUE
              /\ body' = fetch.got
              /\ fetch' = [fetch EXCEPT !.step = "storing"]
              /\ UNCHANGED <<origin, entry, torn, holders, callerVars>>

\* Mutant: a replacement starts without pins.
PinsNone == {}

\* A replacement keeps the pins of the entry it replaces.
PinsKeptByPut == entry.pins

\* ... and then publishes it in the index.
StoreEnd == /\ fetch.step = "storing"
            /\ entry' = [ver |-> fetch.got, pins |-> PinsKeptByPut, fresh |-> TRUE]
            /\ locked' = FALSE
            /\ torn' = FALSE
            /\ Done
            /\ UNCHANGED <<origin, body, holders, callerVars>>

\* The pair is in place, a directory cannot be synced: put returns the error
\* and the index goes on describing the old pair.
StoreFails == /\ fetch.step = "storing"
              /\ locked' = FALSE
              /\ torn' = TRUE
              /\ Done
              /\ UNCHANGED <<origin, entry, body, holders, callerVars>>

\* A put fails half-way, and so does its rollback: no body is left.
StoreBreaks == /\ fetch.step = "network" /\ fetch.got # 0
               /\ ~locked
               /\ body' = 0
               /\ torn' = TRUE
               /\ Done
               /\ UNCHANGED <<origin, entry, locked, holders, callerVars>>

\* Transport error, error status, closed circuit, a response the store does not
\* admit, a put that was rolled back, a 304 whose metadata cannot be written:
\* the stored entry stays as it is.
FetchFails == /\ fetch.step = "network"
              /\ Done
              /\ UNCHANGED <<origin, entry, body, locked, torn, holders, callerVars>>

\* Mutant: the fetch is forgotten without telling its followers.
FetchForgotten == /\ fetch.step = "done"
                  /\ fetch' = NoFetch
                  /\ UNCHANGED <<origin, entry, body, locked, torn, seen, holders, pc>>

\* The fetch leaves the in-flight table and its channel is closed.
FetchEnds == /\ fetch.step = "done"
             /\ fetch' = NoFetch
             /\ pc' = [c \in Callers |-> IF pc[c] = "following" THEN "idle" ELSE pc[c]]
             /\ UNCHANGED <<origin, entry, body, locked, torn, seen, holders>>

-----------------------------------------------------------------------------
(* The other users of the entry *)

Pin(p) == /\ ~locked /\ Present
          /\ entry' = [entry EXCEPT !.pins = @ \union {p}]
          /\ holders' = holders \union {p}
          /\ UNCHANGED <<origin, body, locked, torn, fetch, callerVars>>

\* A pack that goes does not look at the error of its unpin.
Unpin(p) == /\ ~locked /\ p \in holders
            /\ entry' \in {entry, [entry EXCEPT !.pins = @ \ {p}]}
            /\ holders' = holders \ {p}
            /\ UNCHANGED <<origin, body, locked, torn, fetch, callerVars>>

Evictable == Present /\ entry.pins = {}

\* Eviction by another put, the clearing of a scope, expiry of unpinned data.
Evict == /\ Evictable
         /\ RemoveEntry
         /\ UNCHANGED <<origin, fetch, callerVars>>

\* FreshUntil passes.
GoesStale == /\ entry.fresh
             /\ entry' = [entry EXCEPT !.fresh = FALSE]
             /\ UNCHANGED <<origin, body, locked, torn, fetch, holders, callerVars>>

OriginChanges == /\ origin.ver < MaxUpstream
                 /\ origin' = [origin EXCEPT !.ver = @ + 1]
                 /\ UNCHANGED <<entry, body, locked, torn, fetch, holders, callerVars>>

-----------------------------------------------------------------------------
FetchInit == /\ origin \in [ver : {1}, validators : BOOLEAN]
             /\ entry = NoEntry
             /\ body = 0
             /\ locked = FALSE
             /\ torn = FALSE
             /\ pc = [c \in Callers |-> "idle"]
             /\ seen = [c \in Callers |-> NoEntry]
             /\ fetch = NoFetch
             /\ holders = {}

Caller(c) == ReadGood(c) \/ ReadBad(c) \/ Drop(c) \/ Join(c) \/ TurnedAway(c)

Fetch == NotModified \/ Prohibited \/ Received \/ StoreBegin \/ StoreEnd
         \/ StoreFails \/ StoreBreaks \/ FetchFails \/ FetchEnds

FetchNext == \/ \E c \in Callers : Get(c) \/ Caller(c) \/ Leave(c)
             \/ Fetch
             \/ \E p \in Packs : Pin(p) \/ Unpin(p)
             \/ Evict \/ GoesStale \/ OriginChanges

FetchSpec == FetchInit /\ [][FetchNext]_fetchVars

\* A caller's goroutine runs on, a fetch ends (it has a timeout), and Go's
\* mutexes hand the lock to a waiter that was passed over for long enough.
Fairness == /\ \A c \in Callers : WF_fetchVars(Caller(c)) /\ SF_fetchVars(Drop(c))
            /\ WF_fetchVars(Fetch)

FairSpec == FetchSpec /\ Fairness

-----------------------------------------------------------------------------
FetchTypeOK == /\ origin \in [ver : 1 .. MaxUpstream, validators : BOOLEAN]
               /\ entry \in Metadata
               /\ body \in 0 .. MaxUpstream
               /\ locked \in BOOLEAN
               /\ torn \in BOOLEAN
               /\ pc \in [Callers -> {"idle", "reading", "dropping", "joining", "following"}]
               /\ seen \in [Callers -> Metadata]
               /\ fetch \in Fetches
               /\ holders \subseteq Packs
               /\ locked <=> fetch.step = "storing"

\* While nobody writes, the index describes the body that is on disk, unless a
\* put or a removal failed and none has succeeded since; even then the body is
\* gone or newer, never older.  So a stale copy of the metadata that a 304
\* writes back never claims a body that was replaced or removed meanwhile.
IndexMatchesDisk ==
    ~locked => \/ entry.ver = body
               \/ torn /\ (body = 0 \/ entry.ver < body)

\* Every caller is answered.
Answered == \A c \in Callers : pc[c] # "idle" ~> pc[c] = "idle"

\* docs/OFFLINE.md: "the cached objects are shared and stay pinned until the
\* last pack referring to them is removed".  As long as the entry exists, the
\* packs that were told it is pinned are among its pins.
PinsKept == Present => holders \subseteq entry.pins

\* What replacements keep of that promise: with an upstream that sends no
\* validators, pins made before and during a fetch survive it.
PinsKeptByReplacement == ~origin.validators => PinsKept
=============================================================================
