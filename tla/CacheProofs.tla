---------------------------- MODULE CacheProofs ----------------------------
(***************************************************************************)
(* The provider cache, for every value of the constants: first what the    *)
(* callers, packs and fetches of one entry keep (CacheFetch.tla), then     *)
(* what its pair of files keeps on disk (CachePair.tla).                   *)
(***************************************************************************)
EXTENDS CacheFetch, CachePair, TLAPS

-----------------------------------------------------------------------------
(***************************************************************************)
(* For any callers, packs and number of upstream changes: the index        *)
(* describes the file unless a file operation failed, and replacements     *)
(* keep the pins.                                                          *)
(*                                                                         *)
(* The step that needs the strengthening is the 304: it writes back the    *)
(* metadata a caller copied long ago, under no lock.  It does no harm      *)
(* because whatever the entry holds now lies between that copy and the     *)
(* version upstream has just confirmed.                                    *)
(***************************************************************************)

\* Nobody knows a version that upstream has not reached.
BehindOrigin == /\ entry.ver <= origin.ver /\ fetch.stale.ver <= origin.ver
                /\ fetch.got <= origin.ver
                /\ \A c \in Callers : seen[c].ver <= origin.ver

\* Copies of the metadata are never ahead of the entry.
BehindEntry == Present => /\ fetch.stale.ver <= entry.ver
                          /\ \A c \in Callers : seen[c].ver <= entry.ver

\* What a fetch has received is at least as new as everything known.
BehindAnswer == fetch.got # 0 => /\ entry.ver <= fetch.got /\ fetch.stale.ver <= fetch.got
                                 /\ \A c \in Callers : seen[c].ver <= fetch.got

\* A put has written what was received and has not yet published it.
PutWritten == fetch.step = "storing" => fetch.got # 0 /\ body = fetch.got

HeldArePinned == ~origin.validators => holders \subseteq entry.pins

IInv == /\ FetchTypeOK /\ BehindOrigin /\ BehindEntry /\ BehindAnswer
        /\ PutWritten /\ IndexMatchesDisk /\ HeldArePinned

-----------------------------------------------------------------------------
LEMMA NoEntryTyped == NoEntry \in Metadata
BY CacheFetchAssumption DEF NoEntry, Metadata

\* A caller's copy is made from the entry or forgotten, and a fetch takes its
\* stale metadata from a caller: none of it touches the entry.
LEMMA CopiesKeep ==
    ASSUME IInv, UNCHANGED <<origin, entry, body, locked, torn, holders>>,
           pc' \in [Callers -> {"idle", "reading", "dropping", "joining", "following"}],
           seen' \in [Callers -> Metadata],
           \A c \in Callers : seen'[c] \in {seen[c], entry, NoEntry},
           \/ UNCHANGED fetch
           \/ fetch.step = "done" /\ fetch' = NoFetch
           \/ /\ fetch = NoFetch
              /\ \E c \in Callers : fetch' = [step |-> "network", stale |-> seen[c], got |-> 0]
    PROVE  IInv'
<1> USE CacheFetchAssumption, NoEntryTyped
<1>0. NoEntry.ver = 0
  BY DEF NoEntry
<1>1. FetchTypeOK'
  <2>1. origin' \in [ver : 1 .. MaxUpstream, validators : BOOLEAN] /\ entry' \in Metadata
        /\ body' \in 0 .. MaxUpstream /\ locked' \in BOOLEAN /\ torn' \in BOOLEAN /\ holders' \subseteq Packs
    BY DEF IInv, FetchTypeOK
  <2>2. fetch' \in Fetches
    BY DEF IInv, FetchTypeOK, Fetches, NoFetch
  <2>3. locked' <=> fetch'.step = "storing"
    <3>1. CASE UNCHANGED fetch
      BY <3>1 DEF IInv, FetchTypeOK
    <3>2. CASE ~UNCHANGED fetch
      <4>1. fetch'.step # "storing"
        BY <3>2 DEF NoFetch
      <4>2. fetch.step # "storing"
        BY <3>2 DEF NoFetch
      <4> QED
        BY <4>1, <4>2 DEF IInv, FetchTypeOK
    <3> QED
      BY <3>1, <3>2
  <2> QED
    BY <2>1, <2>2, <2>3 DEF FetchTypeOK
<1>2. origin.ver \in Nat /\ entry.ver \in Nat /\ fetch.stale.ver \in Nat /\ fetch.got \in Nat
      /\ \A c \in Callers : seen[c].ver \in Nat
  BY DEF IInv, FetchTypeOK, Fetches, Metadata
<1>3. \/ fetch' = fetch
      \/ /\ fetch'.got = 0 /\ fetch'.step # "storing"
         /\ \/ fetch'.stale.ver = 0
            \/ \E c \in Callers : fetch'.stale.ver = seen[c].ver
  BY <1>0 DEF NoFetch
<1>4. \A c \in Callers : seen'[c].ver \in {seen[c].ver, entry.ver, 0}
  BY <1>0
<1>5. BehindOrigin'
  BY <1>2, <1>3, <1>4 DEF IInv, BehindOrigin
<1>6. BehindEntry'
  BY <1>2, <1>3, <1>4 DEF IInv, BehindEntry, Present
<1>7. BehindAnswer'
  BY <1>2, <1>3, <1>4 DEF IInv, BehindAnswer
<1>8. PutWritten' /\ IndexMatchesDisk' /\ HeldArePinned'
  BY <1>3 DEF IInv, PutWritten, IndexMatchesDisk, HeldArePinned
<1> QED
  BY <1>1, <1>5, <1>6, <1>7, <1>8 DEF IInv

\* remove takes the entry, its file and its pins together.
LEMMA RemovedKeeps ==
    ASSUME IInv, Removed, UNCHANGED <<origin, seen>>,
           pc' \in [Callers -> {"idle", "reading", "dropping", "joining", "following"}],
           fetch' \in {fetch, [fetch EXCEPT !.step = "done"]}
    PROVE  IInv'
<1> USE CacheFetchAssumption, NoEntryTyped
<1>1. fetch \in Fetches /\ fetch.step # "storing" /\ ~locked
  BY DEF IInv, FetchTypeOK, Removed
<1>2. fetch' \in Fetches /\ fetch'.stale = fetch.stale /\ fetch'.got = fetch.got
      /\ fetch'.step # "storing"
  BY <1>1 DEF Fetches
<1>3. entry' = NoEntry /\ entry'.ver = 0 /\ ~Present' /\ holders' = {} /\ ~locked'
  BY <1>1 DEF Removed, NoEntry, Present
<1>4. body' \in 0 .. MaxUpstream /\ torn' \in BOOLEAN /\ (body' = 0 \/ torn')
  <2>1. body \in 0 .. MaxUpstream /\ torn \in BOOLEAN
    BY DEF IInv, FetchTypeOK
  <2>2. CASE Present
    BY <2>1, <2>2 DEF Removed
  <2>3. CASE ~Present
    <3>1. body' = body /\ torn' = torn /\ entry.ver = 0
      BY <2>1, <2>3 DEF Removed, Present, NoEntry
    <3> QED
      BY <1>1, <2>1, <3>1 DEF IInv, IndexMatchesDisk
  <2> QED
    BY <2>2, <2>3
<1>5. origin.ver \in Nat /\ fetch.got \in Nat
  BY DEF IInv, FetchTypeOK, Fetches
<1>6. FetchTypeOK'
  <2>1. entry' \in Metadata /\ body' \in 0 .. MaxUpstream /\ holders' \subseteq Packs
    BY <1>3, <1>4
  <2>2. origin' \in [ver : 1 .. MaxUpstream, validators : BOOLEAN] /\ seen' \in [Callers -> Metadata]
    BY DEF IInv, FetchTypeOK
  <2>3. locked' \in BOOLEAN /\ (locked' <=> fetch'.step = "storing")
    BY <1>2, <1>3 DEF Removed, IInv, FetchTypeOK
  <2> QED
    BY <1>2, <1>4, <2>1, <2>2, <2>3 DEF FetchTypeOK
<1>7. BehindOrigin' /\ BehindEntry' /\ BehindAnswer'
  BY <1>2, <1>3, <1>5 DEF IInv, BehindOrigin, BehindEntry, BehindAnswer
<1>8. PutWritten' /\ IndexMatchesDisk' /\ HeldArePinned'
  <2>1. body' = 0 \/ 0 < body'
    BY <1>4
  <2> QED
    BY <1>2, <1>3, <1>4, <2>1 DEF PutWritten, IndexMatchesDisk, HeldArePinned
<1> QED
  BY <1>6, <1>7, <1>8 DEF IInv

\* A step that leaves the entry alone and may lose its body.
LEMMA BreakingKeeps ==
    ASSUME IInv, ~locked, body' \in {body, 0}, torn' = TRUE,
           UNCHANGED <<origin, entry, locked, holders, seen>>,
           pc' \in [Callers -> {"idle", "reading", "dropping", "joining", "following"}],
           fetch' \in {fetch, [fetch EXCEPT !.step = "done"]}
    PROVE  IInv'
<1>1. fetch \in Fetches /\ fetch.step # "storing"
  BY DEF IInv, FetchTypeOK
<1>2. fetch' \in Fetches /\ fetch'.stale = fetch.stale /\ fetch'.got = fetch.got
      /\ fetch'.step # "storing"
  BY <1>1 DEF Fetches
<1>3. body' \in 0 .. MaxUpstream
  BY CacheFetchAssumption DEF IInv, FetchTypeOK
<1>4. FetchTypeOK'
  BY <1>2, <1>3 DEF IInv, FetchTypeOK
<1>5. BehindOrigin' /\ BehindEntry' /\ BehindAnswer'
  BY <1>2 DEF IInv, BehindOrigin, BehindEntry, BehindAnswer, Present
<1>6. PutWritten' /\ HeldArePinned'
  BY <1>2 DEF IInv, PutWritten, HeldArePinned
<1>7. IndexMatchesDisk'
  BY DEF IInv, IndexMatchesDisk
<1> QED
  BY <1>4, <1>5, <1>6, <1>7 DEF IInv

LEMMA RemovalKeeps ==
    ASSUME IInv, RemoveEntry, UNCHANGED <<origin, seen>>,
           pc' \in [Callers -> {"idle", "reading", "dropping", "joining", "following"}],
           fetch' \in {fetch, [fetch EXCEPT !.step = "done"]}
    PROVE  IInv'
BY RemovedKeeps, BreakingKeeps DEF RemoveEntry, RemovalFails

\* Steps that leave versions and files alone: pins and freshness.
LEMMA MarksKeep ==
    ASSUME IInv, Present' => Present, entry' \in Metadata, entry'.ver = entry.ver,
           holders' \subseteq Packs, ~origin.validators => holders' \subseteq entry'.pins,
           UNCHANGED <<origin, body, locked, torn, fetch, pc, seen>>
    PROVE  IInv'
BY DEF IInv, FetchTypeOK, BehindOrigin, BehindEntry, BehindAnswer, PutWritten, IndexMatchesDisk,
       HeldArePinned

\* Another field of the metadata changes: pins, freshness.
LEMMA Remarked ==
    ASSUME NEW m \in Metadata, NEW P \in SUBSET Packs, NEW f \in BOOLEAN
    PROVE  /\ [m EXCEPT !.pins = P] \in Metadata
           /\ [m EXCEPT !.pins = P].ver = m.ver /\ [m EXCEPT !.pins = P].pins = P
           /\ [m EXCEPT !.fresh = f] \in Metadata
           /\ [m EXCEPT !.fresh = f].ver = m.ver /\ [m EXCEPT !.fresh = f].pins = m.pins
BY DEF Metadata

LEMMA Advanced ==
    ASSUME NEW f \in Fetches, NEW s \in {"none", "network", "storing", "done"}
    PROVE  /\ [f EXCEPT !.step = s] \in Fetches
           /\ [f EXCEPT !.step = s].step = s /\ [f EXCEPT !.step = s].stale = f.stale
           /\ [f EXCEPT !.step = s].got = f.got
BY DEF Fetches

LEMMA AnswerTaken ==
    ASSUME NEW f \in Fetches, NEW v \in 0 .. MaxUpstream
    PROVE  /\ [f EXCEPT !.got = v] \in Fetches /\ [f EXCEPT !.got = v].got = v
           /\ [f EXCEPT !.got = v].step = f.step /\ [f EXCEPT !.got = v].stale = f.stale
BY DEF Fetches

-----------------------------------------------------------------------------
(* The lookup *)

LEMMA GetKeeps == ASSUME IInv, NEW c \in Callers, Get(c) PROVE IInv'
<1>1. pc' \in [Callers -> {"idle", "reading", "dropping", "joining", "following"}]
  BY DEF IInv, FetchTypeOK, Get
<1>2. seen' \in [Callers -> Metadata] /\ \A d \in Callers : seen'[d] \in {seen[d], entry, NoEntry}
  BY DEF IInv, FetchTypeOK, Get
<1> QED
  BY <1>1, <1>2, CopiesKeep DEF Get

LEMMA ForgettingTyped ==
    ASSUME IInv, NEW c \in Callers,
           NEW at \in {"idle", "reading", "dropping", "joining", "following"}, Forgets(c, at)
    PROVE  /\ pc' \in [Callers -> {"idle", "reading", "dropping", "joining", "following"}]
           /\ seen' \in [Callers -> Metadata]
           /\ \A d \in Callers : seen'[d] \in {seen[d], entry, NoEntry}
BY NoEntryTyped DEF IInv, FetchTypeOK, Forgets

LEMMA CallerKeeps == ASSUME IInv, NEW c \in Callers, Caller(c) \/ Leave(c) PROVE IInv'
<1>1. CASE ReadGood(c)
  <2>1. CASE seen[c].fresh
    BY <1>1, <2>1, ForgettingTyped, CopiesKeep DEF ReadGood
  <2>2. CASE ~seen[c].fresh
    <3>1. pc' = [pc EXCEPT ![c] = "joining"] /\ UNCHANGED seen
      BY <1>1, <2>2 DEF ReadGood
    <3>2. pc' \in [Callers -> {"idle", "reading", "dropping", "joining", "following"}]
      BY <3>1 DEF IInv, FetchTypeOK
    <3>3. seen' \in [Callers -> Metadata]
      BY <3>1 DEF IInv, FetchTypeOK
    <3> QED
      BY <1>1, <3>1, <3>2, <3>3, CopiesKeep DEF ReadGood
  <2> QED
    BY <2>1, <2>2
<1>2. CASE ReadBad(c)
  BY <1>2, ForgettingTyped, CopiesKeep DEF ReadBad
<1>3. CASE Drop(c)
  <2>1. pc' \in [Callers -> {"idle", "reading", "dropping", "joining", "following"}]
    BY <1>3 DEF Drop, IInv, FetchTypeOK
  <2> QED
    BY <1>3, <2>1, RemovalKeeps DEF Drop
<1>4. CASE Join(c)
  <2>1. Forgets(c, "following")
    BY <1>4 DEF Join
  <2> QED
    BY <1>4, <2>1, ForgettingTyped, CopiesKeep DEF Join
<1>5. CASE TurnedAway(c)
  BY <1>5, ForgettingTyped, CopiesKeep DEF TurnedAway
<1>6. CASE Leave(c)
  <2>1. pc' \in [Callers -> {"idle", "reading", "dropping", "joining", "following"}]
        /\ seen' \in [Callers -> Metadata]
    BY <1>6 DEF Leave, IInv, FetchTypeOK
  <2> QED
    BY <1>6, <2>1, CopiesKeep DEF Leave
<1> QED
  BY <1>1, <1>2, <1>3, <1>4, <1>5, <1>6 DEF Caller

-----------------------------------------------------------------------------
(* fetch *)

\* What the steps of the fetch have in common.
LEMMA FetchTyped ==
    ASSUME IInv
    PROVE  /\ fetch \in Fetches /\ entry \in Metadata /\ fetch.stale \in Metadata
           /\ origin.ver \in 1 .. MaxUpstream /\ entry.ver \in Nat /\ fetch.stale.ver \in Nat
           /\ fetch.got \in 0 .. MaxUpstream /\ body \in Nat
           /\ \A c \in Callers : seen[c].ver \in Nat
BY DEF IInv, FetchTypeOK, Fetches, Metadata

\* The metadata that a 304 writes back describes the file: what was copied and
\* what upstream has are the same version, and the entry lies between them.
LEMMA NotModifiedKeeps == ASSUME IInv, NotModified PROVE IInv'
<1> USE CacheFetchAssumption
<1> DEFINE meta == [fetch.stale EXCEPT !.fresh = TRUE]
<1>1. fetch.step = "network" /\ ~locked /\ origin.validators
      /\ fetch.stale.ver = origin.ver
      /\ UNCHANGED <<origin, body, locked, torn, holders, pc, seen>>
  BY DEF NotModified, Confirms, callerVars
<1>2. meta \in Metadata /\ meta.ver = origin.ver
  BY <1>1, FetchTyped, Remarked
<1>3. fetch' = [fetch EXCEPT !.step = "done"]
  BY DEF NotModified, Done
<1>4. fetch' \in Fetches /\ fetch'.step = "done" /\ fetch'.stale = fetch.stale
      /\ fetch'.got = fetch.got
  BY <1>3, FetchTyped, Advanced
<1>5. entry' = IF Present THEN meta ELSE entry
  BY DEF NotModified, Updated
<1>6. Present => entry.ver = origin.ver
  BY <1>1, FetchTyped DEF IInv, BehindOrigin, BehindEntry
<1>7. entry' \in Metadata /\ entry'.ver = entry.ver /\ (Present' => Present)
  BY <1>2, <1>5, <1>6, FetchTyped DEF Present
<1>8. FetchTypeOK'
  BY <1>1, <1>4, <1>7 DEF IInv, FetchTypeOK
<1>9. BehindOrigin' /\ BehindEntry' /\ BehindAnswer'
  BY <1>1, <1>4, <1>7 DEF IInv, BehindOrigin, BehindEntry, BehindAnswer
<1>10. PutWritten' /\ IndexMatchesDisk' /\ HeldArePinned'
  BY <1>1, <1>4, <1>7 DEF IInv, PutWritten, IndexMatchesDisk, HeldArePinned
<1> QED
  BY <1>8, <1>9, <1>10 DEF IInv

\* An answer is at least as new as all that is known when it arrives.
LEMMA ReceivedKeeps == ASSUME IInv, Received PROVE IInv'
<1>1. fetch' = [fetch EXCEPT !.got = origin.ver] /\ fetch.step = "network"
      /\ UNCHANGED <<origin, entry, body, locked, torn, holders, pc, seen>>
  BY DEF Received, callerVars
<1>2. origin.ver \in 0 .. MaxUpstream
  BY CacheFetchAssumption, FetchTyped
<1>3. fetch' \in Fetches /\ fetch'.step = fetch.step /\ fetch'.stale = fetch.stale
      /\ fetch'.got = origin.ver
  BY <1>1, <1>2, FetchTyped, AnswerTaken
<1>4. FetchTypeOK'
  BY <1>1, <1>3 DEF IInv, FetchTypeOK
<1>5. BehindOrigin' /\ BehindEntry' /\ BehindAnswer'
  BY <1>1, <1>3, FetchTyped DEF IInv, BehindOrigin, BehindEntry, BehindAnswer, Present
<1>6. PutWritten' /\ IndexMatchesDisk' /\ HeldArePinned'
  BY <1>1, <1>3 DEF IInv, PutWritten, IndexMatchesDisk, HeldArePinned
<1> QED
  BY <1>4, <1>5, <1>6 DEF IInv

\* Until the put publishes the entry the index does not describe the file, and
\* says so by holding the lock.
LEMMA StoreBeginKeeps == ASSUME IInv, StoreBegin PROVE IInv'
<1>1. fetch' = [fetch EXCEPT !.step = "storing"] /\ fetch.got # 0 /\ locked' = TRUE
      /\ body' = fetch.got /\ UNCHANGED <<origin, entry, torn, holders, pc, seen>>
  BY DEF StoreBegin, callerVars
<1>2. fetch' \in Fetches /\ fetch'.step = "storing" /\ fetch'.stale = fetch.stale
      /\ fetch'.got = fetch.got
  BY <1>1, FetchTyped, Advanced
<1>3. FetchTypeOK'
  BY <1>1, <1>2, FetchTyped DEF IInv, FetchTypeOK
<1>4. BehindOrigin' /\ BehindEntry' /\ BehindAnswer'
  BY <1>1, <1>2 DEF IInv, BehindOrigin, BehindEntry, BehindAnswer, Present
<1>5. PutWritten' /\ IndexMatchesDisk' /\ HeldArePinned'
  BY <1>1, <1>2 DEF IInv, PutWritten, IndexMatchesDisk, HeldArePinned
<1> QED
  BY <1>3, <1>4, <1>5 DEF IInv

LEMMA StoreEndKeeps == ASSUME IInv, StoreEnd PROVE IInv'
<1>1. /\ fetch.step = "storing" /\ locked' = FALSE /\ torn' = FALSE
      /\ entry' = [ver |-> fetch.got, pins |-> entry.pins, fresh |-> TRUE]
      /\ fetch' = [fetch EXCEPT !.step = "done"]
      /\ UNCHANGED <<origin, body, holders, pc, seen>>
  BY DEF StoreEnd, PinsKeptByPut, Done, callerVars
<1>2. fetch' \in Fetches /\ fetch'.step = "done" /\ fetch'.stale = fetch.stale
      /\ fetch'.got = fetch.got
  BY <1>1, FetchTyped, Advanced
<1>3. fetch.got # 0 /\ body = fetch.got
  BY <1>1 DEF IInv, PutWritten
<1>4. entry' \in Metadata /\ entry'.ver = fetch.got /\ entry'.pins = entry.pins
  BY <1>1, FetchTyped DEF Metadata
<1>5. FetchTypeOK'
  BY <1>1, <1>2, <1>4 DEF IInv, FetchTypeOK
<1>6. BehindOrigin' /\ BehindEntry' /\ BehindAnswer'
  BY <1>1, <1>2, <1>3, <1>4, FetchTyped DEF IInv, BehindOrigin, BehindEntry, BehindAnswer
<1>7. PutWritten' /\ IndexMatchesDisk' /\ HeldArePinned'
  BY <1>1, <1>2, <1>3, <1>4 DEF IInv, PutWritten, IndexMatchesDisk, HeldArePinned
<1> QED
  BY <1>5, <1>6, <1>7 DEF IInv

\* The index stays behind the pair that is in place.
LEMMA StoreFailsKeeps == ASSUME IInv, StoreFails PROVE IInv'
<1>1. /\ fetch.step = "storing" /\ locked' = FALSE /\ torn' = TRUE
      /\ fetch' = [fetch EXCEPT !.step = "done"]
      /\ UNCHANGED <<origin, entry, body, holders, pc, seen>>
  BY DEF StoreFails, Done, callerVars
<1>2. fetch' \in Fetches /\ fetch'.step = "done" /\ fetch'.stale = fetch.stale
      /\ fetch'.got = fetch.got
  BY <1>1, FetchTyped, Advanced
<1>3. fetch.got # 0 /\ body = fetch.got
  BY <1>1 DEF IInv, PutWritten
<1>4. FetchTypeOK'
  BY <1>1, <1>2 DEF IInv, FetchTypeOK
<1>5. BehindOrigin' /\ BehindEntry' /\ BehindAnswer' /\ HeldArePinned'
  BY <1>1, <1>2 DEF IInv, BehindOrigin, BehindEntry, BehindAnswer, Present, HeldArePinned
<1>6. PutWritten' /\ IndexMatchesDisk'
  BY <1>1, <1>2, <1>3, FetchTyped DEF IInv, PutWritten, IndexMatchesDisk, BehindAnswer
<1> QED
  BY <1>4, <1>5, <1>6 DEF IInv

LEMMA StoreBreaksKeeps == ASSUME IInv, StoreBreaks PROVE IInv'
<1>1. pc' \in [Callers -> {"idle", "reading", "dropping", "joining", "following"}]
  BY DEF StoreBreaks, callerVars, IInv, FetchTypeOK
<1> QED
  BY <1>1, BreakingKeeps DEF StoreBreaks, Done, callerVars

LEMMA FetchFailsKeeps == ASSUME IInv, FetchFails PROVE IInv'
<1>1. fetch' = [fetch EXCEPT !.step = "done"] /\ fetch.step = "network"
      /\ UNCHANGED <<origin, entry, body, locked, torn, holders, pc, seen>>
  BY DEF FetchFails, Done, callerVars
<1>2. fetch' \in Fetches /\ fetch'.step = "done" /\ fetch'.stale = fetch.stale
      /\ fetch'.got = fetch.got
  BY <1>1, FetchTyped, Advanced
<1>3. FetchTypeOK'
  BY <1>1, <1>2 DEF IInv, FetchTypeOK
<1> QED
  BY <1>1, <1>2, <1>3 DEF IInv, BehindOrigin, BehindEntry, BehindAnswer, Present, PutWritten,
     IndexMatchesDisk, HeldArePinned

LEMMA FetchKeeps == ASSUME IInv, Fetch PROVE IInv'
<1>1. CASE Prohibited
  <2>1. pc' \in [Callers -> {"idle", "reading", "dropping", "joining", "following"}]
    BY <1>1 DEF Prohibited, callerVars, IInv, FetchTypeOK
  <2> QED
    BY <1>1, <2>1, RemovalKeeps DEF Prohibited, Done, callerVars
<1>2. CASE FetchEnds
  <2>1. pc' \in [Callers -> {"idle", "reading", "dropping", "joining", "following"}]
    BY <1>2 DEF FetchEnds, IInv, FetchTypeOK
  <2>2. seen' \in [Callers -> Metadata]
    BY <1>2 DEF FetchEnds, IInv, FetchTypeOK
  <2> QED
    BY <1>2, <2>1, <2>2, CopiesKeep DEF FetchEnds
<1> QED
  BY <1>1, <1>2, NotModifiedKeeps, ReceivedKeeps, StoreBeginKeeps, StoreEndKeeps, StoreFailsKeeps, StoreBreaksKeeps,
     FetchFailsKeeps DEF Fetch

-----------------------------------------------------------------------------
(* The other users of the entry *)

LEMMA PinKeeps == ASSUME IInv, NEW p \in Packs, Pin(p) \/ Unpin(p) PROVE IInv'
<1>1. entry.pins \in SUBSET Packs /\ holders \subseteq Packs
  BY FetchTyped DEF Metadata, IInv, FetchTypeOK
<1>2. PICK P \in SUBSET Packs : /\ entry' = [entry EXCEPT !.pins = P]
                                /\ \/ Present /\ P = entry.pins \union {p} /\ holders' = holders \union {p}
                                   \/ P \in {entry.pins, entry.pins \ {p}} /\ holders' = holders \ {p}
  <2>1. entry = [entry EXCEPT !.pins = entry.pins]
    BY FetchTyped DEF Metadata
  <2> QED
    BY <1>1, <2>1 DEF Pin, Unpin
<1>3. entry' \in Metadata /\ entry'.ver = entry.ver /\ entry'.pins = P
  BY <1>2, FetchTyped, Remarked
<1>4. Present' => Present
  <2>1. SUFFICES ASSUME ~Present PROVE entry' = NoEntry
    BY DEF Present
  <2>2. entry = NoEntry /\ entry.pins = {}
    BY <2>1 DEF Present, NoEntry
  <2>3. P = {}
    BY <1>2, <2>1, <2>2
  <2> QED
    BY <1>2, <2>2, <2>3 DEF NoEntry
<1>5. holders' \subseteq Packs /\ (~origin.validators => holders' \subseteq entry'.pins)
  BY <1>1, <1>2, <1>3 DEF IInv, HeldArePinned
<1> QED
  BY <1>3, <1>4, <1>5, MarksKeep DEF Pin, Unpin, callerVars

LEMMA GoesStaleKeeps == ASSUME IInv, GoesStale PROVE IInv'
<1>1. entry' \in Metadata /\ entry'.ver = entry.ver /\ entry'.pins = entry.pins
  BY FetchTyped, Remarked DEF GoesStale
<1>2. Present
  BY DEF GoesStale, Present, NoEntry
<1>3. holders' \subseteq Packs /\ (~origin.validators => holders' \subseteq entry'.pins)
  BY <1>1 DEF GoesStale, IInv, FetchTypeOK, HeldArePinned
<1> QED
  BY <1>1, <1>2, <1>3, MarksKeep DEF GoesStale, callerVars

LEMMA OriginChangesKeeps == ASSUME IInv, OriginChanges PROVE IInv'
<1>1. origin \in [ver : 1 .. MaxUpstream, validators : BOOLEAN]
  BY DEF IInv, FetchTypeOK
<1>2. origin' = [origin EXCEPT !.ver = origin.ver + 1] /\ origin.ver < MaxUpstream
      /\ UNCHANGED <<entry, body, locked, torn, fetch, holders, pc, seen>>
  BY DEF OriginChanges, callerVars
<1>3. origin' \in [ver : 1 .. MaxUpstream, validators : BOOLEAN]
      /\ origin'.ver = origin.ver + 1 /\ origin'.validators = origin.validators
  BY <1>1, <1>2, CacheFetchAssumption
<1>4. FetchTypeOK'
  BY <1>2, <1>3 DEF IInv, FetchTypeOK
<1>5. BehindOrigin'
  BY <1>2, <1>3, FetchTyped DEF IInv, BehindOrigin
<1> QED
  BY <1>2, <1>3, <1>4, <1>5 DEF IInv, BehindEntry, BehindAnswer, Present, PutWritten,
     IndexMatchesDisk, HeldArePinned

LEMMA EvictKeeps == ASSUME IInv, Evict PROVE IInv'
<1>1. pc' \in [Callers -> {"idle", "reading", "dropping", "joining", "following"}]
  BY DEF Evict, callerVars, IInv, FetchTypeOK
<1> QED
  BY <1>1, RemovalKeeps DEF Evict, callerVars

-----------------------------------------------------------------------------
LEMMA Starts == ASSUME FetchInit PROVE IInv
<1> USE CacheFetchAssumption, NoEntryTyped
<1>1. NoEntry.ver = 0 /\ NoEntry.pins = {}
  BY DEF NoEntry
<1>2. NoFetch \in Fetches /\ NoFetch.step = "none" /\ NoFetch.stale = NoEntry /\ NoFetch.got = 0
  BY DEF NoFetch, Fetches
<1>3. origin \in [ver : 1 .. MaxUpstream, validators : BOOLEAN]
  BY DEF FetchInit
<1>4. FetchTypeOK
  <2>1. pc \in [Callers -> {"idle", "reading", "dropping", "joining", "following"}]
        /\ seen \in [Callers -> Metadata]
    BY DEF FetchInit
  <2>2. entry \in Metadata /\ fetch \in Fetches
    BY <1>2 DEF FetchInit
  <2>3. body = 0 /\ locked = FALSE /\ torn = FALSE /\ holders = {}
    BY DEF FetchInit
  <2>4. locked <=> fetch.step = "storing"
    BY <1>2 DEF FetchInit
  <2>5. body \in 0 .. MaxUpstream
    BY <2>3
  <2>6. locked \in BOOLEAN /\ torn \in BOOLEAN
    BY <2>3
  <2>7. holders \subseteq Packs
    BY <2>3
  <2> QED
    BY <1>3, <2>1, <2>2, <2>4, <2>5, <2>6, <2>7 DEF FetchTypeOK
<1> QED
  BY <1>1, <1>2, <1>3, <1>4 DEF FetchInit, IInv, BehindOrigin, BehindEntry, BehindAnswer, Present,
     PutWritten, IndexMatchesDisk, HeldArePinned

LEMMA Steps == ASSUME IInv, [FetchNext]_fetchVars PROVE IInv'
<1>1. CASE UNCHANGED fetchVars
  BY <1>1 DEF fetchVars, IInv, FetchTypeOK, BehindOrigin, BehindEntry, BehindAnswer, Present, PutWritten,
     IndexMatchesDisk, HeldArePinned
<1> QED
  BY <1>1, GetKeeps, CallerKeeps, FetchKeeps, PinKeeps, EvictKeeps, GoesStaleKeeps,
     OriginChangesKeeps DEF FetchNext

THEOREM Inductive == FetchSpec => []IInv
BY Starts, Steps, PTL DEF FetchSpec

\* While no put is under way the index names the version that is on disk,
\* whatever lookups, fetches, pins and evictions come between; after a put or a
\* removal that failed the body may be gone or newer until the next one succeeds
\* (cache_store.go: get, putWithAdmission, updateMetadata, remove).
THEOREM IndexHeld == FetchSpec => []IndexMatchesDisk
<1>1. IInv => IndexMatchesDisk
  BY DEF IInv
<1> QED
  BY <1>1, Inductive, PTL

\* With an upstream that sends no validators a pin lasts until it is released
\* or the entry goes: replacements carry the pins over (putWithAdmission).
THEOREM PinsHeld == FetchSpec => []PinsKeptByReplacement
<1>1. IInv => PinsKeptByReplacement
  BY DEF IInv, HeldArePinned, PinsKeptByReplacement, PinsKept
<1> QED
  BY <1>1, Inductive, PTL

-----------------------------------------------------------------------------
(***************************************************************************)
(* What the pair of files keeps for every number of versions and of        *)
(* faults (CachePair.tla).                                                 *)
(*                                                                         *)
(* The store always works off one of a few programs of file operations, so *)
(* its state is known from the phase it is in and from how many operations *)
(* are left.  ProgramOK says which programs; SplitInv says, while no more  *)
(* than one operation was lost, that a version taken back has no body left *)
(* or no sidecar; OnceInv says, after at most one crash or failed rename,  *)
(* what lies in each of the four files at each operation of each phase.    *)
(***************************************************************************)

\* What is left of a program: its last operations, all of it at first.
Left(program) ==
    /\ Len(todo) <= Len(program)
    /\ \A i \in 1 .. Len(todo) : todo[i] = program[Len(program) - Len(todo) + i]

\* The programs: a put over an old pair, what a failed put or an interrupted
\* replacement takes back, and what a restart does.
PutAll == PutOps(TRUE)
Undo == DropPair \o Restore
UndoAside == <<Rename("bodyBak", "body")>>
BringBack == <<Remove("body"), Rename("bodyBak", "body")>>
DropAll == DropPair \o DropBody

Ops == {Rename("body", "bodyBak"), Rename("json", "jsonBak"), Rename("bodyBak", "body"), Rename("jsonBak", "json"),
        Install("body"), Install("json"), Sync} \union {Remove(f) : f \in Files}

\* Every phase works off a program of its own.
ProgramOK ==
    /\ todo \in Seq(Ops)
    /\ phase \in {"idle", "down"} => todo = <<>>
    /\ phase = "put" => Left(PutAll) /\ (index = 0 => Len(todo) <= 5)
    /\ phase = "failing" => Left(Undo) \/ Left(DropPair) \/ Left(UndoAside)
    /\ phase = "remove" => Left(RemoveOps)
    /\ phase = "pass1" => Left(BringBack)
    /\ phase = "pass2" => Left(Undo) \/ Left(DropBackups)
    /\ phase = "load" => Left(DropAll) \/ Left(DropBody)

PairTyped == disk \in [Files -> Versions] /\ index \in Versions /\ writing \in Versions /\ phase \in Phases
             /\ accepted \subseteq Versions /\ faults \in [Kinds -> Nat]

\* A version that may not be found has lost its body or its sidecar.
Halves == \A v \in Versions \ accepted :
              v # 0 => v \notin {disk["body"], disk["bodyBak"]} \/ v \notin {disk["json"], disk["jsonBak"], index}

\* No more than half a backup lies about, and only after an operation was lost.
NoBackups == disk["bodyBak"] = 0 /\ disk["jsonBak"] = 0
Lone == (disk["bodyBak"] = 0 \/ disk["jsonBak"] = 0) /\ (LostOps = 0 => NoBackups)

\* The backups and the pair when n operations are left of each program.
PutSplit(n) ==
    /\ writing \in accepted
    /\ n <= 4 => disk["body"] = writing
    /\ n <= 3 => disk["json"] = writing
    /\ n = 9 \/ n <= 1 \/ index = 0 => Lone
    /\ n = 8 => Lone /\ disk["bodyBak"] = 0
    /\ n = 7 => NoBackups
    /\ n = 6 => disk["jsonBak"] = 0
    /\ n = 2 /\ LostOps = 0 => disk["bodyBak"] = 0

FailingSplit(n) ==
    \/ n = 0 /\ Lone
    \/ n = 1 /\ Left(UndoAside) /\ disk["jsonBak"] = 0
    \/ Left(Undo) /\ n # 0 /\ LostOps >= 1 /\ (n <= 1 => disk["bodyBak"] = 0)
    \/ Left(DropPair) /\ LostOps >= 1 /\ Lone

RemoveSplit(n) == Lone /\ (n <= 2 => disk["body"] = 0) /\ (n <= 1 => disk["json"] = 0)

Pass1Split(n) ==
    IF n = 0 THEN disk["jsonBak"] = 0 /\ LostOps = 0 => disk["bodyBak"] = 0 ELSE disk["jsonBak"] = 0

Pass2Split(n) ==
    \/ n = 0 /\ Lone /\ (disk["jsonBak"] # 0 => disk["json"] = 0 \/ disk["body"] = disk["json"])
    \/ /\ n # 0 /\ Left(Undo)
       /\ n <= 2 /\ LostOps = 0 => disk["json"] = 0
       /\ n <= 1 /\ LostOps = 0 => disk["bodyBak"] = 0
    \/ /\ n # 0 /\ Left(DropBackups) /\ disk["body"] = disk["json"]
       /\ n = 1 /\ LostOps = 0 => disk["bodyBak"] = 0

LoadSplit(n) ==
    /\ Lone
    /\ index # 0 => n = 0 /\ disk["json"] = index /\ (disk["jsonBak"] # 0 => disk["body"] = disk["json"])
    /\ index = 0 => \/ Left(DropBody) /\ disk["json"] = 0 /\ (n = 0 => disk["body"] = 0 \/ NoBackups)
                    \/ /\ Left(DropAll)
                       /\ n \in {1, 2} /\ LostOps = 0 => disk["body"] = 0
                       /\ n <= 1 => disk["json"] = 0 \/ NoBackups
                       /\ n = 0 => disk["body"] = 0

SplitPhase ==
    /\ phase = "idle" => Lone
    /\ phase = "put" => PutSplit(Len(todo))
    /\ phase = "failing" => FailingSplit(Len(todo))
    /\ phase = "remove" => RemoveSplit(Len(todo))
    /\ phase = "pass1" => Pass1Split(Len(todo))
    /\ phase = "pass2" => Pass2Split(Len(todo))
    /\ phase = "load" => LoadSplit(Len(todo))

SplitInv == LostOps <= 1 => Halves /\ SplitPhase

\* The four files of a disk.
Is(d, content, json, bodyBak, jsonBak) ==
    d["body"] = content /\ d["json"] = json /\ d["bodyBak"] = bodyBak /\ d["jsonBak"] = jsonBak

Holds(content, json, bodyBak, jsonBak) == Is(disk, content, json, bodyBak, jsonBak)

Whole(v) == Holds(v, v, 0, 0)

\* The disk when n operations are left of a put that replaces the old version
\* by a new one, of its undoing, or of a removal; without an old version it is 0
\* and there is less to do.
PutStage(d, n, old, new) ==
    /\ n \in 7 .. 9 => Is(d, old, old, 0, 0)
    /\ n = 6 => Is(d, 0, old, old, 0)
    /\ n = 5 => Is(d, 0, 0, old, old)
    /\ n = 4 => Is(d, new, 0, old, old)
    /\ n = 3 => Is(d, new, new, old, old)
    /\ n = 2 => Is(d, new, new, 0, old)
    /\ n \in {0, 1} => Is(d, new, new, 0, 0)

UndoStage(d, n, old) ==
    /\ n = 4 => \E v \in Versions : Is(d, v, 0, old, old)
    /\ n \in {2, 3} => Is(d, 0, 0, old, old)
    /\ n = 1 => Is(d, old, 0, 0, old)
    /\ n = 0 => Is(d, old, old, 0, 0)

RemoveStage(d, n, old) ==
    /\ n = 3 => Is(d, old, old, 0, 0)
    /\ n = 2 => Is(d, 0, old, 0, 0)
    /\ n \in {0, 1} => Is(d, 0, 0, 0, 0)

Replacing(old, new) == PutStage(disk, Len(todo), old, new)

Undoing(old) == Left(Undo) /\ UndoStage(disk, Len(todo), old)

\* What one fault can leave behind: a pair that may be found, the halves of one
\* with its backups, or a body or sidecar alone where a miss is accepted.
Recoverable ==
    \/ \E v \in accepted : Whole(v)
    \/ \E v \in accepted \ {0} : \/ Holds(0, v, v, 0)
                                 \/ \E u \in Versions : Holds(u, 0, v, v)
                                 \/ \E u \in {0} \union accepted, w \in Versions \ {0} : Holds(v, v, u, w)
    \/ 0 \in accepted /\ \E v \in Versions : Holds(v, 0, 0, 0) \/ Holds(0, v, 0, 0)

Pass1Fits ==
    IF todo = <<>> THEN Recoverable /\ ~(disk["bodyBak"] # 0 /\ disk["jsonBak"] = 0)
    ELSE Left(BringBack) /\ \E v \in accepted \ {0} : Holds(0, v, v, 0)

Pass2Fits ==
    \/ todo = <<>> /\ disk["bodyBak"] = 0 /\ disk["jsonBak"] = 0 /\ Recoverable
    \/ \E v \in accepted \ {0} : Undoing(v)
    \/ /\ Left(DropBackups) /\ disk["body"] # 0 /\ disk["body"] = disk["json"] /\ disk["body"] \in accepted
       /\ Len(todo) <= 1 => disk["bodyBak"] = 0
       /\ Len(todo) = 0 => disk["jsonBak"] = 0

LoadFits ==
    /\ disk["bodyBak"] = 0 /\ disk["jsonBak"] = 0
    /\ \/ todo = <<>> /\ index \in accepted /\ Whole(index)
       \/ index = 0 /\ Left(DropBody) /\ Len(todo) = 1 /\ disk["json"] = 0 /\ 0 \in accepted
       \/ /\ index = 0 /\ Left(DropAll) /\ todo # <<>> /\ disk["body"] = 0 /\ 0 \in accepted
          /\ Len(todo) = 1 => disk["json"] = 0

\* Before the first fault nothing is undone, and a recovery finds nothing.
Unfaulted ==
    /\ phase # "failing"
    /\ phase \in {"down", "pass1", "pass2", "load"} => \E v \in accepted : Whole(v)
    /\ phase \in {"pass1", "pass2"} => todo = <<>>
    /\ phase = "load" /\ todo # <<>> => Left(DropBody) /\ Whole(0)

PutFits == writing \in accepted \ {0} /\ Replacing(index, writing)

FailingFits ==
    \/ index # 0 /\ Undoing(index)
    \/ index # 0 /\ Left(UndoAside) /\ todo # <<>> /\ Holds(0, index, index, 0)
    \/ /\ index = 0 /\ Left(DropPair) /\ disk["json"] = 0 /\ disk["bodyBak"] = 0 /\ disk["jsonBak"] = 0
       /\ Len(todo) <= 1 => disk["body"] = 0

RemoveFits == 0 \in accepted /\ Left(RemoveOps) /\ RemoveStage(disk, Len(todo), index)

PhaseFits ==
    /\ phase \in {"idle", "put", "failing", "remove"} => index \in accepted
    /\ phase = "idle" => Whole(index)
    /\ phase = "put" => PutFits
    /\ phase = "failing" => FailingFits
    /\ phase = "remove" => RemoveFits
    /\ phase = "down" => Recoverable
    /\ phase = "pass1" => Pass1Fits
    /\ phase = "pass2" => Pass2Fits
    /\ phase = "load" => LoadFits

OnceInv == OneFault => (TotalFaults = 0 => Unfaulted) /\ PhaseFits

-----------------------------------------------------------------------------
(* Programs of file operations                                              *)

\* u is s followed by t.
Joins(u, s, t) ==
    /\ Len(u) = Len(s) + Len(t)
    /\ \A i \in 1 .. Len(s) : u[i] = s[i]
    /\ \A i \in 1 .. Len(t) : u[Len(s) + i] = t[i]

LEMMA Joining ==
    ASSUME NEW S, NEW s \in Seq(S), NEW t \in Seq(S)
    PROVE  s \o t \in Seq(S) /\ Joins(s \o t, s, t)
BY DEF Joins

LEMMA Programs ==
    /\ PutAll \in Seq(Ops) /\ Len(PutAll) = 9
    /\ PutAll[1] = Remove("bodyBak") /\ PutAll[2] = Remove("jsonBak")
    /\ PutAll[3] = Rename("body", "bodyBak") /\ PutAll[4] = Rename("json", "jsonBak")
    /\ PutAll[5] = Install("body") /\ PutAll[6] = Install("json")
    /\ PutAll[7] = Remove("bodyBak") /\ PutAll[8] = Remove("jsonBak") /\ PutAll[9] = Sync
    /\ PutOps(FALSE) \in Seq(Ops) /\ Len(PutOps(FALSE)) = 5 /\ \A i \in 1 .. 5 : PutOps(FALSE)[i] = PutAll[4 + i]
    /\ Undo \in Seq(Ops) /\ Len(Undo) = 4
    /\ Undo[1] = Remove("body") /\ Undo[2] = Remove("json")
    /\ Undo[3] = Rename("bodyBak", "body") /\ Undo[4] = Rename("jsonBak", "json")
    /\ DropPair \in Seq(Ops) /\ Len(DropPair) = 2 /\ DropPair[1] = Remove("body") /\ DropPair[2] = Remove("json")
    /\ UndoAside \in Seq(Ops) /\ Len(UndoAside) = 1 /\ UndoAside[1] = Rename("bodyBak", "body")
    /\ RemoveOps \in Seq(Ops) /\ Len(RemoveOps) = 3
    /\ RemoveOps[1] = Remove("body") /\ RemoveOps[2] = Remove("json") /\ RemoveOps[3] = Sync
    /\ BringBack \in Seq(Ops) /\ Len(BringBack) = 2
    /\ BringBack[1] = Remove("body") /\ BringBack[2] = Rename("bodyBak", "body")
    /\ DropBackups \in Seq(Ops) /\ Len(DropBackups) = 2
    /\ DropBackups[1] = Remove("bodyBak") /\ DropBackups[2] = Remove("jsonBak")
    /\ DropBody \in Seq(Ops) /\ Len(DropBody) = 1 /\ DropBody[1] = Remove("body")
    /\ DropAll \in Seq(Ops) /\ Len(DropAll) = 3
    /\ DropAll[1] = Remove("body") /\ DropAll[2] = Remove("json") /\ DropAll[3] = Remove("body")
<1> DEFINE d == DropBackups  s == SetAside  p == InstallPair  y == <<Sync>>
<1>1. /\ d \in Seq(Ops) /\ Len(d) = 2 /\ d[1] = Remove("bodyBak") /\ d[2] = Remove("jsonBak")
      /\ s \in Seq(Ops) /\ Len(s) = 2 /\ s[1] = Rename("body", "bodyBak") /\ s[2] = Rename("json", "jsonBak")
      /\ p \in Seq(Ops) /\ Len(p) = 2 /\ p[1] = Install("body") /\ p[2] = Install("json")
      /\ y \in Seq(Ops) /\ Len(y) = 1 /\ y[1] = Sync
  BY DEF DropBackups, SetAside, InstallPair, Ops, Files
<1>2. /\ DropPair \in Seq(Ops) /\ Len(DropPair) = 2 /\ DropPair[1] = Remove("body") /\ DropPair[2] = Remove("json")
      /\ UndoAside \in Seq(Ops) /\ Len(UndoAside) = 1 /\ UndoAside[1] = Rename("bodyBak", "body")
      /\ RemoveOps \in Seq(Ops) /\ Len(RemoveOps) = 3
      /\ RemoveOps[1] = Remove("body") /\ RemoveOps[2] = Remove("json") /\ RemoveOps[3] = Sync
      /\ BringBack \in Seq(Ops) /\ Len(BringBack) = 2
      /\ BringBack[1] = Remove("body") /\ BringBack[2] = Rename("bodyBak", "body")
      /\ DropBody \in Seq(Ops) /\ Len(DropBody) = 1 /\ DropBody[1] = Remove("body")
      /\ Restore \in Seq(Ops) /\ Len(Restore) = 2
      /\ Restore[1] = Rename("bodyBak", "body") /\ Restore[2] = Rename("jsonBak", "json")
  BY DEF DropPair, UndoAside, RemoveOps, BringBack, DropBody, Restore, Ops, Files
<1>3. /\ Undo \in Seq(Ops) /\ Len(Undo) = 4
      /\ Undo[1] = Remove("body") /\ Undo[2] = Remove("json")
      /\ Undo[3] = Rename("bodyBak", "body") /\ Undo[4] = Rename("jsonBak", "json")
  <2>1. Undo \in Seq(Ops) /\ Joins(Undo, DropPair, Restore)
    <3>1. Undo = DropPair \o Restore /\ DropPair \in Seq(Ops) /\ Restore \in Seq(Ops)
      BY <1>2 DEF Undo
    <3> QED
      BY <3>1, Joining, Zenon
  <2>2. /\ Len(Undo) = 2 + 2 /\ Undo[1] = DropPair[1] /\ Undo[2] = DropPair[2]
        /\ \A i \in 1 .. 2 : Undo[2 + i] = Restore[i]
    BY <1>2, <2>1 DEF Joins
  <2>3. Undo[2 + 1] = Restore[1] /\ Undo[2 + 2] = Restore[2]
    BY <2>2
  <2> QED
    BY <1>2, <2>1, <2>2, <2>3
<1>13. /\ DropAll \in Seq(Ops) /\ Len(DropAll) = 3
       /\ DropAll[1] = Remove("body") /\ DropAll[2] = Remove("json") /\ DropAll[3] = Remove("body")
  <2>1. DropAll \in Seq(Ops) /\ Joins(DropAll, DropPair, DropBody)
    <3>1. DropAll = DropPair \o DropBody /\ DropPair \in Seq(Ops) /\ DropBody \in Seq(Ops)
      BY <1>2 DEF DropAll
    <3> QED
      BY <3>1, Joining, Zenon
  <2>2. /\ Len(DropAll) = 2 + 1 /\ DropAll[1] = DropPair[1] /\ DropAll[2] = DropPair[2]
        /\ \A i \in 1 .. 1 : DropAll[2 + i] = DropBody[i]
    BY <1>2, <2>1 DEF Joins
  <2>3. DropAll[2 + 1] = DropBody[1]
    BY <2>2
  <2> QED
    BY <1>2, <2>1, <2>2, <2>3
<1> DEFINE rest == d \o y  short == p \o rest  aside == s \o short
<1>4. PutAll = d \o aside /\ PutOps(FALSE) = short
  <2>1. PutAll = ((((d \o s) \o p) \o d) \o y) /\ PutOps(FALSE) = (((<<>> \o p) \o d) \o y)
    BY DEF PutAll, PutOps
  <2> HIDE DEF d, s, p, y
  <2>2. (((<<>> \o p) \o d) \o y) = p \o (d \o y)
    BY <1>1
  <2>3. ((((d \o s) \o p) \o d) \o y) = d \o (s \o (p \o (d \o y)))
    BY <1>1
  <2> QED
    BY <2>1, <2>2, <2>3
<1> HIDE DEF d, s, p, y
<1>5. /\ rest \in Seq(Ops) /\ Joins(rest, d, y) /\ short \in Seq(Ops) /\ Joins(short, p, rest)
      /\ aside \in Seq(Ops) /\ Joins(aside, s, short) /\ PutAll \in Seq(Ops) /\ Joins(PutAll, d, aside)
  BY <1>1, <1>4, Joining, Zenon
<1> HIDE DEF rest, short, aside
<1>6. /\ Len(rest) = 3 /\ rest[1] = Remove("bodyBak") /\ rest[2] = Remove("jsonBak") /\ rest[3] = Sync
  <2>1. /\ Len(rest) = 2 + 1 /\ rest[1] = d[1] /\ rest[2] = d[2]
        /\ \A i \in 1 .. 1 : rest[2 + i] = y[i]
    BY <1>1, <1>5 DEF Joins
  <2>2. rest[2 + 1] = y[1]
    BY <2>1
  <2> QED
    BY <1>1, <2>1, <2>2
<1>7. /\ Len(short) = 5 /\ short[1] = Install("body") /\ short[2] = Install("json")
      /\ short[3] = Remove("bodyBak") /\ short[4] = Remove("jsonBak") /\ short[5] = Sync
  <2>1. /\ Len(short) = 2 + 3 /\ short[1] = p[1] /\ short[2] = p[2]
        /\ \A i \in 1 .. 3 : short[2 + i] = rest[i]
    BY <1>1, <1>5, <1>6 DEF Joins
  <2>2. short[2 + 1] = rest[1] /\ short[2 + 2] = rest[2] /\ short[2 + 3] = rest[3]
    BY <2>1
  <2> QED
    BY <1>1, <1>6, <2>1, <2>2
<1>8. /\ Len(aside) = 7 /\ aside[1] = Rename("body", "bodyBak") /\ aside[2] = Rename("json", "jsonBak")
      /\ \A i \in 1 .. 5 : aside[2 + i] = short[i]
  BY <1>1, <1>5, <1>7 DEF Joins
<1>9. /\ Len(PutAll) = 9 /\ PutAll[1] = Remove("bodyBak") /\ PutAll[2] = Remove("jsonBak")
      /\ PutAll[3] = Rename("body", "bodyBak") /\ PutAll[4] = Rename("json", "jsonBak")
      /\ \A i \in 1 .. 5 : PutAll[4 + i] = short[i]
  <2>1. /\ Len(PutAll) = 2 + 7 /\ PutAll[1] = d[1] /\ PutAll[2] = d[2]
        /\ \A i \in 1 .. 7 : PutAll[2 + i] = aside[i]
    BY <1>1, <1>5, <1>8 DEF Joins
  <2>2. PutAll[2 + 1] = aside[1] /\ PutAll[2 + 2] = aside[2]
    BY <2>1
  <2>3. ASSUME NEW i \in 1 .. 5 PROVE PutAll[4 + i] = short[i]
    <3>1. 2 + i \in 1 .. 7 /\ 2 + (2 + i) = 4 + i
      OBVIOUS
    <3> QED
      BY <1>8, <2>1, <3>1
  <2> QED
    BY <1>1, <1>8, <2>1, <2>2, <2>3
<1>10. /\ PutAll[4 + 1] = Install("body") /\ PutAll[4 + 2] = Install("json")
       /\ PutAll[4 + 3] = Remove("bodyBak") /\ PutAll[4 + 4] = Remove("jsonBak") /\ PutAll[4 + 5] = Sync
  BY <1>7, <1>9
<1>11. PutAll[5] = Install("body") /\ PutAll[6] = Install("json") /\ PutAll[7] = Remove("bodyBak")
       /\ PutAll[8] = Remove("jsonBak") /\ PutAll[9] = Sync
  BY <1>10
<1>12. PutOps(FALSE) \in Seq(Ops) /\ Len(PutOps(FALSE)) = 5 /\ \A i \in 1 .. 5 : PutOps(FALSE)[i] = PutAll[4 + i]
  BY <1>4, <1>5, <1>7, <1>9
<1> QED
  BY <1>1, <1>2, <1>3, <1>5, <1>9, <1>11, <1>12, <1>13 DEF d

\* The last operations of a program are taken one by one.
LEMMA Takes ==
    ASSUME NEW program \in Seq(Ops), Left(program), todo \in Seq(Ops), todo # <<>>, todo' = Tail(todo)
    PROVE  /\ Left(program)' /\ todo' \in Seq(Ops) /\ todo' = Tail(todo) /\ Len(todo') = Len(todo) - 1
           /\ Len(todo) \in 1 .. Len(program) /\ Head(todo) = program[Len(program) - Len(todo) + 1]
<1>1. todo # <<>> /\ todo' = Tail(todo)
  OBVIOUS
<1>2. /\ todo' \in Seq(Ops) /\ Len(todo') = Len(todo) - 1 /\ Len(todo) \in Nat \ {0} /\ Head(todo) = todo[1]
      /\ \A i \in 1 .. Len(todo') : todo'[i] = todo[i + 1]
  BY <1>1
<1>3. Len(todo) \in 1 .. Len(program) /\ Len(program) \in Nat
  BY <1>2 DEF Left
<1>4. ASSUME NEW i \in 1 .. Len(todo') PROVE todo'[i] = program[Len(program) - Len(todo') + i]
  <2>1. i + 1 \in 1 .. Len(todo) /\ Len(program) - Len(todo) + (i + 1) = Len(program) - Len(todo') + i
    BY <1>2, <1>3
  <2> QED
    BY <1>2, <2>1 DEF Left
<1>5. Len(todo') <= Len(program)
  BY <1>2, <1>3
<1>6. Head(todo) = program[Len(program) - Len(todo) + 1]
  BY <1>2 DEF Left
<1> QED
  BY <1>1, <1>2, <1>3, <1>4, <1>5, <1>6 DEF Left

\* All of a program is left at first, and nothing at last.
LEMMA AllLeft == ASSUME NEW program \in Seq(Ops), todo' = program PROVE Left(program)'
BY DEF Left

LEMMA NothingLeft == ASSUME NEW program \in Seq(Ops), todo' = <<>> PROVE Left(program)'
BY DEF Left

Becomes(content, json, bodyBak, jsonBak) == Is(disk', content, json, bodyBak, jsonBak)

\* What an operation leaves in the four files.
Effect(o) ==
    LET content == disk["body"]
        json == disk["json"]
        bodyBak == disk["bodyBak"]
        jsonBak == disk["jsonBak"]
    IN /\ o = Remove("body") => Becomes(0, json, bodyBak, jsonBak)
       /\ o = Remove("json") => Becomes(content, 0, bodyBak, jsonBak)
       /\ o = Remove("bodyBak") => Becomes(content, json, 0, jsonBak)
       /\ o = Remove("jsonBak") => Becomes(content, json, bodyBak, 0)
       /\ o = Install("body") => Becomes(writing, json, bodyBak, jsonBak)
       /\ o = Install("json") => Becomes(content, writing, bodyBak, jsonBak)
       /\ o = Sync => Becomes(content, json, bodyBak, jsonBak)
       /\ o = Rename("body", "bodyBak") => Becomes(0, json, IF content = 0 THEN bodyBak ELSE content, jsonBak)
       /\ o = Rename("json", "jsonBak") => Becomes(content, 0, bodyBak, IF json = 0 THEN jsonBak ELSE json)
       /\ o = Rename("bodyBak", "body") => Becomes(IF bodyBak = 0 THEN content ELSE bodyBak, json, 0, jsonBak)
       /\ o = Rename("jsonBak", "json") => Becomes(content, IF jsonBak = 0 THEN json ELSE jsonBak, bodyBak, 0)

LEMMA Effects ==
    ASSUME disk \in [Files -> Versions], writing \in Versions, Step
    PROVE  /\ Effect(Head(todo)) /\ (Head(todo) \in Ops => disk' \in [Files -> Versions])
           /\ UNCHANGED <<phase, index, writing, accepted, faults>>
<1> DEFINE o == Head(todo)
<1>1. disk' = Apply(o) /\ UNCHANGED <<phase, index, writing, accepted, faults>>
  BY DEF Step
<1> HIDE DEF o
<1>2. /\ \A f \in Files : o = Remove(f) => disk' = [disk EXCEPT ![f] = 0]
      /\ \A f \in Files : o = Install(f) => disk' = [disk EXCEPT ![f] = writing]
      /\ o = Sync => disk' = disk
  <2>1. ASSUME NEW f \in Files, o = Remove(f) PROVE disk' = [disk EXCEPT ![f] = 0]
    <3>1. o.op = "remove" /\ o.from = f
      BY <2>1 DEF Remove
    <3> QED
      BY <1>1, <3>1 DEF Apply
  <2>2. ASSUME NEW f \in Files, o = Install(f) PROVE disk' = [disk EXCEPT ![f] = writing]
    <3>1. o.op = "install" /\ o.to = f
      BY <2>2 DEF Install
    <3> QED
      BY <1>1, <3>1 DEF Apply
  <2>3. ASSUME o = Sync PROVE disk' = disk
    <3>1. o.op = "sync"
      BY <2>3 DEF Sync
    <3> QED
      BY <1>1, <3>1 DEF Apply
  <2> QED
    BY <2>1, <2>2, <2>3
<1>3. \A f, g \in Files : o = Rename(f, g) => disk' = IF disk[f] = 0 THEN disk ELSE [disk EXCEPT ![g] = disk[f], ![f] = 0]
  BY <1>1 DEF Apply, Missing, Rename
<1>4. /\ o = Remove("body") => Becomes(0, disk["json"], disk["bodyBak"], disk["jsonBak"])
      /\ o = Remove("json") => Becomes(disk["body"], 0, disk["bodyBak"], disk["jsonBak"])
      /\ o = Remove("bodyBak") => Becomes(disk["body"], disk["json"], 0, disk["jsonBak"])
      /\ o = Remove("jsonBak") => Becomes(disk["body"], disk["json"], disk["bodyBak"], 0)
      /\ o = Install("body") => Becomes(writing, disk["json"], disk["bodyBak"], disk["jsonBak"])
      /\ o = Install("json") => Becomes(disk["body"], writing, disk["bodyBak"], disk["jsonBak"])
      /\ o = Sync => Becomes(disk["body"], disk["json"], disk["bodyBak"], disk["jsonBak"])
  BY <1>2 DEF Becomes, Is, Files
<1>5. o = Rename("body", "bodyBak") =>
         Becomes(0, disk["json"], IF disk["body"] = 0 THEN disk["bodyBak"] ELSE disk["body"], disk["jsonBak"])
  BY <1>3 DEF Becomes, Is, Files
<1>6. o = Rename("json", "jsonBak") =>
         Becomes(disk["body"], 0, disk["bodyBak"], IF disk["json"] = 0 THEN disk["jsonBak"] ELSE disk["json"])
  BY <1>3 DEF Becomes, Is, Files
<1>7. o = Rename("bodyBak", "body") =>
         Becomes(IF disk["bodyBak"] = 0 THEN disk["body"] ELSE disk["bodyBak"], disk["json"], 0, disk["jsonBak"])
  BY <1>3 DEF Becomes, Is, Files
<1>8. o = Rename("jsonBak", "json") =>
         Becomes(disk["body"], IF disk["jsonBak"] = 0 THEN disk["json"] ELSE disk["jsonBak"], disk["bodyBak"], 0)
  BY <1>3 DEF Becomes, Is, Files
<1>9. ASSUME o \in Ops PROVE disk' \in [Files -> Versions]
  <2>1. 0 \in Versions
    BY CachePairAssumption DEF Versions
  <2>2. CASE \E f \in Files : o = Remove(f) \/ o = Install(f)
    BY <1>2, <2>1, <2>2
  <2>3. CASE o = Sync
    BY <1>2, <2>3
  <2>4. CASE \E f, g \in Files : o = Rename(f, g)
    BY <1>3, <2>1, <2>4
  <2>5. "body" \in Files /\ "json" \in Files /\ "bodyBak" \in Files /\ "jsonBak" \in Files
    BY DEF Files
  <2> QED
    BY <1>9, <2>2, <2>3, <2>4, <2>5 DEF Ops
<1> QED
  BY <1>1, <1>4, <1>5, <1>6, <1>7, <1>8, <1>9 DEF Effect, o

-----------------------------------------------------------------------------
(* What the store has left to do                                            *)
ProgInv == PairTyped /\ ProgramOK

\* The operation a program is at.
LEMMA HeadOf ==
    ASSUME NEW program \in Seq(Ops), NEW length \in Nat, Len(program) = length,
           todo \in Seq(Ops), todo # <<>>, Left(program)
    PROVE  /\ Len(todo) \in 1 .. length
           /\ \A n \in 1 .. length : Len(todo) = n => Head(todo) = program[length - n + 1]
<1>1. Len(todo) \in Nat \ {0}
  OBVIOUS
<1>2. Head(todo) = todo[1]
  OBVIOUS
<1>3. Len(todo) <= length /\ \A i \in 1 .. Len(todo) : todo[i] = program[length - Len(todo) + i]
  BY DEF Left
<1>4. Len(todo) \in 1 .. length /\ 1 \in 1 .. Len(todo)
  <2>1. Len(todo) <= length
    BY <1>3
  <2>2. \A n \in Nat \ {0} : n <= length => n \in 1 .. length /\ 1 \in 1 .. n
    OBVIOUS
  <2> QED
    BY <1>1, <2>1, <2>2, Zenon
<1>5. Head(todo) = program[length - Len(todo) + 1]
  BY <1>2, <1>3, <1>4, Zenon
<1> QED
  BY <1>4, <1>5, Zenon

LEMMA PutHead ==
    ASSUME todo \in Seq(Ops), todo # <<>>, Left(PutAll)
    PROVE  /\ Len(todo) \in 1 .. 9
           /\ Len(todo) \in {3, 9} => Head(todo) = Remove("bodyBak")
           /\ Len(todo) \in {2, 8} => Head(todo) = Remove("jsonBak")
           /\ Len(todo) = 7 => Head(todo) = Rename("body", "bodyBak")
           /\ Len(todo) = 6 => Head(todo) = Rename("json", "jsonBak")
           /\ Len(todo) = 5 => Head(todo) = Install("body")
           /\ Len(todo) = 4 => Head(todo) = Install("json")
           /\ Len(todo) = 1 => Head(todo) = Sync
<1>1. Len(todo) \in 1 .. 9 /\ \A n \in 1 .. 9 : Len(todo) = n => Head(todo) = PutAll[9 - n + 1]
  BY HeadOf, Programs, Zenon
<1>2. /\ Len(todo) = 9 => Head(todo) = PutAll[1]
      /\ Len(todo) = 8 => Head(todo) = PutAll[2]
      /\ Len(todo) = 7 => Head(todo) = PutAll[3]
      /\ Len(todo) = 6 => Head(todo) = PutAll[4]
      /\ Len(todo) = 5 => Head(todo) = PutAll[5]
      /\ Len(todo) = 4 => Head(todo) = PutAll[6]
      /\ Len(todo) = 3 => Head(todo) = PutAll[7]
      /\ Len(todo) = 2 => Head(todo) = PutAll[8]
      /\ Len(todo) = 1 => Head(todo) = PutAll[9]
  BY <1>1
<1> QED
  BY <1>1, <1>2, Programs

LEMMA ShortHeads ==
    ASSUME todo \in Seq(Ops), todo # <<>>
    PROVE  /\ Left(Undo) => /\ Len(todo) \in 1 .. 4
                            /\ Len(todo) = 4 => Head(todo) = Remove("body")
                            /\ Len(todo) = 3 => Head(todo) = Remove("json")
                            /\ Len(todo) = 2 => Head(todo) = Rename("bodyBak", "body")
                            /\ Len(todo) = 1 => Head(todo) = Rename("jsonBak", "json")
           /\ Left(RemoveOps) => /\ Len(todo) \in 1 .. 3
                                 /\ Len(todo) = 3 => Head(todo) = Remove("body")
                                 /\ Len(todo) = 2 => Head(todo) = Remove("json")
                                 /\ Len(todo) = 1 => Head(todo) = Sync
           /\ Left(DropPair) => /\ Len(todo) \in 1 .. 2
                                /\ Len(todo) = 2 => Head(todo) = Remove("body")
                                /\ Len(todo) = 1 => Head(todo) = Remove("json")
           /\ Left(BringBack) => /\ Len(todo) \in 1 .. 2
                                 /\ Len(todo) = 2 => Head(todo) = Remove("body")
                                 /\ Len(todo) = 1 => Head(todo) = Rename("bodyBak", "body")
           /\ Left(DropBackups) => /\ Len(todo) \in 1 .. 2
                                   /\ Len(todo) = 2 => Head(todo) = Remove("bodyBak")
                                   /\ Len(todo) = 1 => Head(todo) = Remove("jsonBak")
           /\ Left(UndoAside) => Len(todo) = 1 /\ Head(todo) = Rename("bodyBak", "body")
           /\ Left(DropBody) => Len(todo) = 1 /\ Head(todo) = Remove("body")
           /\ Left(DropAll) => /\ Len(todo) \in 1 .. 3
                               /\ Len(todo) = 3 => Head(todo) = Remove("body")
                               /\ Len(todo) = 2 => Head(todo) = Remove("json")
                               /\ Len(todo) = 1 => Head(todo) = Remove("body")
<1>1. ASSUME Left(Undo)
      PROVE  /\ Len(todo) \in 1 .. 4
             /\ Len(todo) = 4 => Head(todo) = Undo[1]
             /\ Len(todo) = 3 => Head(todo) = Undo[2]
             /\ Len(todo) = 2 => Head(todo) = Undo[3]
             /\ Len(todo) = 1 => Head(todo) = Undo[4]
  <2>1. Len(todo) \in 1 .. 4 /\ \A n \in 1 .. 4 : Len(todo) = n => Head(todo) = Undo[4 - n + 1]
    BY <1>1, HeadOf, Programs, Zenon
  <2> QED
    BY <2>1
<1>2. ASSUME Left(RemoveOps)
      PROVE  /\ Len(todo) \in 1 .. 3
             /\ Len(todo) = 3 => Head(todo) = RemoveOps[1]
             /\ Len(todo) = 2 => Head(todo) = RemoveOps[2]
             /\ Len(todo) = 1 => Head(todo) = RemoveOps[3]
  <2>1. Len(todo) \in 1 .. 3 /\ \A n \in 1 .. 3 : Len(todo) = n => Head(todo) = RemoveOps[3 - n + 1]
    BY <1>2, HeadOf, Programs, Zenon
  <2> QED
    BY <2>1
<1>3. ASSUME Left(DropPair)
      PROVE  /\ Len(todo) \in 1 .. 2
             /\ Len(todo) = 2 => Head(todo) = DropPair[1]
             /\ Len(todo) = 1 => Head(todo) = DropPair[2]
  <2>1. Len(todo) \in 1 .. 2 /\ \A n \in 1 .. 2 : Len(todo) = n => Head(todo) = DropPair[2 - n + 1]
    BY <1>3, HeadOf, Programs, Zenon
  <2> QED
    BY <2>1
<1>4. ASSUME Left(BringBack)
      PROVE  /\ Len(todo) \in 1 .. 2
             /\ Len(todo) = 2 => Head(todo) = BringBack[1]
             /\ Len(todo) = 1 => Head(todo) = BringBack[2]
  <2>1. Len(todo) \in 1 .. 2 /\ \A n \in 1 .. 2 : Len(todo) = n => Head(todo) = BringBack[2 - n + 1]
    BY <1>4, HeadOf, Programs, Zenon
  <2> QED
    BY <2>1
<1>5. ASSUME Left(DropBackups)
      PROVE  /\ Len(todo) \in 1 .. 2
             /\ Len(todo) = 2 => Head(todo) = DropBackups[1]
             /\ Len(todo) = 1 => Head(todo) = DropBackups[2]
  <2>1. Len(todo) \in 1 .. 2 /\ \A n \in 1 .. 2 : Len(todo) = n => Head(todo) = DropBackups[2 - n + 1]
    BY <1>5, HeadOf, Programs
  <2> QED
    BY <2>1
<1>6. ASSUME Left(UndoAside)
      PROVE  /\ Len(todo) \in 1 .. 1
             /\ Len(todo) = 1 => Head(todo) = UndoAside[1]
  <2>1. Len(todo) \in 1 .. 1 /\ \A n \in 1 .. 1 : Len(todo) = n => Head(todo) = UndoAside[1 - n + 1]
    BY <1>6, HeadOf, Programs
  <2> QED
    BY <2>1
<1>7. ASSUME Left(DropBody)
      PROVE  /\ Len(todo) \in 1 .. 1
             /\ Len(todo) = 1 => Head(todo) = DropBody[1]
  <2>1. Len(todo) \in 1 .. 1 /\ \A n \in 1 .. 1 : Len(todo) = n => Head(todo) = DropBody[1 - n + 1]
    BY <1>7, HeadOf, Programs
  <2> QED
    BY <2>1
<1>8. ASSUME Left(DropAll)
      PROVE  /\ Len(todo) \in 1 .. 3
             /\ Len(todo) = 3 => Head(todo) = DropAll[1]
             /\ Len(todo) = 2 => Head(todo) = DropAll[2]
             /\ Len(todo) = 1 => Head(todo) = DropAll[3]
  <2>1. Len(todo) \in 1 .. 3 /\ \A n \in 1 .. 3 : Len(todo) = n => Head(todo) = DropAll[3 - n + 1]
    BY <1>8, HeadOf, Programs, Zenon
  <2> QED
    BY <2>1
<1> QED
  BY <1>1, <1>2, <1>3, <1>4, <1>5, <1>6, <1>7, <1>8, Programs

\* An operation of a put fails: what is undone depends on how far it came.
LEMMA Failing ==
    ASSUME ProgInv, PutFails
    PROVE  /\ UNCHANGED <<disk, index, writing, accepted>> /\ phase = "put" /\ phase' = "failing"
           /\ \/ Len(todo) \in {1, 7} /\ todo' = <<>>
              \/ Len(todo) = 6 /\ todo' = UndoAside
              \/ Len(todo) \in {4, 5} /\ index # 0 /\ todo' = Undo
              \/ Len(todo) \in {4, 5} /\ index = 0 /\ todo' = DropPair
           /\ \/ Len(todo) = 7 /\ disk["body"] = 0 /\ faults' = faults
              \/ Len(todo) = 6 /\ disk["json"] = 0 /\ faults' = faults
              \/ Len(todo) = 1 /\ Fault("sync")
              \/ Len(todo) \notin {0, 1} /\ Fault("rename")
<1> DEFINE o == Head(todo)
<1>1. /\ phase = "put" /\ todo # <<>> /\ phase' = "failing" /\ UNCHANGED <<disk, index, writing, accepted>>
      /\ o.op # "remove" /\ todo' = Rollback(o, index # 0)
      /\ (Missing(o) /\ faults' = faults) \/ (~Missing(o) /\ Fault(FaultOf(o)))
  BY DEF PutFails
<1>2. todo \in Seq(Ops) /\ Left(PutAll)
  BY <1>1 DEF ProgInv, ProgramOK
<1>3. Len(todo) \in 1 .. 9
  BY <1>1, <1>2, PutHead
<1> HIDE DEF o
<1>5. CASE Len(todo) \in {9, 8, 3, 2}
  <2>1. o = Remove("bodyBak") \/ o = Remove("jsonBak")
    BY <1>1, <1>2, <1>5, PutHead DEF o
  <2> QED
    BY <1>1, <2>1 DEF Remove
<1>6. CASE Len(todo) = 7
  <2>1. o = Rename("body", "bodyBak")
    BY <1>1, <1>2, <1>6, PutHead DEF o
  <2>2. FaultOf(o) = "rename" /\ Rollback(o, index # 0) = <<>> /\ (Missing(o) => disk["body"] = 0)
    BY <2>1 DEF FaultOf, Rollback, Rename, Missing
  <2>3. todo' = <<>> /\ ((disk["body"] = 0 /\ faults' = faults) \/ Fault("rename"))
    BY <1>1, <2>2
  <2>4. Len(todo) \in {1, 7} /\ Len(todo) \notin {0, 1}
    BY <1>6
  <2> QED
    BY <1>1, <1>6, <2>3, <2>4, Zenon
<1>7. CASE Len(todo) = 6
  <2>1. o = Rename("json", "jsonBak")
    BY <1>1, <1>2, <1>7, PutHead DEF o
  <2>2. FaultOf(o) = "rename" /\ o # Rename("body", "bodyBak") /\ o.op = "rename" /\ (Missing(o) => disk["json"] = 0)
    BY <2>1 DEF FaultOf, Rename, Missing
  <2>3. Rollback(o, index # 0) = UndoAside
    BY <2>1, <2>2 DEF Rollback, UndoAside
  <2>4. todo' = UndoAside /\ ((disk["json"] = 0 /\ faults' = faults) \/ Fault("rename"))
    BY <1>1, <2>2, <2>3
  <2>5. Len(todo) \notin {0, 1}
    BY <1>7
  <2> QED
    BY <1>1, <1>7, <2>4, <2>5, Zenon
<1>8. CASE Len(todo) \in {4, 5}
  <2>1. o = Install("body") \/ o = Install("json")
    BY <1>1, <1>2, <1>8, PutHead DEF o
  <2>2. o.op = "install" /\ o # Rename("body", "bodyBak") /\ o # Rename("json", "jsonBak")
    BY <2>1 DEF Install, Rename
  <2>3. Fault("rename")
    BY <1>1, <2>2 DEF FaultOf, Missing
  <2>4. Rollback(o, index # 0) = DropPair \o (IF index # 0 THEN Restore ELSE <<>>)
    BY <2>2 DEF Rollback
  <2>0. Len(todo) \notin {0, 1}
    <3>1. \A m \in {4, 5} : m \notin {0, 1}
      OBVIOUS
    <3> QED
      BY <1>8, <3>1, Zenon
  <2>5. CASE index # 0
    <3>1. Rollback(o, index # 0) = Undo
      BY <2>4, <2>5 DEF Undo
    <3>2. todo' = Undo
      BY <1>1, <3>1
    <3> QED
      BY <1>1, <1>8, <2>0, <2>3, <2>5, <3>2, Zenon
  <2>6. CASE index = 0
    <3>1. DropPair \o <<>> = DropPair
      BY Programs
    <3>2. Rollback(o, index # 0) = DropPair
      BY <2>4, <2>6, <3>1
    <3>3. todo' = DropPair
      BY <1>1, <3>2
    <3> QED
      BY <1>1, <1>8, <2>0, <2>3, <2>6, <3>3, Zenon
  <2> QED
    BY <2>5, <2>6
<1>9. CASE Len(todo) = 1
  <2>1. o = Sync
    BY <1>1, <1>2, <1>9, PutHead DEF o
  <2>2. o.op = "sync" /\ o # Rename("body", "bodyBak") /\ o # Rename("json", "jsonBak")
    BY <2>1 DEF Sync, Rename
  <2>3. FaultOf(o) = "sync" /\ Rollback(o, index # 0) = <<>> /\ ~Missing(o)
    BY <2>2 DEF FaultOf, Rollback, Missing
  <2>4. todo' = <<>> /\ Fault("sync")
    BY <1>1, <2>3
  <2> QED
    BY <1>1, <1>9, <2>4
<1> QED
  BY <1>3, <1>5, <1>6, <1>7, <1>8, <1>9

LEMMA FaultsTyped ==
    ASSUME NEW k \in Kinds, faults \in [Kinds -> Nat], faults' = [faults EXCEPT ![k] = @ + 1]
    PROVE  /\ faults' \in [Kinds -> Nat] /\ faults'[k] = faults[k] + 1
           /\ \A j \in Kinds : faults'[j] >= faults[j]
           /\ TotalFaults \in Nat /\ TotalFaults' = TotalFaults + 1
           /\ LostOps \in Nat /\ LostOps' = IF k \in {"rename", "remove"} THEN LostOps + 1 ELSE LostOps
<1>1. /\ faults' \in [Kinds -> Nat] /\ faults'[k] = faults[k] + 1
      /\ \A j \in Kinds : j # k => faults'[j] = faults[j]
      /\ \A j \in Kinds : faults[j] \in Nat
  OBVIOUS
<1>2. /\ "crash" \in Kinds /\ "rename" \in Kinds /\ "remove" \in Kinds /\ "sync" \in Kinds
      /\ k \in {"crash", "rename", "remove", "sync"}
  BY DEF Kinds
<1> QED
  BY <1>1, <1>2 DEF TotalFaults, LostOps

LEMMA FaultCounts ==
    ASSUME ProgInv, NEW k, Fault(k)
    PROVE  /\ k \in Kinds /\ faults' = [faults EXCEPT ![k] = @ + 1] /\ faults' \in [Kinds -> Nat]
           /\ TotalFaults \in Nat /\ TotalFaults' = TotalFaults + 1 /\ TotalFaults < MaxFaults
           /\ LostOps \in Nat /\ LostOps' = IF k \in {"rename", "remove"} THEN LostOps + 1 ELSE LostOps
<1>1. k \in Kinds /\ faults' = [faults EXCEPT ![k] = @ + 1] /\ TotalFaults < MaxFaults /\ faults \in [Kinds -> Nat]
  BY CachePairAssumption DEF Fault, ProgInv, PairTyped
<1> QED
  BY <1>1, FaultsTyped

\* An operation that did not happen is gone from the program.
LEMMA Advancing ==
    ASSUME ProgInv, todo # <<>>, todo' = Tail(todo)
    PROVE  /\ todo \in Seq(Ops) /\ todo' \in Seq(Ops)
           /\ Len(todo) \in Nat \ {0} /\ Len(todo') = Len(todo) - 1
           /\ Len(todo) = 1 => todo' = <<>>
           /\ Len(todo) # 1 => todo' # <<>>
           /\ \A program \in {PutAll, Undo, DropPair, UndoAside, RemoveOps, BringBack, DropBackups, DropBody, DropAll} :
                  Left(program) => Left(program)'
<1>1. todo \in Seq(Ops)
  BY DEF ProgInv, ProgramOK
<1>2. Len(todo) \in Nat \ {0} /\ Len(todo') = Len(todo) - 1 /\ todo' \in Seq(Ops)
  BY <1>1
<1>3. Len(todo) = 1 => todo' = <<>>
  BY <1>1, <1>2
<1>4. Len(todo) # 1 => todo' # <<>>
  <2>1. ASSUME todo' = <<>> PROVE Len(todo) = 1
    <3>1. Len(todo') = Len(<<>>) /\ Len(<<>>) = 0
      BY <2>1
    <3> QED
      BY <1>2, <3>1
  <2> QED
    BY <2>1
<1>5. \A program \in {PutAll, Undo, DropPair, UndoAside, RemoveOps, BringBack, DropBackups, DropBody, DropAll} :
          Left(program) => Left(program)'
  BY <1>1, Programs, Takes
<1> QED
  BY <1>1, <1>2, <1>3, <1>4, <1>5

\* Where the code throws an error away, it is of a rename or a removal.
LEMMA Skipping ==
    ASSUME ProgInv, Unnoticed
    PROVE  /\ UNCHANGED <<disk, phase, index, writing, accepted>> /\ todo # <<>> /\ todo' = Tail(todo)
           /\ phase \in {"put", "failing", "pass1", "pass2", "load"}
           /\ phase = "put" => Len(todo) \in {2, 3, 8, 9}
           /\ phase \in {"put", "load"} => Fault("remove")
           /\ Fault("rename") \/ Fault("remove")
<1>1. /\ UNCHANGED <<disk, phase, index, writing, accepted>> /\ todo # <<>> /\ todo' = Tail(todo)
      /\ phase \in {"put", "failing", "pass1", "pass2", "load"} /\ Fault(FaultOf(Head(todo)))
      /\ phase = "put" => Head(todo).op = "remove"
  BY DEF Unnoticed
<1>2. todo \in Seq(Ops) /\ (phase = "put" => Left(PutAll))
  BY DEF ProgInv, ProgramOK
<1>3. CASE phase = "put"
  <2>1. Len(todo) \in 1 .. 9 /\ Len(todo) \notin {1, 4, 5, 6, 7}
    BY <1>1, <1>2, <1>3, PutHead DEF Rename, Install, Sync
  <2>2. Len(todo) \in {2, 3, 8, 9}
    BY <2>1
  <2>3. Fault("remove")
    BY <1>1, <1>3 DEF FaultOf
  <2> QED
    BY <1>1, <2>2, <2>3
<1>4. CASE phase # "put"
  <2>1. \/ phase # "load" /\ (Left(Undo) \/ Left(DropPair) \/ Left(UndoAside) \/ Left(BringBack) \/ Left(DropBackups))
        \/ phase = "load" /\ (Left(DropAll) \/ Left(DropBody))
    BY <1>1, <1>4 DEF ProgInv, ProgramOK
  <2>2. \/ phase # "load" /\ (\/ \E f \in Files : Head(todo) = Remove(f)
                             \/ \E f, g \in Files : Head(todo) = Rename(f, g))
        \/ phase = "load" /\ \E f \in Files : Head(todo) = Remove(f)
    <3>1. "body" \in Files /\ "json" \in Files /\ "bodyBak" \in Files /\ "jsonBak" \in Files
      BY DEF Files
    <3>2. \/ phase # "load" /\ Head(todo) \in {Remove("body"), Remove("json"), Remove("bodyBak"), Remove("jsonBak"),
                                              Rename("bodyBak", "body"), Rename("jsonBak", "json")}
          \/ phase = "load" /\ Head(todo) \in {Remove("body"), Remove("json")}
      BY <1>1, <1>2, <2>1, ShortHeads
    <3> QED
      BY <3>1, <3>2
  <2>3. /\ \A f \in Files : FaultOf(Remove(f)) = "remove"
        /\ \A f, g \in Files : FaultOf(Rename(f, g)) = "rename"
    BY DEF FaultOf, Remove, Rename
  <2>4. FaultOf(Head(todo)) \in {"rename", "remove"} /\ (phase = "load" => FaultOf(Head(todo)) = "remove")
    BY <2>2, <2>3
  <2> QED
    BY <1>1, <1>4, <2>4
<1> QED
  BY <1>3, <1>4

\* How a put begins.
LEMMA PutBegins ==
    ASSUME PairTyped, BeginPut
    PROVE  /\ phase = "idle" /\ phase' = "put" /\ UNCHANGED <<disk, index, faults>>
           /\ writing' \in Versions \ {0, index} /\ accepted' = accepted \union {writing'} /\ accepted' \subseteq Versions
           /\ todo' \in Seq(Ops) /\ Left(PutAll)' /\ Len(todo') = IF index = 0 THEN 5 ELSE 9
<1>1. /\ phase = "idle" /\ phase' = "put" /\ UNCHANGED <<disk, index, faults>>
      /\ writing' \in Fresh /\ accepted' = accepted \union {writing'} /\ todo' = PutOps(index # 0)
  BY DEF BeginPut
<1>2. writing' \in Versions \ {0, index}
  BY <1>1, CachePairAssumption DEF Fresh, Versions
<1>3. todo' \in Seq(Ops) /\ Left(PutAll)' /\ Len(todo') = IF index = 0 THEN 5 ELSE 9
  <2>1. CASE index = 0
    <3>1. todo' = PutOps(FALSE)
      BY <1>1, <2>1
    <3>2. /\ Len(todo') = 5 /\ todo' \in Seq(Ops) /\ Len(PutAll) = 9
          /\ \A i \in 1 .. 5 : todo'[i] = PutAll[4 + i]
      BY <3>1, Programs
    <3>3. ASSUME NEW i \in 1 .. Len(todo') PROVE todo'[i] = PutAll[Len(PutAll) - Len(todo') + i]
      <4>1. Len(PutAll) - Len(todo') + i = 4 + i /\ i \in 1 .. 5
        BY <3>2
      <4> QED
        BY <3>2, <4>1
    <3> QED
      BY <2>1, <3>2, <3>3 DEF Left
  <2>2. CASE index # 0
    <3>1. todo' = PutAll
      BY <1>1, <2>2 DEF PutAll
    <3> QED
      BY <2>2, <3>1, Programs, AllLeft
  <2> QED
    BY <2>1, <2>2
<1> QED
  BY <1>1, <1>2, <1>3 DEF PairTyped

\* A step of the store takes one operation and touches nothing but the disk.
LEMMA Stepping ==
    ASSUME ProgInv, Step
    PROVE  /\ todo \in Seq(Ops) /\ todo # <<>> /\ Effect(Head(todo))
           /\ UNCHANGED <<phase, index, writing, accepted, faults>>
           /\ Len(todo) \in Nat \ {0} /\ Len(todo') = Len(todo) - 1
           /\ Len(todo) = 1 => todo' = <<>>
           /\ Len(todo) # 1 => todo' # <<>>
           /\ \A program \in {PutAll, Undo, DropPair, UndoAside, RemoveOps, BringBack, DropBackups, DropBody, DropAll} :
                  Left(program) => Left(program)'
<1>1. /\ todo # <<>> /\ todo' = Tail(todo) /\ Effect(Head(todo))
      /\ UNCHANGED <<phase, index, writing, accepted, faults>>
  BY Effects DEF ProgInv, PairTyped, Step
<1> QED
  BY <1>1, Advancing

LEMMA TypedKeeps ==
    ASSUME ProgInv, Next
    PROVE  PairTyped'
<1> USE DEF ProgInv, PairTyped
<1>0. 0 \in Versions /\ \A p \in {"down", "pass1", "pass2", "load", "idle", "put", "failing", "remove"} : p \in Phases
  BY CachePairAssumption DEF Versions, Phases
<1>1. CASE BeginPut
  BY <1>0, <1>1, PutBegins
<1>2. CASE EndPut \/ EndFailedPut \/ GetDropsCorrupt \/ EndRemove \/ Start \/ EndPass1 \/ EndLoad \/ BeginRemove \/ Stop
  BY <1>0, <1>2 DEF EndPut, EndFailedPut, GetDropsCorrupt, EndRemove, Start, EndPass1, EndLoad, BeginRemove, Stop
<1>3. CASE PutFails
  <2>1. faults' \in [Kinds -> Nat]
    BY <1>3, Failing, FaultCounts
  <2> QED
    BY <1>0, <1>3, <2>1, Failing
<1>4. CASE RemoveFails
  BY <1>0, <1>4, FaultCounts DEF RemoveFails
<1>5. CASE Crash
  BY <1>0, <1>5, FaultCounts DEF Crash
<1>6. CASE EndPass2
  <2>1. Usable \in Versions
    BY <1>0 DEF Files, Usable
  <2> QED
    BY <1>0, <1>6, <2>1 DEF EndPass2
<1>8. CASE Unnoticed
  BY <1>0, <1>8, Skipping, FaultCounts
<1>9. CASE UpdateMetadata
  BY <1>0, <1>9 DEF UpdateMetadata
<1>7. CASE Step
  <2>1. Head(todo) \in Ops
    BY <1>7 DEF Step, ProgramOK
  <2> QED
    BY <1>7, <2>1, Effects
<1> QED
  BY <1>1, <1>2, <1>3, <1>4, <1>5, <1>6, <1>7, <1>8, <1>9 DEF Next

LEMMA ProgramKeeps ==
    ASSUME ProgInv, Next
    PROVE  ProgramOK'
<1>0. todo \in Seq(Ops) /\ <<>> \in Seq(Ops)
  BY DEF ProgInv, ProgramOK
<1>1. CASE BeginPut
  <2>1. Len(todo') = IF index' = 0 THEN 5 ELSE 9
    BY <1>1, PutBegins DEF ProgInv
  <2> QED
    BY <1>1, <2>1, PutBegins DEF ProgInv, ProgramOK
<1>2. CASE EndPut \/ EndFailedPut \/ EndRemove \/ RemoveFails \/ EndLoad \/ Crash \/ Stop \/ UpdateMetadata
  <2>1. phase' \in {"idle", "down"} /\ todo' = <<>>
    BY <1>2 DEF EndPut, EndFailedPut, EndRemove, RemoveFails, EndLoad, Crash, Stop, UpdateMetadata, ProgInv, ProgramOK
  <2> QED
    BY <1>0, <2>1 DEF ProgramOK
<1>3. CASE PutFails
  <2>1. phase' = "failing" /\ todo' \in {<<>>, UndoAside, Undo, DropPair}
    BY <1>3, Failing
  <2>2. todo' \in Seq(Ops) /\ (Left(Undo) \/ Left(DropPair) \/ Left(UndoAside))'
    <3>1. CASE todo' = <<>>
      BY <1>0, <3>1, Programs, NothingLeft
    <3>2. CASE todo' = UndoAside
      BY <3>2, Programs, AllLeft
    <3>3. CASE todo' = Undo
      BY <3>3, Programs, AllLeft
    <3>4. CASE todo' = DropPair
      BY <3>4, Programs, AllLeft
    <3> QED
      BY <2>1, <3>1, <3>2, <3>3, <3>4
  <2> QED
    BY <2>1, <2>2 DEF ProgramOK
<1>4. CASE BeginRemove \/ GetDropsCorrupt
  <2>1. phase' = "remove" /\ todo' = RemoveOps
    BY <1>4 DEF BeginRemove, GetDropsCorrupt
  <2>2. todo' \in Seq(Ops) /\ Left(RemoveOps)'
    BY <2>1, Programs, AllLeft
  <2> QED
    BY <2>1, <2>2 DEF ProgramOK
<1>5. CASE Start
  <2>1. phase' = "pass1" /\ todo' \in {<<>>, BringBack}
    BY <1>5 DEF Start, Pass1Ops, BringBack
  <2>2. todo' \in Seq(Ops) /\ Left(BringBack)'
    BY <1>0, <2>1, Programs, AllLeft, NothingLeft
  <2> QED
    BY <2>1, <2>2 DEF ProgramOK
<1>6. CASE EndPass1
  <2>1. phase' = "pass2" /\ todo' \in {<<>>, DropBackups, Undo}
    BY <1>6 DEF EndPass1, Pass2Ops, Undo
  <2>2. todo' \in Seq(Ops) /\ (Left(Undo) \/ Left(DropBackups))'
    <3>1. CASE todo' = <<>>
      BY <1>0, <3>1, Programs, NothingLeft
    <3>2. CASE todo' = DropBackups
      BY <3>2, Programs, AllLeft
    <3>3. CASE todo' = Undo
      BY <3>3, Programs, AllLeft
    <3> QED
      BY <2>1, <3>1, <3>2, <3>3
  <2> QED
    BY <2>1, <2>2 DEF ProgramOK
<1>7. CASE EndPass2
  <2>1. phase' = "load" /\ todo' \in {<<>>, DropAll, DropBody}
    BY <1>7 DEF EndPass2, LoadOps, DropAll
  <2>2. todo' \in Seq(Ops) /\ (Left(DropAll) \/ Left(DropBody))'
    <3>1. CASE todo' = <<>>
      BY <1>0, <3>1, Programs, NothingLeft
    <3>2. CASE todo' = DropAll
      BY <3>2, Programs, AllLeft
    <3>3. CASE todo' = DropBody
      BY <3>3, Programs, AllLeft
    <3> QED
      BY <2>1, <3>1, <3>2, <3>3
  <2> QED
    BY <2>1, <2>2 DEF ProgramOK
<1>8. CASE Step \/ Unnoticed
  <2>1. UNCHANGED <<phase, index>> /\ todo # <<>> /\ todo' = Tail(todo)
    BY <1>8 DEF Step, Unnoticed
  <2>2. todo' \in Seq(Ops) /\ Len(todo') <= Len(todo) /\ phase \notin {"idle", "down"} /\ Len(todo) \in Nat
    BY <1>0, <2>1 DEF ProgInv, ProgramOK
  <2>3. \A program \in {PutAll, Undo, DropPair, UndoAside, RemoveOps, BringBack, DropBackups, DropBody, DropAll} :
            Left(program) => Left(program)'
    BY <2>1, Advancing
  <2>4. phase' = "put" => Left(PutAll)' /\ (index' = 0 => Len(todo') <= 5)
    <3>1. Len(todo') \in Nat
      BY <2>2
    <3> QED
      BY <2>1, <2>2, <2>3, <3>1 DEF ProgInv, ProgramOK
  <2>5. /\ phase' = "failing" => (Left(Undo) \/ Left(DropPair) \/ Left(UndoAside))'
        /\ phase' = "remove" => Left(RemoveOps)'
        /\ phase' = "pass1" => Left(BringBack)'
        /\ phase' = "pass2" => (Left(Undo) \/ Left(DropBackups))'
        /\ phase' = "load" => (Left(DropAll) \/ Left(DropBody))'
    BY <2>1, <2>3 DEF ProgInv, ProgramOK
  <2> QED
    BY <2>1, <2>2, <2>4, <2>5 DEF ProgramOK
<1> QED
  BY <1>1, <1>2, <1>3, <1>4, <1>5, <1>6, <1>7, <1>8 DEF Next

-----------------------------------------------------------------------------
(* As long as no more than one operation is lost                            *)

PairInv == ProgInv /\ SplitInv

\* Operations move halves about; only a put brings a version in.
LEMMA HalvesMove ==
    ASSUME ProgInv, Halves, Step, phase = "put" => writing \in accepted
    PROVE  Halves'
<1>1. /\ todo \in Seq(Ops) /\ todo # <<>> /\ Effect(Head(todo)) /\ UNCHANGED <<phase, index, writing, accepted>>
  BY Stepping
<1>2. /\ {disk'["body"], disk'["bodyBak"]} \subseteq {disk["body"], disk["bodyBak"], 0, writing}
      /\ {disk'["json"], disk'["jsonBak"]} \subseteq {disk["json"], disk["jsonBak"], 0, writing}
      /\ Head(todo) \notin {Install("body"), Install("json")} =>
            /\ {disk'["body"], disk'["bodyBak"]} \subseteq {disk["body"], disk["bodyBak"], 0}
            /\ {disk'["json"], disk'["jsonBak"]} \subseteq {disk["json"], disk["jsonBak"], 0}
  <2>1. Head(todo) \in Ops
    BY <1>1
  <2>2. CASE Head(todo) \in {Remove("body"), Remove("json"), Remove("bodyBak"), Remove("jsonBak"), Sync}
    BY <1>1, <2>2 DEF Effect, Becomes, Is
  <2>3. CASE Head(todo) \in {Rename("body", "bodyBak"), Rename("json", "jsonBak"), Rename("bodyBak", "body"),
                             Rename("jsonBak", "json")}
    BY <1>1, <2>3 DEF Effect, Becomes, Is
  <2>4. CASE Head(todo) \in {Install("body"), Install("json")}
    BY <1>1, <2>4 DEF Effect, Becomes, Is
  <2> QED
    BY <2>1, <2>2, <2>3, <2>4 DEF Ops, Files
<1>3. Head(todo) \in {Install("body"), Install("json")} => phase = "put"
  <2>1. SUFFICES ASSUME phase # "put" PROVE Head(todo) \notin {Install("body"), Install("json")}
    OBVIOUS
  <2>2. \/ Left(Undo) \/ Left(DropPair) \/ Left(UndoAside) \/ Left(RemoveOps) \/ Left(BringBack)
        \/ Left(DropBackups) \/ Left(DropAll) \/ Left(DropBody)
    BY <1>1, <2>1 DEF ProgInv, ProgramOK, PairTyped, Phases
  <2>3. Head(todo) \in {Remove("body"), Remove("json"), Remove("bodyBak"), Remove("jsonBak"), Sync,
                        Rename("bodyBak", "body"), Rename("jsonBak", "json")}
    BY <1>1, <2>2, ShortHeads
  <2> QED
    BY <2>3 DEF Remove, Rename, Sync, Install
<1>4. ASSUME NEW v \in Versions \ accepted, v # 0
      PROVE  \/ v \notin {disk'["body"], disk'["bodyBak"]}
             \/ v \notin {disk'["json"], disk'["jsonBak"], index}
  <2>1. v \notin {disk["body"], disk["bodyBak"]} \/ v \notin {disk["json"], disk["jsonBak"], index}
    BY <1>4 DEF Halves
  <2>2. CASE Head(todo) \in {Install("body"), Install("json")}
    <3>1. v # writing
      BY <1>3, <1>4, <2>2
    <3> QED
      BY <1>2, <1>4, <2>1, <3>1
  <2>3. CASE Head(todo) \notin {Install("body"), Install("json")}
    BY <1>2, <1>4, <2>1, <2>3
  <2> QED
    BY <2>2, <2>3
<1> QED
  BY <1>1, <1>4 DEF Halves

\* One operation of each program.
LEMMA PutSplitTakes ==
    ASSUME ProgInv, Step, phase = "put", PutSplit(Len(todo))
    PROVE  PutSplit(Len(todo))'
<1> DEFINE n == Len(todo)
<1>1. /\ todo \in Seq(Ops) /\ todo # <<>> /\ Effect(Head(todo)) /\ n \in Nat \ {0} /\ Len(todo') = n - 1
      /\ UNCHANGED <<index, writing, accepted>> /\ Left(PutAll) /\ (index = 0 => n <= 5) /\ LostOps' = LostOps
  BY Stepping DEF ProgInv, ProgramOK, LostOps
<1>2. n \in 1 .. 9
  BY <1>1, PutHead
<1>3. CASE n = 9
  <2>1. Is(disk', disk["body"], disk["json"], 0, disk["jsonBak"])
    BY <1>1, <1>3, PutHead DEF Effect, Becomes
  <2> QED
    BY <1>1, <1>3, <2>1 DEF PutSplit, Lone, NoBackups, Is
<1>4. CASE n = 8
  <2>1. Is(disk', disk["body"], disk["json"], disk["bodyBak"], 0)
    BY <1>1, <1>4, PutHead DEF Effect, Becomes
  <2> QED
    BY <1>1, <1>4, <2>1 DEF PutSplit, Lone, NoBackups, Is
<1>5. CASE n = 7
  <2>1. disk'["jsonBak"] = disk["jsonBak"]
    BY <1>1, <1>5, PutHead DEF Effect, Becomes, Is
  <2> QED
    BY <1>1, <1>5, <2>1 DEF PutSplit, Lone, NoBackups
<1>6. CASE n = 6
  BY <1>1, <1>6 DEF PutSplit, Lone, NoBackups
<1>7. CASE n = 5
  <2>1. Is(disk', writing, disk["json"], disk["bodyBak"], disk["jsonBak"])
    BY <1>1, <1>7, PutHead DEF Effect, Becomes
  <2> QED
    BY <1>1, <1>7, <2>1 DEF PutSplit, Lone, NoBackups, Is
<1>8. CASE n = 4
  <2>1. Is(disk', disk["body"], writing, disk["bodyBak"], disk["jsonBak"])
    BY <1>1, <1>8, PutHead DEF Effect, Becomes
  <2> QED
    BY <1>1, <1>8, <2>1 DEF PutSplit, Lone, NoBackups, Is
<1>9. CASE n = 3
  <2>1. Is(disk', disk["body"], disk["json"], 0, disk["jsonBak"])
    BY <1>1, <1>9, PutHead DEF Effect, Becomes
  <2> QED
    BY <1>1, <1>9, <2>1 DEF PutSplit, Lone, NoBackups, Is
<1>10. CASE n = 2
  <2>1. Is(disk', disk["body"], disk["json"], disk["bodyBak"], 0)
    BY <1>1, <1>10, PutHead DEF Effect, Becomes
  <2> QED
    BY <1>1, <1>10, <2>1 DEF PutSplit, Lone, NoBackups, Is
<1>11. CASE n = 1
  <2>1. Is(disk', disk["body"], disk["json"], disk["bodyBak"], disk["jsonBak"])
    BY <1>1, <1>11, PutHead DEF Effect, Becomes
  <2> QED
    BY <1>1, <1>11, <2>1 DEF PutSplit, Lone, NoBackups, Is
<1>12. \A m \in 1 .. 9 : m = 9 \/ m = 8 \/ m = 7 \/ m = 6 \/ m = 5 \/ m = 4 \/ m = 3 \/ m = 2 \/ m = 1
  OBVIOUS
<1> QED
  BY <1>2, <1>3, <1>4, <1>5, <1>6, <1>7, <1>8, <1>9, <1>10, <1>11, <1>12, Zenon

LEMMA FailingSplitTakes ==
    ASSUME ProgInv, Step, phase = "failing", FailingSplit(Len(todo)), LostOps \in Nat
    PROVE  FailingSplit(Len(todo))'
<1> DEFINE n == Len(todo)
<1>1. /\ todo \in Seq(Ops) /\ todo # <<>> /\ Effect(Head(todo)) /\ n \in Nat \ {0} /\ Len(todo') = n - 1
      /\ LostOps' = LostOps /\ (Left(Undo) => Left(Undo)') /\ (Left(DropPair) => Left(DropPair)')
  BY Stepping DEF LostOps
<1>2. CASE n = 1 /\ Left(UndoAside) /\ disk["jsonBak"] = 0
  <2>1. disk'["bodyBak"] = 0 /\ disk'["jsonBak"] = 0
    BY <1>1, <1>2, ShortHeads DEF Effect, Becomes, Is
  <2> QED
    BY <1>1, <1>2, <2>1 DEF FailingSplit, Lone, NoBackups
<1>3. CASE Left(Undo) /\ LostOps >= 1 /\ (n <= 1 => disk["bodyBak"] = 0)
  <2>0. n \in 1 .. 4
    BY <1>1, <1>3, ShortHeads
  <2>1. CASE n = 3 \/ n = 4
    <3>1. Len(todo') # 0 /\ ~(Len(todo') <= 1)
      <4>1. CASE n = 3
        BY <1>1, <4>1
      <4>2. CASE n = 4
        BY <1>1, <4>2
      <4> QED
        BY <2>1, <4>1, <4>2
    <3>2. Left(Undo)' /\ (LostOps >= 1)'
      BY <1>1, <1>3
    <3> QED
      BY <3>1, <3>2, Zenon DEF FailingSplit
  <2>2. CASE n = 2
    <3>1. disk'["bodyBak"] = 0
      BY <1>1, <1>3, <2>2, ShortHeads DEF Effect, Becomes, Is
    <3>2. Len(todo') # 0
      BY <1>1, <2>2
    <3> QED
      BY <1>1, <1>3, <3>1, <3>2 DEF FailingSplit
  <2>3. CASE n = 1
    <3>1. disk'["bodyBak"] = 0 /\ disk'["jsonBak"] = 0
      BY <1>1, <1>3, <2>3, ShortHeads DEF Effect, Becomes, Is
    <3> QED
      BY <1>1, <2>3, <3>1 DEF FailingSplit, Lone, NoBackups
  <2> QED
    BY <2>0, <2>1, <2>2, <2>3
<1>4. CASE Left(DropPair) /\ LostOps >= 1 /\ Lone
  <2>1. disk'["bodyBak"] = disk["bodyBak"] /\ disk'["jsonBak"] = disk["jsonBak"]
    BY <1>1, <1>4, ShortHeads DEF Effect, Becomes, Is
  <2>2. Lone'
    BY <1>1, <1>4, <2>1 DEF Lone, NoBackups
  <2> QED
    BY <1>1, <1>4, <2>2 DEF FailingSplit
<1> QED
  BY <1>1, <1>2, <1>3, <1>4 DEF FailingSplit

LEMMA RemoveSplitTakes ==
    ASSUME ProgInv, Step, phase = "remove", RemoveSplit(Len(todo))
    PROVE  RemoveSplit(Len(todo))'
<1> DEFINE n == Len(todo)
<1>1. /\ todo \in Seq(Ops) /\ todo # <<>> /\ Effect(Head(todo)) /\ n \in Nat \ {0} /\ Len(todo') = n - 1
      /\ LostOps' = LostOps /\ Left(RemoveOps)
  BY Stepping DEF LostOps, ProgInv, ProgramOK
<1>2. n \in 1 .. 3
  BY <1>1, ShortHeads
<1>3. CASE n = 3
  <2>1. Is(disk', 0, disk["json"], disk["bodyBak"], disk["jsonBak"])
    BY <1>1, <1>3, ShortHeads DEF Effect, Becomes
  <2> QED
    BY <1>1, <1>3, <2>1 DEF RemoveSplit, Lone, NoBackups, Is
<1>4. CASE n = 2
  <2>1. Is(disk', disk["body"], 0, disk["bodyBak"], disk["jsonBak"])
    BY <1>1, <1>4, ShortHeads DEF Effect, Becomes
  <2> QED
    BY <1>1, <1>4, <2>1 DEF RemoveSplit, Lone, NoBackups, Is
<1>5. CASE n = 1
  <2>1. Is(disk', disk["body"], disk["json"], disk["bodyBak"], disk["jsonBak"])
    BY <1>1, <1>5, ShortHeads DEF Effect, Becomes
  <2> QED
    BY <1>1, <1>5, <2>1 DEF RemoveSplit, Lone, NoBackups, Is
<1> QED
  BY <1>2, <1>3, <1>4, <1>5

LEMMA Pass1SplitTakes ==
    ASSUME ProgInv, Step, phase = "pass1", Pass1Split(Len(todo))
    PROVE  Pass1Split(Len(todo))'
<1> DEFINE n == Len(todo)
<1>1. /\ todo \in Seq(Ops) /\ todo # <<>> /\ Effect(Head(todo)) /\ n \in Nat \ {0} /\ Len(todo') = n - 1
      /\ LostOps' = LostOps /\ Left(BringBack)
  BY Stepping DEF LostOps, ProgInv, ProgramOK
<1>2. n \in 1 .. 2 /\ disk["jsonBak"] = 0
  BY <1>1, ShortHeads DEF Pass1Split
<1>3. disk'["jsonBak"] = 0 /\ (n = 1 => disk'["bodyBak"] = 0)
  BY <1>1, <1>2, ShortHeads DEF Effect, Becomes, Is
<1> QED
  BY <1>1, <1>2, <1>3 DEF Pass1Split

LEMMA Pass2SplitTakes ==
    ASSUME ProgInv, Step, phase = "pass2", Pass2Split(Len(todo))
    PROVE  Pass2Split(Len(todo))'
<1> DEFINE n == Len(todo)
<1>1. /\ todo \in Seq(Ops) /\ todo # <<>> /\ Effect(Head(todo)) /\ n \in Nat \ {0} /\ Len(todo') = n - 1
      /\ LostOps' = LostOps /\ (Left(Undo) => Left(Undo)') /\ (Left(DropBackups) => Left(DropBackups)')
  BY Stepping DEF LostOps
<1>2. CASE /\ Left(Undo)
           /\ n <= 2 /\ LostOps = 0 => disk["json"] = 0
           /\ n <= 1 /\ LostOps = 0 => disk["bodyBak"] = 0
  <2>0. n \in 1 .. 4
    BY <1>1, <1>2, ShortHeads
  <2>1. CASE n = 4
    BY <1>1, <1>2, <2>1 DEF Pass2Split
  <2>2. CASE n = 3
    <3>1. disk'["json"] = 0
      BY <1>1, <1>2, <2>2, ShortHeads DEF Effect, Becomes, Is
    <3> QED
      BY <1>1, <1>2, <2>2, <3>1 DEF Pass2Split
  <2>3. CASE n = 2
    <3>1. disk'["json"] = disk["json"] /\ disk'["bodyBak"] = 0
      BY <1>1, <1>2, <2>3, ShortHeads DEF Effect, Becomes, Is
    <3> QED
      BY <1>1, <1>2, <2>3, <3>1 DEF Pass2Split
  <2>4. CASE n = 1
    <3>1. disk'["bodyBak"] = disk["bodyBak"] /\ disk'["jsonBak"] = 0
      BY <1>1, <1>2, <2>4, ShortHeads DEF Effect, Becomes, Is
    <3> QED
      BY <1>1, <1>2, <2>4, <3>1 DEF Pass2Split, Lone, NoBackups
  <2> QED
    BY <2>0, <2>1, <2>2, <2>3, <2>4
<1>3. CASE /\ Left(DropBackups) /\ disk["body"] = disk["json"]
           /\ n = 1 /\ LostOps = 0 => disk["bodyBak"] = 0
  <2>0. n \in 1 .. 2
    BY <1>1, <1>3, ShortHeads
  <2>1. CASE n = 2
    <3>1. disk'["body"] = disk["body"] /\ disk'["json"] = disk["json"] /\ disk'["bodyBak"] = 0
      BY <1>1, <1>3, <2>1, ShortHeads DEF Effect, Becomes, Is
    <3> QED
      BY <1>1, <1>3, <2>1, <3>1 DEF Pass2Split
  <2>2. CASE n = 1
    <3>1. disk'["bodyBak"] = disk["bodyBak"] /\ disk'["jsonBak"] = 0
      BY <1>1, <1>3, <2>2, ShortHeads DEF Effect, Becomes, Is
    <3> QED
      BY <1>1, <1>3, <2>2, <3>1 DEF Pass2Split, Lone, NoBackups
  <2> QED
    BY <2>0, <2>1, <2>2
<1> QED
  BY <1>1, <1>2, <1>3 DEF Pass2Split

LEMMA LoadSplitTakes ==
    ASSUME ProgInv, Step, phase = "load", LoadSplit(Len(todo))
    PROVE  LoadSplit(Len(todo))'
<1> DEFINE n == Len(todo)
<1>1. /\ todo \in Seq(Ops) /\ todo # <<>> /\ Effect(Head(todo)) /\ n \in Nat \ {0} /\ Len(todo') = n - 1
      /\ LostOps' = LostOps /\ index' = index
      /\ (Left(DropAll) => Left(DropAll)') /\ (Left(DropBody) => Left(DropBody)')
  BY Stepping DEF LostOps
<1>2. index = 0 /\ Lone
  BY <1>1 DEF LoadSplit
<1>3. CASE Left(DropBody) /\ disk["json"] = 0
  <2>1. n = 1 /\ Is(disk', 0, disk["json"], disk["bodyBak"], disk["jsonBak"])
    BY <1>1, <1>3, ShortHeads DEF Effect, Becomes
  <2> QED
    BY <1>1, <1>2, <1>3, <2>1 DEF LoadSplit, Lone, NoBackups, Is
<1>4. CASE /\ Left(DropAll)
           /\ n \in {1, 2} /\ LostOps = 0 => disk["body"] = 0
           /\ n <= 1 => disk["json"] = 0 \/ NoBackups
  <2>0. n \in 1 .. 3
    BY <1>1, <1>4, ShortHeads
  <2>1. CASE n = 3
    <3>1. Is(disk', 0, disk["json"], disk["bodyBak"], disk["jsonBak"])
      BY <1>1, <1>4, <2>1, ShortHeads DEF Effect, Becomes
    <3> QED
      BY <1>1, <1>2, <1>4, <2>1, <3>1 DEF LoadSplit, Lone, NoBackups, Is
  <2>2. CASE n = 2
    <3>1. Is(disk', disk["body"], 0, disk["bodyBak"], disk["jsonBak"])
      BY <1>1, <1>4, <2>2, ShortHeads DEF Effect, Becomes
    <3> QED
      BY <1>1, <1>2, <1>4, <2>2, <3>1 DEF LoadSplit, Lone, NoBackups, Is
  <2>3. CASE n = 1
    <3>1. Is(disk', 0, disk["json"], disk["bodyBak"], disk["jsonBak"])
      BY <1>1, <1>4, <2>3, ShortHeads DEF Effect, Becomes
    <3> QED
      BY <1>1, <1>2, <1>4, <2>3, <3>1 DEF LoadSplit, Lone, NoBackups, Is
  <2> QED
    BY <2>0, <2>1, <2>2, <2>3
<1> QED
  BY <1>1, <1>2, <1>3, <1>4 DEF LoadSplit

LEMMA StepSplits ==
    ASSUME PairInv, Step, LostOps' <= 1
    PROVE  Halves' /\ SplitPhase'
<1>1. /\ UNCHANGED <<phase, index, writing, accepted, faults>> /\ ProgInv /\ todo # <<>> /\ LostOps' = LostOps
  BY Stepping DEF PairInv, LostOps
<1>2. Halves /\ SplitPhase /\ LostOps \in Nat
  BY <1>1 DEF PairInv, SplitInv, ProgInv, PairTyped, LostOps, Kinds
<1>3. Halves'
  BY <1>1, <1>2, HalvesMove DEF SplitPhase, PutSplit
<1>4. phase # "idle"
  BY <1>1 DEF ProgInv, ProgramOK
<1>5. phase = "put" => PutSplit(Len(todo))'
  BY <1>1, <1>2, PutSplitTakes DEF SplitPhase
<1>6. phase = "failing" => FailingSplit(Len(todo))'
  BY <1>1, <1>2, FailingSplitTakes DEF SplitPhase
<1>7. phase = "remove" => RemoveSplit(Len(todo))'
  BY <1>1, <1>2, RemoveSplitTakes DEF SplitPhase
<1>8. phase = "pass1" => Pass1Split(Len(todo))'
  BY <1>1, <1>2, Pass1SplitTakes DEF SplitPhase
<1>9. phase = "pass2" => Pass2Split(Len(todo))'
  BY <1>1, <1>2, Pass2SplitTakes DEF SplitPhase
<1>10. phase = "load" => LoadSplit(Len(todo))'
  BY <1>1, <1>2, LoadSplitTakes DEF SplitPhase
<1> QED
  BY <1>1, <1>3, <1>4, <1>5, <1>6, <1>7, <1>8, <1>9, <1>10 DEF SplitPhase

\* The one operation that is lost.
LEMMA SkipSplits ==
    ASSUME PairInv, Unnoticed, LostOps' <= 1
    PROVE  Halves' /\ SplitPhase'
<1> DEFINE n == Len(todo)
<1>1. /\ UNCHANGED <<disk, phase, index, writing, accepted>> /\ todo # <<>> /\ todo' = Tail(todo) /\ ProgInv
      /\ phase \in {"put", "failing", "pass1", "pass2", "load"} /\ (phase = "put" => n \in {2, 3, 8, 9})
  BY Skipping DEF PairInv
<1>2. LostOps = 0 /\ LostOps' = 1
  <2>1. \E k \in {"rename", "remove"} : Fault(k)
    BY <1>1, Skipping
  <2> QED
    BY <1>1, <2>1, FaultCounts
<1>3. Halves /\ SplitPhase
  BY <1>2 DEF PairInv, SplitInv
<1>4. /\ todo \in Seq(Ops) /\ n \in Nat \ {0} /\ Len(todo') = n - 1
      /\ \A program \in {PutAll, Undo, DropPair, UndoAside, RemoveOps, BringBack, DropBackups, DropBody, DropAll} :
             Left(program) => Left(program)'
  BY <1>1, Advancing
<1>5. Halves'
  BY <1>1, <1>3 DEF Halves
<1>6. CASE phase = "put"
  <2>1. PutSplit(n) /\ n \in {2, 3, 8, 9}
    BY <1>1, <1>3, <1>6 DEF SplitPhase
  <2>2. PutSplit(Len(todo))'
    <3>0. /\ UNCHANGED <<disk, index, writing, accepted>> /\ Len(todo') = n - 1
          /\ LostOps = 0 /\ LostOps' = 1
      BY <1>1, <1>2, <1>4
    <3>1. CASE n = 9
      <4>1. Lone' /\ disk'["bodyBak"] = 0 /\ writing' \in accepted' /\ Len(todo') = 8
        BY <3>0, <2>1, <3>1 DEF PutSplit, Lone, NoBackups
      <4> QED
        BY <4>1 DEF PutSplit
    <3>2. CASE n = 8
      <4>1. NoBackups' /\ Lone' /\ writing' \in accepted' /\ Len(todo') = 7
        BY <3>0, <2>1, <3>2 DEF PutSplit, Lone, NoBackups
      <4> QED
        BY <4>1 DEF PutSplit
    <3>3. CASE n = 3
      <4>1. /\ disk'["body"] = writing' /\ disk'["json"] = writing' /\ writing' \in accepted'
            /\ (index' = 0 => Lone') /\ Len(todo') = 2
        BY <3>0, <2>1, <3>3 DEF PutSplit, Lone, NoBackups
      <4>2. Len(todo') # 9 /\ Len(todo') # 8 /\ Len(todo') # 7 /\ Len(todo') # 6 /\ ~(Len(todo') <= 1)
        BY <4>1
      <4>3. LostOps' # 0
        BY <3>0
      <4> QED
        BY <4>1, <4>2, <4>3, Zenon DEF PutSplit
    <3>4. CASE n = 2
      <4>1. /\ disk'["body"] = writing' /\ disk'["json"] = writing' /\ writing' \in accepted'
            /\ Lone' /\ Len(todo') = 1
        BY <3>0, <2>1, <3>4 DEF PutSplit, Lone, NoBackups
      <4> QED
        BY <4>1 DEF PutSplit
    <3> QED
      BY <2>1, <3>1, <3>2, <3>3, <3>4
  <2> QED
    BY <1>1, <1>5, <1>6, <2>2 DEF SplitPhase
<1>7. CASE phase = "failing"
  <2>1. n = 1 /\ Left(UndoAside) /\ disk["jsonBak"] = 0
    BY <1>2, <1>3, <1>4, <1>7 DEF SplitPhase, FailingSplit
  <2>2. FailingSplit(Len(todo))'
    BY <1>1, <1>2, <1>4, <2>1 DEF FailingSplit, Lone, NoBackups
  <2> QED
    BY <1>1, <1>5, <1>7, <2>2 DEF SplitPhase
<1>8. CASE phase = "pass1"
  <2>1. disk["jsonBak"] = 0
    BY <1>3, <1>4, <1>8 DEF SplitPhase, Pass1Split
  <2>2. Pass1Split(Len(todo))'
    BY <1>1, <1>2, <2>1 DEF Pass1Split
  <2> QED
    BY <1>1, <1>5, <1>8, <2>2 DEF SplitPhase
<1>9. CASE phase = "pass2"
  <2>1. \/ /\ Left(Undo) /\ n \in 1 .. 4
           /\ n <= 2 => disk["json"] = 0
           /\ n <= 1 => disk["bodyBak"] = 0
        \/ /\ Left(DropBackups) /\ n \in 1 .. 2 /\ disk["body"] = disk["json"]
           /\ n = 1 => disk["bodyBak"] = 0
    BY <1>1, <1>2, <1>3, <1>4, <1>9, ShortHeads DEF SplitPhase, Pass2Split
  <2>2. Left(Undo) => Left(Undo)'
    BY <1>4
  <2>3. Left(DropBackups) => Left(DropBackups)'
    BY <1>4
  <2>4. Pass2Split(Len(todo))'
    <3>1. CASE n = 1
      BY <1>1, <1>2, <1>4, <2>1, <3>1 DEF Pass2Split, Lone, NoBackups
    <3>2. CASE n # 1
      BY <1>1, <1>2, <1>4, <2>1, <2>2, <2>3, <3>2 DEF Pass2Split
    <3> QED
      BY <3>1, <3>2
  <2> QED
    BY <1>1, <1>5, <1>9, <2>4 DEF SplitPhase
<1>10. CASE phase = "load"
  <2>1. index = 0 /\ NoBackups
    BY <1>2, <1>3, <1>4, <1>10 DEF SplitPhase, LoadSplit, Lone
  <2>2. \/ Left(DropBody) /\ disk["json"] = 0
        \/ Left(DropAll) /\ n \in 1 .. 3 /\ (n <= 2 => disk["body"] = 0)
    <3>1. \/ Left(DropBody) /\ disk["json"] = 0
          \/ Left(DropAll) /\ (n \in {1, 2} => disk["body"] = 0)
      BY <1>2, <1>3, <1>10, <2>1 DEF SplitPhase, LoadSplit
    <3>2. Left(DropAll) => n \in 1 .. 3
      BY <1>1, <1>4, ShortHeads
    <3>3. \A m \in 1 .. 3 : m <= 2 => m \in {1, 2}
      OBVIOUS
    <3> QED
      BY <3>1, <3>2, <3>3, Zenon
  <2>3. (Left(DropBody) => Left(DropBody)') /\ (Left(DropAll) => Left(DropAll)')
    BY <1>4
  <2>4. NoBackups' /\ Lone' /\ index' = 0 /\ (disk["json"] = 0 => disk'["json"] = 0)
    BY <1>1, <2>1 DEF NoBackups, Lone
  <2>7. LoadSplit(Len(todo))'
    <3>1. CASE Left(DropBody) /\ disk["json"] = 0
      BY <2>3, <2>4, <3>1 DEF LoadSplit
    <3>2. CASE Left(DropAll) /\ n \in 1 .. 3 /\ (n <= 2 => disk["body"] = 0)
      <4>1. Len(todo') = 0 => disk'["body"] = 0
        BY <1>1, <1>4, <3>2
      <4> QED
        BY <1>2, <2>3, <2>4, <3>2, <4>1 DEF LoadSplit
    <3> QED
      BY <2>2, <3>1, <3>2
  <2> QED
    BY <1>1, <1>5, <1>10, <2>7 DEF SplitPhase
<1> QED
  BY <1>1, <1>6, <1>7, <1>8, <1>9, <1>10

\* A put, a removal and a metadata update.
LEMMA DecisionSplits ==
    ASSUME PairInv, LostOps' <= 1,
           \/ BeginPut \/ EndPut \/ EndFailedPut \/ UpdateMetadata \/ BeginRemove \/ GetDropsCorrupt \/ EndRemove
    PROVE  Halves' /\ SplitPhase'
<1>0. faults' = faults /\ LostOps' = LostOps
  BY DEF BeginPut, EndPut, EndFailedPut, UpdateMetadata, BeginRemove, GetDropsCorrupt, EndRemove, LostOps
<1>1. ProgInv /\ Halves /\ SplitPhase
  BY <1>0 DEF PairInv, SplitInv
<1>2. CASE BeginPut
  <2>1. /\ phase = "idle" /\ phase' = "put" /\ UNCHANGED <<disk, index>>
        /\ accepted' = accepted \union {writing'} /\ Len(todo') = IF index = 0 THEN 5 ELSE 9
    BY <1>1, <1>2, PutBegins DEF ProgInv
  <2>2. Lone /\ Lone'
    BY <1>0, <1>1, <2>1 DEF SplitPhase, Lone, NoBackups
  <2>3. Halves'
    BY <1>1, <2>1 DEF Halves
  <2>4. PutSplit(Len(todo))'
    BY <2>1, <2>2 DEF PutSplit
  <2> QED
    BY <2>1, <2>3, <2>4 DEF SplitPhase
<1>3. CASE EndPut
  <2>1. /\ phase = "put" /\ Len(todo) = 0 /\ phase' = "idle" /\ disk' = disk /\ index' = writing /\ accepted' = {writing}
    BY <1>3 DEF EndPut
  <2>2. disk["body"] = writing /\ disk["json"] = writing /\ Lone
    BY <1>1, <2>1 DEF SplitPhase, PutSplit
  <2>3. Halves'
    BY <2>1, <2>2 DEF Halves, Lone
  <2> QED
    BY <1>0, <2>1, <2>2, <2>3 DEF SplitPhase, Lone, NoBackups
<1>4. CASE EndFailedPut
  <2>1. phase = "failing" /\ Len(todo) = 0 /\ phase' = "idle" /\ UNCHANGED <<disk, index, accepted>>
    BY <1>4 DEF EndFailedPut
  <2>2. Lone
    <3>1. FailingSplit(0)
      BY <1>1, <2>1 DEF SplitPhase
    <3> QED
      BY <3>1 DEF FailingSplit
  <2>3. Halves'
    BY <1>1, <2>1 DEF Halves
  <2> QED
    BY <1>0, <2>1, <2>2, <2>3 DEF SplitPhase, Lone, NoBackups
<1>5. CASE UpdateMetadata
  <2>1. /\ phase = "idle" /\ UNCHANGED <<phase, index, accepted>> /\ disk' = [disk EXCEPT !["json"] = index]
        /\ disk \in [Files -> Versions]
    BY <1>1, <1>5 DEF UpdateMetadata, ProgInv, PairTyped
  <2>2. Is(disk', disk["body"], index, disk["bodyBak"], disk["jsonBak"])
    BY <2>1 DEF Is, Files
  <2>3. Halves'
    BY <1>1, <2>1, <2>2 DEF Halves, Is
  <2> QED
    BY <1>0, <1>1, <2>1, <2>2, <2>3 DEF SplitPhase, Lone, NoBackups, Is
<1>6. CASE BeginRemove \/ GetDropsCorrupt
  <2>1. /\ phase = "idle" /\ phase' = "remove" /\ todo' = RemoveOps /\ UNCHANGED <<disk, index>>
        /\ accepted \subseteq accepted'
    BY <1>6 DEF BeginRemove, GetDropsCorrupt
  <2>2. Len(todo') = 3
    BY <2>1, Programs
  <2>3. Halves' /\ Lone'
    BY <1>0, <1>1, <2>1 DEF Halves, SplitPhase, Lone, NoBackups
  <2> QED
    BY <2>1, <2>2, <2>3 DEF SplitPhase, RemoveSplit
<1>7. CASE EndRemove
  <2>1. /\ phase = "remove" /\ Len(todo) = 0 /\ phase' = "idle" /\ disk' = disk /\ index' = 0 /\ accepted' = {0}
    BY <1>7 DEF EndRemove
  <2>2. disk["body"] = 0 /\ disk["json"] = 0 /\ Lone
    BY <1>1, <2>1 DEF SplitPhase, RemoveSplit
  <2>3. Halves'
    BY <2>1, <2>2 DEF Halves, Lone
  <2> QED
    BY <1>0, <2>1, <2>2, <2>3 DEF SplitPhase, Lone, NoBackups
<1> QED
  BY <1>2, <1>3, <1>4, <1>5, <1>6, <1>7

\* A failure that is noticed, a crash and a shutdown.
LEMMA FailureSplits ==
    ASSUME PairInv, LostOps' <= 1, PutFails \/ RemoveFails \/ Crash \/ Stop
    PROVE  Halves' /\ SplitPhase'
<1>0. ProgInv /\ LostOps \in Nat /\ (LostOps' = LostOps \/ LostOps' = LostOps + 1)
  <2>1. ProgInv /\ LostOps \in Nat
    BY DEF PairInv, ProgInv, PairTyped, LostOps, Kinds
  <2>2. CASE faults' = faults
    BY <2>1, <2>2 DEF LostOps
  <2>3. CASE \E k : Fault(k)
    BY <2>1, <2>3, FaultCounts
  <2> QED
    BY <2>1, <2>2, <2>3, Failing DEF RemoveFails, Crash, Stop
<1>1. Halves /\ SplitPhase
  BY <1>0 DEF PairInv, SplitInv
<1>2. CASE Crash \/ Stop
  <2>1. phase' = "down" /\ index' = 0 /\ UNCHANGED <<disk, accepted>>
    BY <1>2 DEF Crash, Stop
  <2> QED
    BY <1>1, <2>1 DEF Halves, SplitPhase
<1>3. CASE RemoveFails
  <2>1. phase = "remove" /\ phase' = "idle" /\ UNCHANGED <<disk, index, accepted>>
    BY <1>3 DEF RemoveFails
  <2>2. Lone
    BY <1>1, <2>1 DEF SplitPhase, RemoveSplit
  <2>3. Lone'
    BY <1>0, <2>1, <2>2 DEF Lone, NoBackups
  <2> QED
    BY <1>1, <2>1, <2>3 DEF Halves, SplitPhase
<1>4. CASE PutFails
  <2>1. /\ UNCHANGED <<disk, index, writing, accepted>> /\ phase = "put" /\ phase' = "failing"
        /\ \/ Len(todo) \in {1, 7} /\ todo' = <<>>
           \/ Len(todo) = 6 /\ todo' = UndoAside
           \/ Len(todo) \in {4, 5} /\ index # 0 /\ todo' = Undo
           \/ Len(todo) \in {4, 5} /\ index = 0 /\ todo' = DropPair
    BY <1>0, <1>4, Failing
  <2>2. PutSplit(Len(todo)) /\ Halves'
    BY <1>1, <2>1 DEF SplitPhase, Halves
  <2>3. CASE Len(todo) \in {1, 7} /\ todo' = <<>>
    <3>1. Lone /\ Len(todo') = 0
      <4>1. CASE Len(todo) = 1
        BY <2>2, <2>3, <4>1 DEF PutSplit
      <4>2. CASE Len(todo) = 7
        BY <2>2, <2>3, <4>2 DEF PutSplit, Lone, NoBackups
      <4> QED
        BY <2>3, <4>1, <4>2
    <3>2. Lone'
      BY <1>0, <2>1, <3>1 DEF Lone, NoBackups
    <3> QED
      BY <2>1, <2>2, <3>1, <3>2 DEF SplitPhase, FailingSplit
  <2>4. CASE Len(todo) = 6 /\ todo' = UndoAside
    <3>1. disk'["jsonBak"] = 0 /\ Len(todo') = 1 /\ Left(UndoAside)'
      BY <2>1, <2>2, <2>4, Programs, AllLeft DEF PutSplit
    <3> QED
      BY <2>1, <2>2, <3>1 DEF SplitPhase, FailingSplit
  <2>5. CASE Len(todo) \in {4, 5} /\ ((index # 0 /\ todo' = Undo) \/ (index = 0 /\ todo' = DropPair))
    <3>1. LostOps' >= 1
      <4>1. Len(todo) # 7 /\ Len(todo) # 6 /\ Len(todo) # 1
        <5>1. \A m \in {4, 5} : m # 7 /\ m # 6 /\ m # 1
          OBVIOUS
        <5> QED
          BY <2>5, <5>1, Zenon
      <4>2. Fault("rename")
        BY <1>0, <1>4, <4>1, Failing, Zenon
      <4> QED
        BY <1>0, <4>2, FaultCounts
    <3>2. CASE todo' = Undo
      <4>1. Left(Undo)' /\ Len(todo') = 4
        BY <3>2, Programs, AllLeft
      <4>2. FailingSplit(Len(todo))'
        BY <3>1, <4>1 DEF FailingSplit
      <4> QED
        BY <2>1, <2>2, <4>2 DEF SplitPhase
    <3>3. CASE todo' = DropPair /\ index = 0
      <4>1. Left(DropPair)'
        BY <3>3, Programs, AllLeft
      <4>2. Lone
        BY <2>2, <3>3 DEF PutSplit
      <4>3. Lone'
        BY <2>1, <3>1, <4>2 DEF Lone, NoBackups
      <4>4. FailingSplit(Len(todo))'
        BY <3>1, <4>1, <4>3 DEF FailingSplit
      <4> QED
        BY <2>1, <2>2, <4>4 DEF SplitPhase
    <3> QED
      BY <2>5, <3>2, <3>3
  <2> QED
    BY <2>1, <2>3, <2>4, <2>5
<1> QED
  BY <1>2, <1>3, <1>4

\* A restart.
LEMMA RestartSplits ==
    ASSUME PairInv, LostOps' <= 1, Start \/ EndPass1 \/ EndPass2 \/ EndLoad
    PROVE  Halves' /\ SplitPhase'
<1>0. faults' = faults /\ LostOps' = LostOps /\ disk' = disk
  BY DEF Start, EndPass1, EndPass2, EndLoad, LostOps
<1>1. ProgInv /\ Halves /\ SplitPhase /\ disk \in [Files -> Versions]
  BY <1>0 DEF PairInv, SplitInv, ProgInv, PairTyped
<1>2. CASE Start
  <2>1. phase' = "pass1" /\ todo' = Pass1Ops /\ UNCHANGED <<index, accepted>>
    BY <1>2 DEF Start
  <2>2. Pass1Split(Len(todo))'
    <3>1. CASE disk["bodyBak"] # 0 /\ disk["jsonBak"] = 0
      <4>1. todo' = BringBack
        BY <2>1, <3>1 DEF Pass1Ops, BringBack
      <4>2. Len(todo') = 2
        BY <4>1, Programs
      <4> QED
        BY <1>0, <3>1, <4>2 DEF Pass1Split
    <3>2. CASE ~(disk["bodyBak"] # 0 /\ disk["jsonBak"] = 0)
      <4>1. todo' = <<>>
        BY <2>1, <3>2 DEF Pass1Ops
      <4> QED
        BY <1>0, <3>2, <4>1 DEF Pass1Split
    <3> QED
      BY <3>1, <3>2
  <2> QED
    BY <1>0, <1>1, <2>1, <2>2 DEF Halves, SplitPhase
<1>3. CASE EndPass1
  <2>1. phase = "pass1" /\ Len(todo) = 0 /\ phase' = "pass2" /\ todo' = Pass2Ops /\ UNCHANGED <<index, accepted>>
    BY <1>3 DEF EndPass1
  <2>2. disk["jsonBak"] = 0 /\ LostOps = 0 => disk["bodyBak"] = 0
    BY <1>1, <2>1 DEF SplitPhase, Pass1Split
  <2>3. Pass2Split(Len(todo))'
    <3>1. CASE disk["jsonBak"] = 0
      <4>1. Len(todo') = 0
        BY <2>1, <3>1 DEF Pass2Ops
      <4> QED
        BY <1>0, <2>2, <3>1, <4>1 DEF Pass2Split, Lone, NoBackups
    <3>2. CASE disk["jsonBak"] # 0 /\ ValidPair
      <4>1. todo' = DropBackups
        BY <2>1, <3>2 DEF Pass2Ops
      <4>2. Left(DropBackups)' /\ Len(todo') = 2
        BY <4>1, Programs, AllLeft
      <4> QED
        BY <1>0, <3>2, <4>2 DEF Pass2Split, ValidPair
    <3>3. CASE disk["jsonBak"] # 0 /\ ~ValidPair
      <4>1. todo' = Undo
        BY <2>1, <3>3 DEF Pass2Ops, Undo
      <4>2. Left(Undo)' /\ Len(todo') = 4
        BY <4>1, Programs, AllLeft
      <4> QED
        BY <4>2 DEF Pass2Split
    <3> QED
      BY <3>1, <3>2, <3>3
  <2> QED
    BY <1>0, <1>1, <2>1, <2>3 DEF Halves, SplitPhase
<1>4. CASE EndPass2
  <2>1. /\ phase = "pass2" /\ Len(todo) = 0 /\ phase' = "load" /\ todo' = LoadOps /\ index' = Usable
        /\ accepted' = accepted
    BY <1>4 DEF EndPass2
  <2>2. Lone /\ (disk["jsonBak"] # 0 => disk["json"] = 0 \/ disk["body"] = disk["json"])
    <3>1. Pass2Split(0)
      BY <1>1, <2>1 DEF SplitPhase
    <3> QED
      BY <3>1 DEF Pass2Split
  <2>3. Usable = 0 \/ (Usable = disk["json"] /\ Usable # 0)
    BY DEF Usable
  <2>4. Halves'
    BY <1>0, <1>1, <2>1, <2>3 DEF Halves
  <2>5. LoadSplit(Len(todo))'
    <3>0. Lone'
      BY <1>0, <2>2 DEF Lone, NoBackups
    <3>1. CASE Usable # 0
      <4>1. Len(todo') = 0
        BY <2>1, <3>1 DEF LoadOps
      <4> QED
        BY <1>0, <2>1, <2>2, <2>3, <3>0, <3>1, <4>1 DEF LoadSplit
    <3>2. CASE Usable = 0 /\ disk["json"] # 0
      <4>1. todo' = DropAll
        BY <2>1, <3>2 DEF LoadOps, DropAll
      <4>2. Left(DropAll)' /\ Len(todo') = 3
        BY <4>1, Programs, AllLeft
      <4> QED
        BY <2>1, <3>0, <3>2, <4>2 DEF LoadSplit
    <3>3. CASE Usable = 0 /\ disk["json"] = 0
      <4>1. todo' = DropBody
        BY <2>1, <3>3 DEF LoadOps
      <4>2. Left(DropBody)' /\ Len(todo') = 1
        BY <4>1, Programs, AllLeft
      <4> QED
        BY <1>0, <2>1, <3>0, <3>3, <4>2 DEF LoadSplit
    <3> QED
      BY <3>1, <3>2, <3>3
  <2> QED
    BY <2>1, <2>4, <2>5 DEF SplitPhase
<1>5. CASE EndLoad
  <2>1. /\ phase = "load" /\ Len(todo) = 0 /\ phase' = "idle" /\ index' = index
        /\ accepted' = (IF index \in accepted THEN {index} ELSE accepted)
    BY <1>5 DEF EndLoad
  <2>2. LoadSplit(0)
    BY <1>1, <2>1 DEF SplitPhase
  <2>3. Lone /\ Lone'
    BY <1>0, <2>2 DEF LoadSplit, Lone, NoBackups
  <2>4. ASSUME index \in accepted, NEW v \in Versions \ {index}, v # 0
        PROVE  v \notin {disk["body"], disk["bodyBak"]} \/ v \notin {disk["json"], disk["jsonBak"], index}
    <3>1. CASE index # 0
      BY <2>2, <2>3, <2>4, <3>1 DEF LoadSplit, Lone
    <3>2. CASE index = 0
      BY <2>2, <2>3, <2>4, <3>2 DEF LoadSplit, Lone, NoBackups
    <3> QED
      BY <3>1, <3>2
  <2>5. Halves'
    <3>1. CASE index \in accepted
      BY <1>0, <2>1, <2>4, <3>1 DEF Halves
    <3>2. CASE index \notin accepted
      BY <1>0, <1>1, <2>1, <3>2 DEF Halves
    <3> QED
      BY <3>1, <3>2
  <2> QED
    BY <2>1, <2>3, <2>5 DEF SplitPhase
<1> QED
  BY <1>2, <1>3, <1>4, <1>5

LEMMA PairStarts == Init => PairInv
<1> SUFFICES ASSUME Init PROVE PairInv
  OBVIOUS
<1>1. 0 \in Versions /\ todo \in Seq(Ops) /\ phase = "down"
  BY CachePairAssumption DEF Init, Versions
<1>2. PairTyped
  BY <1>1 DEF Init, PairTyped, Phases
<1>3. ProgramOK
  BY <1>1 DEF Init, ProgramOK
<1>4. SplitInv
  BY <1>1 DEF Init, SplitInv, SplitPhase, Halves, Files
<1> QED
  BY <1>2, <1>3, <1>4 DEF PairInv, ProgInv

LEMMA PairHolds == PairInv /\ [Next]_vars => PairInv'
<1> SUFFICES ASSUME PairInv, [Next]_vars PROVE PairInv'
  OBVIOUS
<1>1. CASE Next
  <2>1. SplitInv'
    BY <1>1, StepSplits, SkipSplits, DecisionSplits, FailureSplits, RestartSplits DEF Next, SplitInv
  <2> QED
    BY <1>1, <2>1, TypedKeeps, ProgramKeeps DEF PairInv, ProgInv
<1>2. CASE UNCHANGED vars
  <2>1. PairTyped'
    BY <1>2 DEF PairInv, ProgInv, PairTyped, vars
  <2>2. ProgramOK'
    BY <1>2 DEF PairInv, ProgInv, ProgramOK, Left, vars
  <2>3. SplitInv'
    BY <1>2 DEF PairInv, SplitInv, SplitPhase, Halves, Lone, NoBackups, LostOps, PutSplit, FailingSplit, RemoveSplit,
                Pass1Split, Pass2Split, LoadSplit, Left, vars
  <2> QED
    BY <2>1, <2>2, <2>3 DEF PairInv, ProgInv
<1> QED
  BY <1>1, <1>2

\* However often the server stops, crashes or cannot sync a directory, and even
\* when one rename or removal does not happen, a version that a settled put
\* superseded or a removal dropped is never answered again.
THEOREM NothingComesBack == Spec => []NeverResurrects
<1>1. PairInv => NeverResurrects
  <2> SUFFICES ASSUME PairInv, LostOps <= 1, phase = "idle", Lookup # 0 PROVE Lookup \in accepted
    BY DEF NeverResurrects
  <2>1. Halves /\ Lookup = index /\ disk["body"] = index /\ index # 0 /\ index \in Versions
    BY DEF PairInv, SplitInv, ProgInv, PairTyped, Lookup
  <2> QED
    BY <2>1 DEF Halves
<1> QED
  BY <1>1, PairStarts, PairHolds, PTL DEF Spec

-----------------------------------------------------------------------------
(* After one fault                                                          *)

LEMMA PutTakes ==
    ASSUME ProgInv, Step, phase = "put", Replacing(index, writing)
    PROVE  Replacing(index, writing)'
<1>1. /\ Len(todo) \in 1 .. 9 /\ Len(todo') = Len(todo) - 1 /\ index' = index /\ writing' = writing
      /\ Effect(Head(todo)) /\ todo \in Seq(Ops) /\ todo # <<>> /\ Left(PutAll)
  BY Stepping, PutHead DEF ProgInv, ProgramOK
<1>2. index = 0 => Len(todo) <= 5
  BY DEF ProgInv, ProgramOK
<1>3. PutStage(disk, Len(todo), index, writing)
  BY DEF Replacing
<1>4. SUFFICES PutStage(disk', Len(todo'), index, writing)
  BY <1>1 DEF Replacing
<1>5. CASE Len(todo) = 9
  <2>1. Len(todo') = 8 /\ Head(todo) = Remove("bodyBak")
    BY <1>1, <1>2, <1>5, PutHead
  <2>2. Is(disk, index, index, 0, 0)
    BY <1>3, <1>5 DEF PutStage
  <2>3. Is(disk', index, index, 0, 0)
    BY <1>1, <2>1, <2>2 DEF Effect, Becomes, Is
  <2>4. PutStage(disk', 8, index, writing)
    BY <2>3 DEF PutStage
  <2> QED
    BY <2>1, <2>4
<1>6. CASE Len(todo) = 8
  <2>1. Len(todo') = 7 /\ Head(todo) = Remove("jsonBak")
    BY <1>1, <1>2, <1>6, PutHead
  <2>2. Is(disk, index, index, 0, 0)
    BY <1>3, <1>6 DEF PutStage
  <2>3. Is(disk', index, index, 0, 0)
    BY <1>1, <2>1, <2>2 DEF Effect, Becomes, Is
  <2>4. PutStage(disk', 7, index, writing)
    BY <2>3 DEF PutStage
  <2> QED
    BY <2>1, <2>4
<1>7. CASE Len(todo) = 7
  <2>1. Len(todo') = 6 /\ Head(todo) = Rename("body", "bodyBak") /\ index # 0
    BY <1>1, <1>2, <1>7, PutHead
  <2>2. Is(disk, index, index, 0, 0)
    BY <1>3, <1>7 DEF PutStage
  <2>3. Is(disk', 0, index, index, 0)
    BY <1>1, <2>1, <2>2 DEF Effect, Becomes, Is
  <2>4. PutStage(disk', 6, index, writing)
    BY <2>3 DEF PutStage
  <2> QED
    BY <2>1, <2>4
<1>8. CASE Len(todo) = 6
  <2>1. Len(todo') = 5 /\ Head(todo) = Rename("json", "jsonBak") /\ index # 0
    BY <1>1, <1>2, <1>8, PutHead
  <2>2. Is(disk, 0, index, index, 0)
    BY <1>3, <1>8 DEF PutStage
  <2>3. Is(disk', 0, 0, index, index)
    BY <1>1, <2>1, <2>2 DEF Effect, Becomes, Is
  <2>4. PutStage(disk', 5, index, writing)
    BY <2>3 DEF PutStage
  <2> QED
    BY <2>1, <2>4
<1>9. CASE Len(todo) = 5
  <2>1. Len(todo') = 4 /\ Head(todo) = Install("body")
    BY <1>1, <1>2, <1>9, PutHead
  <2>2. Is(disk, 0, 0, index, index)
    BY <1>3, <1>9 DEF PutStage
  <2>3. Is(disk', writing, 0, index, index)
    BY <1>1, <2>1, <2>2 DEF Effect, Becomes, Is
  <2>4. PutStage(disk', 4, index, writing)
    BY <2>3 DEF PutStage
  <2> QED
    BY <2>1, <2>4
<1>10. CASE Len(todo) = 4
  <2>1. Len(todo') = 3 /\ Head(todo) = Install("json")
    BY <1>1, <1>2, <1>10, PutHead
  <2>2. Is(disk, writing, 0, index, index)
    BY <1>3, <1>10 DEF PutStage
  <2>3. Is(disk', writing, writing, index, index)
    BY <1>1, <2>1, <2>2 DEF Effect, Becomes, Is
  <2>4. PutStage(disk', 3, index, writing)
    BY <2>3 DEF PutStage
  <2> QED
    BY <2>1, <2>4
<1>11. CASE Len(todo) = 3
  <2>1. Len(todo') = 2 /\ Head(todo) = Remove("bodyBak")
    BY <1>1, <1>2, <1>11, PutHead
  <2>2. Is(disk, writing, writing, index, index)
    BY <1>3, <1>11 DEF PutStage
  <2>3. Is(disk', writing, writing, 0, index)
    BY <1>1, <2>1, <2>2 DEF Effect, Becomes, Is
  <2>4. PutStage(disk', 2, index, writing)
    BY <2>3 DEF PutStage
  <2> QED
    BY <2>1, <2>4
<1>12. CASE Len(todo) = 2
  <2>1. Len(todo') = 1 /\ Head(todo) = Remove("jsonBak")
    BY <1>1, <1>2, <1>12, PutHead
  <2>2. Is(disk, writing, writing, 0, index)
    BY <1>3, <1>12 DEF PutStage
  <2>3. Is(disk', writing, writing, 0, 0)
    BY <1>1, <2>1, <2>2 DEF Effect, Becomes, Is
  <2>4. PutStage(disk', 1, index, writing)
    BY <2>3 DEF PutStage
  <2> QED
    BY <2>1, <2>4
<1>13. CASE Len(todo) = 1
  <2>1. Len(todo') = 0 /\ Head(todo) = Sync
    BY <1>1, <1>2, <1>13, PutHead
  <2>2. Is(disk, writing, writing, 0, 0)
    BY <1>3, <1>13 DEF PutStage
  <2>3. Is(disk', writing, writing, 0, 0)
    BY <1>1, <2>1, <2>2 DEF Effect, Becomes, Is
  <2>4. PutStage(disk', 0, index, writing)
    BY <2>3 DEF PutStage
  <2> QED
    BY <2>1, <2>4
<1>14. \A n \in 1 .. 9 : n = 9 \/ n = 8 \/ n = 7 \/ n = 6 \/ n = 5 \/ n = 4 \/ n = 3 \/ n = 2 \/ n = 1
  OBVIOUS
<1> QED
  BY <1>1, <1>5, <1>6, <1>7, <1>8, <1>9, <1>10, <1>11, <1>12, <1>13, <1>14, Zenon

LEMMA UndoTakes ==
    ASSUME ProgInv, Step, NEW v \in Versions \ {0}, Undoing(v)
    PROVE  Undoing(v)'
<1>1. /\ Len(todo) \in 1 .. 4 /\ Len(todo') = Len(todo) - 1 /\ Effect(Head(todo))
      /\ todo \in Seq(Ops) /\ todo # <<>> /\ Left(Undo) /\ Left(Undo)'
  BY Stepping, ShortHeads DEF Undoing
<1>2. UndoStage(disk, Len(todo), v)
  BY DEF Undoing
<1>3. SUFFICES UndoStage(disk', Len(todo'), v)
  BY <1>1 DEF Undoing
<1>4. CASE Len(todo) = 4
  <2>1. Len(todo') = 3 /\ Head(todo) = Remove("body")
    BY <1>1, <1>4, ShortHeads
  <2>2. \E u \in Versions : Is(disk, u, 0, v, v)
    BY <1>2, <1>4 DEF UndoStage
  <2>3. Is(disk', 0, 0, v, v)
    BY <1>1, <2>1, <2>2 DEF Effect, Becomes, Is
  <2>4. UndoStage(disk', 3, v)
    BY <2>3 DEF UndoStage
  <2> QED
    BY <2>1, <2>4
<1>5. CASE Len(todo) = 3
  <2>1. Len(todo') = 2 /\ Head(todo) = Remove("json")
    BY <1>1, <1>5, ShortHeads
  <2>2. Is(disk, 0, 0, v, v)
    BY <1>2, <1>5 DEF UndoStage
  <2>3. Is(disk', 0, 0, v, v)
    BY <1>1, <2>1, <2>2 DEF Effect, Becomes, Is
  <2>4. UndoStage(disk', 2, v)
    BY <2>3 DEF UndoStage
  <2> QED
    BY <2>1, <2>4
<1>6. CASE Len(todo) = 2
  <2>1. Len(todo') = 1 /\ Head(todo) = Rename("bodyBak", "body")
    BY <1>1, <1>6, ShortHeads
  <2>2. Is(disk, 0, 0, v, v)
    BY <1>2, <1>6 DEF UndoStage
  <2>3. Is(disk', v, 0, 0, v)
    BY <1>1, <2>1, <2>2 DEF Effect, Becomes, Is
  <2>4. UndoStage(disk', 1, v)
    BY <2>3 DEF UndoStage
  <2> QED
    BY <2>1, <2>4
<1>7. CASE Len(todo) = 1
  <2>1. Len(todo') = 0 /\ Head(todo) = Rename("jsonBak", "json")
    BY <1>1, <1>7, ShortHeads
  <2>2. Is(disk, v, 0, 0, v)
    BY <1>2, <1>7 DEF UndoStage
  <2>3. Is(disk', v, v, 0, 0)
    BY <1>1, <2>1, <2>2 DEF Effect, Becomes, Is
  <2>4. UndoStage(disk', 0, v)
    BY <2>3 DEF UndoStage
  <2> QED
    BY <2>1, <2>4
<1> QED
  BY <1>1, <1>4, <1>5, <1>6, <1>7

\* An operation other than an install finds an empty entry as empty as it was.
LEMMA StaysEmpty ==
    ASSUME ProgInv, Step, Whole(0), phase \in {"pass1", "pass2", "load"}
    PROVE  Whole(0)'
<1>1. todo \in Seq(Ops) /\ todo # <<>> /\ Effect(Head(todo))
  BY Stepping
<1>2. Left(BringBack) \/ Left(Undo) \/ Left(DropBackups) \/ Left(DropAll) \/ Left(DropBody)
  BY DEF ProgInv, ProgramOK
<1>3. Head(todo) \in {Remove("body"), Remove("json"), Remove("bodyBak"), Remove("jsonBak"),
                      Rename("bodyBak", "body"), Rename("jsonBak", "json")}
  BY <1>1, <1>2, ShortHeads
<1> QED
  BY <1>1, <1>3 DEF Effect, Becomes, Is, Whole, Holds

LEMMA FailingTakes ==
    ASSUME ProgInv, Step, index \in Versions, FailingFits
    PROVE  FailingFits'
<1>1. /\ todo \in Seq(Ops) /\ todo # <<>> /\ Effect(Head(todo)) /\ index' = index
      /\ Len(todo) \in Nat \ {0} /\ Len(todo') = Len(todo) - 1 /\ (Len(todo) = 1 => todo' = <<>>)
      /\ Left(DropPair) => Left(DropPair)'
  BY Stepping
<1>2. CASE index # 0 /\ Undoing(index)
  <2>1. PICK v \in Versions \ {0} : v = index
    BY <1>2
  <2>2. Undoing(v)
    BY <1>2, <2>1 DEF Undoing
  <2>3. Undoing(v)'
    BY <2>2, UndoTakes
  <2>4. Undoing(index)'
    BY <1>1, <2>1, <2>3 DEF Undoing
  <2> QED
    BY <1>1, <1>2, <2>4 DEF FailingFits
<1>3. CASE index # 0 /\ Left(UndoAside) /\ todo # <<>> /\ Holds(0, index, index, 0)
  <2>1. Len(todo) = 1 /\ Head(todo) = Rename("bodyBak", "body")
    BY <1>1, <1>3, ShortHeads
  <2>2. Is(disk', index, index, 0, 0)
    BY <1>1, <1>3, <2>1 DEF Effect, Becomes, Is, Holds
  <2>3. todo' = <<>> /\ Left(Undo)' /\ Len(todo') = 0
    BY <1>1, <2>1, Programs, NothingLeft
  <2>4. UndoStage(disk', 0, index)
    BY <2>2 DEF UndoStage
  <2>5. Undoing(index)'
    BY <1>1, <2>3, <2>4 DEF Undoing
  <2> QED
    BY <1>1, <1>3, <2>5 DEF FailingFits
<1>4. CASE /\ index = 0 /\ Left(DropPair) /\ disk["json"] = 0 /\ disk["bodyBak"] = 0 /\ disk["jsonBak"] = 0
           /\ Len(todo) <= 1 => disk["body"] = 0
  <2>1. \/ Len(todo) = 2 /\ Head(todo) = Remove("body")
        \/ Len(todo) = 1 /\ Head(todo) = Remove("json")
    BY <1>1, <1>4, ShortHeads
  <2>2. disk'["json"] = 0 /\ disk'["bodyBak"] = 0 /\ disk'["jsonBak"] = 0 /\ disk'["body"] = 0
    <3>1. CASE Len(todo) = 2 /\ Head(todo) = Remove("body")
      BY <1>1, <1>4, <3>1 DEF Effect, Becomes, Is
    <3>2. CASE Len(todo) = 1 /\ Head(todo) = Remove("json")
      <4>1. disk["body"] = 0
        BY <1>4, <3>2
      <4> QED
        BY <1>1, <1>4, <3>2, <4>1 DEF Effect, Becomes, Is
    <3> QED
      BY <2>1, <3>1, <3>2
  <2> QED
    BY <1>1, <1>4, <2>2 DEF FailingFits
<1> QED
  BY <1>2, <1>3, <1>4 DEF FailingFits

LEMMA RemoveTakes ==
    ASSUME ProgInv, Step, RemoveFits
    PROVE  RemoveFits'
<1>1. /\ todo \in Seq(Ops) /\ todo # <<>> /\ Effect(Head(todo)) /\ index' = index /\ accepted' = accepted
      /\ Len(todo') = Len(todo) - 1 /\ Left(RemoveOps)'
  BY Stepping DEF RemoveFits
<1>2. Len(todo) \in 1 .. 3 /\ RemoveStage(disk, Len(todo), index)
  BY <1>1, ShortHeads DEF RemoveFits
<1>3. SUFFICES RemoveStage(disk', Len(todo'), index)
  BY <1>1 DEF RemoveFits
<1>4. CASE Len(todo) = 3
  <2>1. Len(todo') = 2 /\ Head(todo) = Remove("body")
    BY <1>1, <1>4, ShortHeads DEF RemoveFits
  <2>2. Is(disk, index, index, 0, 0)
    BY <1>2, <1>4 DEF RemoveStage
  <2>3. Is(disk', 0, index, 0, 0)
    BY <1>1, <2>1, <2>2 DEF Effect, Becomes, Is
  <2>4. RemoveStage(disk', 2, index)
    BY <2>3 DEF RemoveStage
  <2> QED
    BY <2>1, <2>4
<1>5. CASE Len(todo) = 2
  <2>1. Len(todo') = 1 /\ Head(todo) = Remove("json")
    BY <1>1, <1>5, ShortHeads DEF RemoveFits
  <2>2. Is(disk, 0, index, 0, 0)
    BY <1>2, <1>5 DEF RemoveStage
  <2>3. Is(disk', 0, 0, 0, 0)
    BY <1>1, <2>1, <2>2 DEF Effect, Becomes, Is
  <2>4. RemoveStage(disk', 1, index)
    BY <2>3 DEF RemoveStage
  <2> QED
    BY <2>1, <2>4
<1>6. CASE Len(todo) = 1
  <2>1. Len(todo') = 0 /\ Head(todo) = Sync
    BY <1>1, <1>6, ShortHeads DEF RemoveFits
  <2>2. Is(disk, 0, 0, 0, 0)
    BY <1>2, <1>6 DEF RemoveStage
  <2>3. Is(disk', 0, 0, 0, 0)
    BY <1>1, <2>1, <2>2 DEF Effect, Becomes, Is
  <2>4. RemoveStage(disk', 0, index)
    BY <2>3 DEF RemoveStage
  <2> QED
    BY <2>1, <2>4
<1> QED
  BY <1>2, <1>4, <1>5, <1>6

LEMMA Pass1Takes ==
    ASSUME ProgInv, Step, Pass1Fits
    PROVE  Pass1Fits'
<1>1. /\ todo \in Seq(Ops) /\ todo # <<>> /\ Effect(Head(todo)) /\ accepted' = accepted
      /\ (Len(todo) = 1 => todo' = <<>>) /\ (Len(todo) # 1 => todo' # <<>>)
      /\ Left(BringBack) => Left(BringBack)'
  BY Stepping
<1>2. Left(BringBack)
  BY <1>1 DEF Pass1Fits
<1>3. PICK v \in accepted \ {0} : Is(disk, 0, v, v, 0)
  BY <1>1 DEF Pass1Fits, Holds
<1>4. \/ Len(todo) = 2 /\ Head(todo) = Remove("body")
      \/ Len(todo) = 1 /\ Head(todo) = Rename("bodyBak", "body")
  BY <1>1, <1>2, ShortHeads
<1>5. CASE Len(todo) = 2 /\ Head(todo) = Remove("body")
  <2>1. Is(disk', 0, v, v, 0) /\ todo' # <<>>
    BY <1>1, <1>3, <1>5 DEF Effect, Becomes, Is
  <2> QED
    BY <1>1, <1>2, <2>1 DEF Pass1Fits, Holds
<1>6. CASE Len(todo) = 1 /\ Head(todo) = Rename("bodyBak", "body")
  <2>1. Is(disk', v, v, 0, 0) /\ todo' = <<>>
    BY <1>1, <1>3, <1>6 DEF Effect, Becomes, Is
  <2>2. Recoverable' /\ disk'["bodyBak"] = 0
    BY <1>1, <2>1 DEF Recoverable, Holds, Whole, Is
  <2> QED
    BY <2>1, <2>2 DEF Pass1Fits
<1> QED
  BY <1>4, <1>5, <1>6

LEMMA Pass2Takes ==
    ASSUME ProgInv, Step, accepted \subseteq Versions, Pass2Fits
    PROVE  Pass2Fits'
<1>1. /\ todo \in Seq(Ops) /\ todo # <<>> /\ Effect(Head(todo)) /\ accepted' = accepted
      /\ Len(todo) \in Nat \ {0} /\ Len(todo') = Len(todo) - 1
      /\ Left(DropBackups) => Left(DropBackups)'
  BY Stepping
<1>2. CASE \E v \in accepted \ {0} : Undoing(v)
  <2>1. PICK v \in accepted \ {0} : Undoing(v)
    BY <1>2
  <2>2. Undoing(v)'
    BY <2>1, UndoTakes
  <2> QED
    BY <1>1, <2>2 DEF Pass2Fits
<1>3. CASE /\ Left(DropBackups) /\ disk["body"] # 0 /\ disk["body"] = disk["json"] /\ disk["body"] \in accepted
           /\ Len(todo) <= 1 => disk["bodyBak"] = 0
           /\ Len(todo) = 0 => disk["jsonBak"] = 0
  <2>1. \/ Len(todo) = 2 /\ Head(todo) = Remove("bodyBak")
        \/ Len(todo) = 1 /\ Head(todo) = Remove("jsonBak")
    BY <1>1, <1>3, ShortHeads
  <2>2. CASE Len(todo) = 2 /\ Head(todo) = Remove("bodyBak")
    <3>1. disk'["body"] = disk["body"] /\ disk'["json"] = disk["json"] /\ disk'["bodyBak"] = 0 /\ Len(todo') = 1
      BY <1>1, <2>2 DEF Effect, Becomes, Is
    <3>2. Left(DropBackups)'
      BY <1>1, <1>3, Zenon
    <3>3. ~(Len(todo') = 0)
      BY <3>1
    <3> QED
      BY <1>1, <1>3, <3>1, <3>2, <3>3 DEF Pass2Fits
  <2>3. CASE Len(todo) = 1 /\ Head(todo) = Remove("jsonBak")
    <3>0. disk["bodyBak"] = 0
      BY <1>3, <2>3
    <3>1. /\ disk'["body"] = disk["body"] /\ disk'["json"] = disk["json"] /\ disk'["bodyBak"] = 0
          /\ disk'["jsonBak"] = 0
      BY <1>1, <2>3, <3>0 DEF Effect, Becomes, Is
    <3> QED
      BY <1>1, <1>3, <3>1 DEF Pass2Fits
  <2> QED
    BY <2>1, <2>2, <2>3
<1> QED
  BY <1>1, <1>2, <1>3 DEF Pass2Fits

LEMMA LoadTakes ==
    ASSUME ProgInv, Step, LoadFits
    PROVE  LoadFits'
<1>1. /\ todo \in Seq(Ops) /\ todo # <<>> /\ Effect(Head(todo)) /\ accepted' = accepted /\ index' = index
      /\ Len(todo) \in Nat \ {0} /\ Len(todo') = Len(todo) - 1
      /\ (Len(todo) = 1 => todo' = <<>>) /\ (Len(todo) # 1 => todo' # <<>>)
      /\ Left(DropAll) => Left(DropAll)'
  BY Stepping
<1>2. disk["bodyBak"] = 0 /\ disk["jsonBak"] = 0
  BY DEF LoadFits
<1>3. CASE index = 0 /\ Left(DropBody) /\ Len(todo) = 1 /\ disk["json"] = 0 /\ 0 \in accepted
  <2>1. Head(todo) = Remove("body") /\ todo' = <<>>
    BY <1>1, <1>3, ShortHeads
  <2>2. Is(disk', 0, 0, 0, 0)
    BY <1>1, <1>2, <1>3, <2>1 DEF Effect, Becomes, Is
  <2> QED
    BY <1>1, <1>3, <2>1, <2>2 DEF LoadFits, Whole, Holds, Is
<1>4. CASE /\ index = 0 /\ Left(DropAll) /\ disk["body"] = 0 /\ 0 \in accepted
           /\ Len(todo) = 1 => disk["json"] = 0
  <2>1. \/ Len(todo) = 3 /\ Head(todo) = Remove("body")
        \/ Len(todo) = 2 /\ Head(todo) = Remove("json")
        \/ Len(todo) = 1 /\ Head(todo) = Remove("body")
    BY <1>1, <1>4, ShortHeads
  <2>2. CASE Len(todo) = 3 /\ Head(todo) = Remove("body")
    <3>1. /\ disk'["body"] = 0 /\ disk'["bodyBak"] = 0 /\ disk'["jsonBak"] = 0 /\ todo' # <<>>
          /\ Len(todo') # 1
      BY <1>1, <1>2, <2>2 DEF Effect, Becomes, Is
    <3> QED
      BY <1>1, <1>4, <3>1 DEF LoadFits
  <2>3. CASE Len(todo) = 2 /\ Head(todo) = Remove("json")
    <3>1. /\ disk'["body"] = 0 /\ disk'["json"] = 0 /\ disk'["bodyBak"] = 0 /\ disk'["jsonBak"] = 0
          /\ todo' # <<>>
      BY <1>1, <1>2, <1>4, <2>3 DEF Effect, Becomes, Is
    <3> QED
      BY <1>1, <1>4, <3>1 DEF LoadFits
  <2>4. CASE Len(todo) = 1 /\ Head(todo) = Remove("body")
    <3>1. Is(disk', 0, 0, 0, 0) /\ todo' = <<>>
      BY <1>1, <1>2, <1>4, <2>4 DEF Effect, Becomes, Is
    <3> QED
      BY <1>1, <1>4, <3>1 DEF LoadFits, Whole, Holds, Is
  <2> QED
    BY <2>1, <2>2, <2>3, <2>4
<1> QED
  BY <1>1, <1>3, <1>4 DEF LoadFits

\* The operations a recovery decides on are some or none.
LEMMA SomeLeft == DropBackups # <<>> /\ Undo # <<>> /\ DropAll # <<>> /\ BringBack # <<>> /\ DropBody # <<>>
<1>1. Len(DropBackups) = 2 /\ Len(Undo) = 4 /\ Len(DropAll) = 3 /\ Len(BringBack) = 2 /\ Len(DropBody) = 1
  BY Programs
<1> QED
  BY <1>1

LEMMA StartOnce ==
    ASSUME PairTyped, Recoverable, Start
    PROVE  Pass1Fits'
<1>1. phase' = "pass1" /\ todo' = Pass1Ops /\ disk' = disk /\ accepted' = accepted
  BY DEF Start
<1>2. CASE disk["bodyBak"] # 0 /\ disk["jsonBak"] = 0
  <2>1. \E v \in accepted \ {0} : Is(disk, 0, v, v, 0)
    BY <1>2 DEF Recoverable, Holds, Whole, Is
  <2>2. todo' = BringBack
    BY <1>1, <1>2 DEF Pass1Ops, BringBack
  <2>3. Left(BringBack)' /\ todo' # <<>>
    BY <2>2, SomeLeft, Programs, AllLeft
  <2> QED
    BY <1>1, <2>1, <2>3 DEF Pass1Fits, Holds
<1>3. CASE ~(disk["bodyBak"] # 0 /\ disk["jsonBak"] = 0)
  <2>1. todo' = <<>>
    BY <1>1, <1>3 DEF Pass1Ops
  <2>2. Recoverable'
    BY <1>1 DEF Recoverable, Holds, Whole
  <2> QED
    BY <1>1, <1>3, <2>1, <2>2 DEF Pass1Fits
<1> QED
  BY <1>2, <1>3

LEMMA Pass1Once ==
    ASSUME PairTyped, Pass1Fits, EndPass1
    PROVE  Pass2Fits'
<1>1. todo = <<>> /\ phase' = "pass2" /\ todo' = Pass2Ops /\ disk' = disk /\ accepted' = accepted
  BY DEF EndPass1
<1>2. Recoverable /\ ~(disk["bodyBak"] # 0 /\ disk["jsonBak"] = 0)
  BY <1>1 DEF Pass1Fits
<1>3. CASE disk["jsonBak"] = 0
  <2>1. todo' = <<>>
    BY <1>1, <1>3 DEF Pass2Ops
  <2>2. Recoverable'
    BY <1>1, <1>2 DEF Recoverable, Holds, Whole
  <2> QED
    BY <1>1, <1>2, <1>3, <2>1, <2>2 DEF Pass2Fits
<1>4. CASE disk["jsonBak"] # 0
  <2>1. \E v \in accepted \ {0} : \/ \E u \in Versions : Is(disk, u, 0, v, v)
                                  \/ \E u \in {0} \union accepted, w \in Versions \ {0} : Is(disk, v, v, u, w)
    BY <1>2, <1>4 DEF Recoverable, Holds, Whole, Is
  <2>2. PICK v \in accepted \ {0} : \/ \E u \in Versions : Is(disk, u, 0, v, v)
                                    \/ \E u \in {0} \union accepted, w \in Versions \ {0} : Is(disk, v, v, u, w)
    BY <2>1
  <2>3. CASE \E u \in Versions : Is(disk, u, 0, v, v)
    <3>1. ~ValidPair
      BY <2>3 DEF ValidPair, Is
    <3>2. todo' = Undo
      BY <1>1, <1>4, <3>1 DEF Pass2Ops, Undo
    <3>3. Left(Undo)' /\ Len(todo') = 4
      BY <3>2, Programs, AllLeft
    <3>4. UndoStage(disk', 4, v)
      BY <1>1, <2>3 DEF UndoStage
    <3>5. Undoing(v)'
      BY <3>3, <3>4 DEF Undoing
    <3> QED
      BY <1>1, <3>5 DEF Pass2Fits
  <2>4. CASE \E u \in {0} \union accepted, w \in Versions \ {0} : Is(disk, v, v, u, w)
    <3>1. ValidPair /\ disk["body"] = v /\ disk["json"] = v
      BY <2>4 DEF ValidPair, Is
    <3>2. todo' = DropBackups
      BY <1>1, <1>4, <3>1 DEF Pass2Ops
    <3>3. Left(DropBackups)'
      BY <3>2, Programs, AllLeft
    <3>4. ~(Len(todo') <= 1) /\ ~(Len(todo') = 0)
      <4>1. Len(todo') = 2
        BY <3>2, Programs
      <4> QED
        BY <4>1
    <3> QED
      BY <1>1, <3>1, <3>3, <3>4 DEF Pass2Fits
  <2> QED
    BY <2>2, <2>3, <2>4
<1> QED
  BY <1>3, <1>4

LEMMA Pass2Once ==
    ASSUME PairTyped, Pass2Fits, EndPass2
    PROVE  LoadFits'
<1>1. todo = <<>> /\ phase' = "load" /\ todo' = LoadOps /\ index' = Usable /\ disk' = disk
      /\ accepted' = accepted
  BY DEF EndPass2
<1>2. Len(todo) = 0
  BY <1>1
<1>3. \/ \E v \in accepted : Is(disk, v, v, 0, 0)
      \/ 0 \in accepted /\ \E v \in Versions : Is(disk, v, 0, 0, 0) \/ Is(disk, 0, v, 0, 0)
  <2>1. CASE disk["bodyBak"] = 0 /\ disk["jsonBak"] = 0 /\ Recoverable
    BY <2>1 DEF Recoverable, Holds, Whole, Is
  <2>2. CASE \E v \in accepted \ {0} : Undoing(v)
    <3>1. PICK v \in accepted \ {0} : UndoStage(disk, Len(todo), v)
      BY <2>2 DEF Undoing
    <3> QED
      BY <1>2, <3>1 DEF UndoStage
  <2>3. CASE /\ Left(DropBackups) /\ disk["body"] # 0 /\ disk["body"] = disk["json"] /\ disk["body"] \in accepted
             /\ Len(todo) <= 1 => disk["bodyBak"] = 0
             /\ Len(todo) = 0 => disk["jsonBak"] = 0
    <3>1. disk["bodyBak"] = 0 /\ disk["jsonBak"] = 0
      BY <1>2, <2>3
    <3> QED
      BY <2>3, <3>1 DEF Is
  <2> QED
    BY <2>1, <2>2, <2>3 DEF Pass2Fits
<1>4. CASE disk["json"] = 0
  <2>1. 0 \in accepted /\ disk["bodyBak"] = 0 /\ disk["jsonBak"] = 0 /\ Usable = 0
    BY <1>3, <1>4 DEF Is, Usable
  <2>2. todo' = DropBody
    BY <1>1, <1>4, <2>1 DEF LoadOps
  <2>3. Left(DropBody)' /\ Len(todo') = 1
    BY <2>2, Programs, AllLeft
  <2> QED
    BY <1>1, <1>4, <2>1, <2>3 DEF LoadFits
<1>5. CASE disk["json"] # 0 /\ disk["body"] # 0
  <2>1. PICK v \in accepted : Is(disk, v, v, 0, 0)
    BY <1>3, <1>5 DEF Is
  <2>2. Usable = v /\ v # 0
    BY <1>5, <2>1 DEF Usable, SameSize, Is
  <2>3. todo' = <<>>
    BY <1>1, <2>2 DEF LoadOps
  <2> QED
    BY <1>1, <2>1, <2>2, <2>3 DEF LoadFits, Whole, Holds, Is
<1>6. CASE disk["json"] # 0 /\ disk["body"] = 0
  <2>1. 0 \in accepted /\ disk["bodyBak"] = 0 /\ disk["jsonBak"] = 0
    BY <1>3, <1>6 DEF Is
  <2>2. Usable = 0
    BY <1>6 DEF SameSize, Usable
  <2>3. todo' = DropAll
    BY <1>1, <1>6, <2>2 DEF LoadOps, DropAll
  <2>4. Left(DropAll)' /\ todo' # <<>> /\ Len(todo') # 1
    BY <2>3, SomeLeft, Programs, AllLeft
  <2> QED
    BY <1>1, <1>6, <2>1, <2>2, <2>4 DEF LoadFits
<1> QED
  BY <1>4, <1>5, <1>6

LEMMA LoadOnce ==
    ASSUME PairTyped, LoadFits, EndLoad
    PROVE  phase' = "idle" /\ Whole(index)' /\ index' \in accepted'
<1>1. /\ todo = <<>> /\ phase' = "idle" /\ index' = index /\ disk' = disk
      /\ accepted' = (IF index \in accepted THEN {index} ELSE accepted)
  BY DEF EndLoad
<1>2. Len(todo) = 0
  BY <1>1
<1>3. Whole(index) /\ index \in accepted
  BY <1>1, <1>2 DEF LoadFits
<1> QED
  BY <1>1, <1>3 DEF Whole, Holds

\* What one fault, a crash, leaves behind.
LEMMA CrashOnce ==
    ASSUME PairTyped, ProgramOK, PhaseFits, Unfaulted, Crash
    PROVE  Recoverable'
<1>1. disk' = disk /\ accepted' = accepted /\ phase # "down" /\ phase # "failing" /\ 0 \in Versions
  BY CachePairAssumption DEF Crash, Unfaulted, Versions
<1>2. SUFFICES Recoverable
  BY <1>1 DEF Recoverable, Holds, Whole
<1>3. CASE phase \in {"pass1", "pass2", "load"}
  BY <1>3 DEF Unfaulted, Recoverable
<1>4. CASE phase = "idle"
  BY <1>4 DEF PhaseFits, Recoverable
<1>5. CASE phase = "remove"
  <2>1. RemoveFits
    BY <1>5 DEF PhaseFits
  <2>2. Len(todo) \in 0 .. 3 /\ 0 \in accepted /\ index \in accepted /\ index \in Versions
    <3>1. Len(todo) \in Nat /\ Len(todo) <= Len(RemoveOps)
      BY <2>1 DEF RemoveFits, Left, ProgramOK
    <3>2. Len(todo) \in 0 .. 3
      <4>1. Len(RemoveOps) = 3
        BY Programs
      <4>2. \A n \in Nat : n <= 3 => n \in 0 .. 3
        OBVIOUS
      <4> QED
        BY <3>1, <4>1, <4>2, Zenon
    <3> QED
      BY <1>5, <2>1, <3>2 DEF RemoveFits, PhaseFits, PairTyped
  <2>3. Is(disk, index, index, 0, 0) \/ Is(disk, 0, index, 0, 0) \/ Is(disk, 0, 0, 0, 0)
    BY <2>1, <2>2 DEF RemoveFits, RemoveStage
  <2> QED
    BY <2>2, <2>3 DEF Recoverable, Whole, Holds
<1>6. CASE phase = "put"
  <2>1. PutStage(disk, Len(todo), index, writing) /\ writing \in accepted \ {0} /\ index \in accepted
    BY <1>6 DEF PhaseFits, PutFits, Replacing
  <2>2. Len(todo) \in 0 .. 9
    <3>1. Len(todo) \in Nat /\ Len(todo) <= Len(PutAll)
      BY <1>6 DEF Left, ProgramOK
    <3>2. Len(PutAll) = 9
      BY Programs
    <3>3. \A n \in Nat : n <= 9 => n \in 0 .. 9
      OBVIOUS
    <3> QED
      BY <3>1, <3>2, <3>3, Zenon
  <2>3. \/ Is(disk, index, index, 0, 0) \/ Is(disk, 0, index, index, 0) \/ Is(disk, 0, 0, index, index)
        \/ Is(disk, writing, 0, index, index) \/ Is(disk, writing, writing, index, index)
        \/ Is(disk, writing, writing, 0, index) \/ Is(disk, writing, writing, 0, 0)
    BY <2>1, <2>2 DEF PutStage
  <2>4. index \in Versions /\ writing \in Versions
    BY DEF PairTyped
  <2>5. CASE index = 0
    BY <1>1, <2>1, <2>3, <2>4, <2>5 DEF Recoverable, Whole, Holds
  <2>6. CASE index # 0
    BY <1>1, <2>1, <2>3, <2>4, <2>6 DEF Recoverable, Whole, Holds
  <2> QED
    BY <2>5, <2>6
<1> QED
  BY <1>1, <1>3, <1>4, <1>5, <1>6 DEF PairTyped, Phases

\* The operations of the store itself, one at a time.
LEMMA StepOnce ==
    ASSUME ProgInv, PhaseFits, TotalFaults = 0 => Unfaulted, Step
    PROVE  (TotalFaults' = 0 => Unfaulted') /\ PhaseFits'
<1>1. /\ todo # <<>> /\ UNCHANGED <<phase, index, writing, accepted, faults>>
      /\ index \in Versions /\ accepted \subseteq Versions
  BY Stepping DEF ProgInv, PairTyped
<1>2. phase \notin {"idle", "down"}
  BY <1>1 DEF ProgInv, ProgramOK
<1>3. TotalFaults' = 0 => Unfaulted'
  <2>1. SUFFICES ASSUME TotalFaults = 0 PROVE Unfaulted'
    BY <1>1 DEF TotalFaults
  <2>2. phase \notin {"pass1", "pass2", "failing"}
    BY <1>1, <2>1 DEF Unfaulted
  <2>3. phase = "load" => Whole(0)' /\ 0 \in accepted /\ Left(DropBody)'
    <3>1. ASSUME phase = "load" PROVE Left(DropBody) /\ Whole(0) /\ \E v \in accepted : Whole(v)
      BY <1>1, <2>1, <3>1 DEF Unfaulted
    <3>2. phase = "load" => 0 \in accepted
      BY <3>1 DEF Whole, Holds, Is
    <3>3. Left(DropBody) => Left(DropBody)'
      BY Stepping
    <3> QED
      BY <3>1, <3>2, <3>3, StaysEmpty
  <2> QED
    BY <1>1, <1>2, <2>2, <2>3 DEF Unfaulted
<1>4. phase = "put" => PutFits'
  BY <1>1, PutTakes DEF PhaseFits, PutFits
<1>5. phase = "failing" => FailingFits'
  BY <1>1, FailingTakes DEF PhaseFits
<1>6. phase = "remove" => RemoveFits'
  BY RemoveTakes DEF PhaseFits
<1>7. phase = "pass1" => Pass1Fits'
  BY Pass1Takes DEF PhaseFits
<1>8. phase = "pass2" => Pass2Fits'
  BY <1>1, Pass2Takes DEF PhaseFits
<1>9. phase = "load" => LoadFits'
  BY LoadTakes DEF PhaseFits
<1> QED
  BY <1>1, <1>2, <1>3, <1>4, <1>5, <1>6, <1>7, <1>8, <1>9 DEF PhaseFits

\* What the store decides between them.
LEMMA DecidesOnce ==
    ASSUME ProgInv, PhaseFits, TotalFaults = 0 => Unfaulted,
           BeginPut \/ EndPut \/ EndFailedPut \/ UpdateMetadata \/ BeginRemove \/ GetDropsCorrupt \/ EndRemove \/ Stop
    PROVE  (TotalFaults' = 0 => Unfaulted') /\ PhaseFits'
<1>0. PairTyped /\ index \in Versions
  BY DEF ProgInv, PairTyped
<1>1. CASE BeginPut
  <2>1. /\ phase = "idle" /\ phase' = "put" /\ UNCHANGED <<disk, index, faults>>
        /\ writing' \in Versions \ {0, index} /\ accepted' = accepted \union {writing'}
        /\ Len(todo') = IF index = 0 THEN 5 ELSE 9
    BY <1>0, <1>1, PutBegins
  <2>2. Is(disk, index, index, 0, 0) /\ index \in accepted
    BY <2>1 DEF PhaseFits, Whole, Holds
  <2>3. PutStage(disk', Len(todo'), index, writing')
    <3>1. CASE index = 0
      <4>1. Is(disk', 0, 0, index, index) /\ Len(todo') = 5
        BY <2>1, <2>2, <3>1
      <4>2. PutStage(disk', 5, index, writing')
        BY <4>1 DEF PutStage
      <4> QED
        BY <4>1, <4>2
    <3>2. CASE index # 0
      <4>1. Is(disk', index, index, 0, 0) /\ Len(todo') = 9
        BY <2>1, <2>2, <3>2
      <4>2. PutStage(disk', 9, index, writing')
        BY <4>1 DEF PutStage
      <4> QED
        BY <4>1, <4>2
    <3> QED
      BY <3>1, <3>2
  <2>4. PutFits' /\ index' \in accepted'
    BY <2>1, <2>2, <2>3 DEF PutFits, Replacing
  <2> QED
    BY <2>1, <2>4 DEF PhaseFits, Unfaulted
<1>2. CASE EndPut
  <2>1. /\ phase = "put" /\ todo = <<>> /\ phase' = "idle" /\ index' = writing /\ accepted' = {writing}
        /\ disk' = disk
    BY <1>2 DEF EndPut
  <2>2. Is(disk, writing, writing, 0, 0)
    <3>1. PutStage(disk, Len(todo), index, writing) /\ Len(todo) = 0
      BY <2>1 DEF PhaseFits, PutFits, Replacing
    <3> QED
      BY <3>1 DEF PutStage
  <2> QED
    BY <2>1, <2>2 DEF PhaseFits, Unfaulted, Whole, Holds
<1>3. CASE EndFailedPut
  <2>1. /\ phase = "failing" /\ todo = <<>> /\ phase' = "idle" /\ UNCHANGED <<disk, index, accepted>>
    BY <1>3 DEF EndFailedPut
  <2>2. Is(disk, index, index, 0, 0) /\ index \in accepted
    <3>1. FailingFits /\ index \in accepted /\ Len(todo) = 0 /\ Len(todo) <= 1
      BY <2>1 DEF PhaseFits
    <3>2. CASE index # 0 /\ Undoing(index)
      <4>1. UndoStage(disk, 0, index)
        BY <3>1, <3>2 DEF Undoing
      <4> QED
        BY <3>1, <4>1 DEF UndoStage
    <3>3. CASE ~(index # 0 /\ Undoing(index))
      BY <2>1, <3>1, <3>3 DEF FailingFits, Is
    <3> QED
      BY <3>2, <3>3
  <2> QED
    BY <2>1, <2>2 DEF PhaseFits, Unfaulted, Whole, Holds
<1>4. CASE BeginRemove
  <2>1. /\ phase = "idle" /\ phase' = "remove" /\ todo' = RemoveOps /\ UNCHANGED <<disk, index>>
        /\ accepted' = accepted \union {0}
    BY <1>4 DEF BeginRemove
  <2>2. Is(disk, index, index, 0, 0) /\ index \in accepted
    BY <2>1 DEF PhaseFits, Whole, Holds
  <2>3. Len(todo') = 3 /\ Left(RemoveOps)'
    BY <2>1, Programs, AllLeft
  <2>4. RemoveStage(disk', 3, index)
    BY <2>1, <2>2 DEF RemoveStage
  <2>5. RemoveFits'
    BY <2>1, <2>3, <2>4 DEF RemoveFits
  <2> QED
    BY <2>1, <2>2, <2>5 DEF PhaseFits, Unfaulted
<1>5. CASE GetDropsCorrupt
  <2>1. phase = "idle" /\ disk["body"] # index
    BY <1>5 DEF GetDropsCorrupt
  <2> QED
    BY <2>1 DEF PhaseFits, Whole, Holds, Is
<1>6. CASE EndRemove
  <2>1. phase = "remove" /\ todo = <<>> /\ phase' = "idle" /\ index' = 0 /\ disk' = disk /\ accepted' = {0}
    BY <1>6 DEF EndRemove
  <2>2. Is(disk, 0, 0, 0, 0) /\ 0 \in accepted
    <3>1. RemoveStage(disk, 0, index) /\ 0 \in accepted
      BY <2>1 DEF PhaseFits, RemoveFits
    <3> QED
      BY <3>1 DEF RemoveStage
  <2> QED
    BY <2>1, <2>2 DEF PhaseFits, Unfaulted, Whole, Holds
<1>7. CASE UpdateMetadata
  <2>1. /\ phase = "idle" /\ phase' = "idle" /\ index' = index /\ accepted' = accepted
        /\ disk' = [disk EXCEPT !["json"] = index] /\ disk \in [Files -> Versions]
    BY <1>0, <1>7 DEF UpdateMetadata, PairTyped
  <2>2. Is(disk, index, index, 0, 0) /\ index \in accepted
    BY <2>1 DEF PhaseFits, Whole, Holds
  <2>3. Is(disk', index, index, 0, 0)
    BY <2>1, <2>2 DEF Is, Files
  <2> QED
    BY <2>1, <2>2, <2>3 DEF PhaseFits, Unfaulted, Whole, Holds
<1>8. CASE Stop
  <2>1. /\ phase = "idle" /\ phase' = "down" /\ UNCHANGED <<disk, todo, accepted>> /\ todo = <<>>
    BY <1>8 DEF Stop, ProgInv, ProgramOK
  <2>2. \E v \in accepted : Is(disk, v, v, 0, 0)
    BY <2>1 DEF PhaseFits, Whole, Holds
  <2>3. \E v \in accepted' : Whole(v)'
    BY <2>1, <2>2 DEF Whole, Holds
  <2>4. Recoverable'
    BY <2>3 DEF Recoverable
  <2> QED
    BY <2>1, <2>3, <2>4 DEF PhaseFits, Unfaulted
<1> QED
  BY <1>1, <1>2, <1>3, <1>4, <1>5, <1>6, <1>7, <1>8

\* A restart.
LEMMA RestartsOnce ==
    ASSUME ProgInv, PhaseFits, TotalFaults = 0 => Unfaulted,
           Start \/ EndPass1 \/ EndPass2 \/ EndLoad
    PROVE  (TotalFaults' = 0 => Unfaulted') /\ PhaseFits'
<1>0. PairTyped
  BY DEF ProgInv
<1>1. CASE EndLoad
  <2>1. phase = "load" /\ phase' = "idle" /\ LoadFits
    BY <1>1 DEF EndLoad, PhaseFits
  <2>2. Whole(index)' /\ index' \in accepted'
    BY <1>0, <1>1, <2>1, LoadOnce
  <2> QED
    BY <2>1, <2>2 DEF PhaseFits, Unfaulted
<1>2. CASE Start \/ EndPass1 \/ EndPass2
  <2>1. /\ phase \in {"down", "pass1", "pass2"} /\ phase' \in {"pass1", "pass2", "load"}
        /\ UNCHANGED <<disk, accepted, faults>>
    BY <1>2 DEF Start, EndPass1, EndPass2
  <2>2. TotalFaults' = 0 => Unfaulted'
    <3>1. SUFFICES ASSUME TotalFaults = 0 PROVE Unfaulted'
      BY <2>1 DEF TotalFaults
    <3>2. PICK v \in accepted : Is(disk, v, v, 0, 0)
      BY <2>1, <3>1 DEF Unfaulted, Whole, Holds
    <3>3. phase' \in {"pass1", "pass2"} => todo' = <<>>
      BY <1>2, <3>2 DEF Start, EndPass1, EndPass2, Pass1Ops, Pass2Ops, Is
    <3>4. phase' = "load" /\ todo' # <<>> => Left(DropBody)' /\ Is(disk', 0, 0, 0, 0)
      <4>1. SUFFICES ASSUME EndPass2, todo' # <<>> PROVE Left(DropBody)' /\ Is(disk', 0, 0, 0, 0)
        BY <1>2 DEF Start, EndPass1
      <4>2. todo' = LoadOps /\ disk' = disk
        BY <4>1 DEF EndPass2
      <4>3. v = 0
        <5>1. SUFFICES ASSUME v # 0 PROVE FALSE
          OBVIOUS
        <5>2. Usable # 0
          BY <3>2, <5>1 DEF Usable, SameSize, Is
        <5> QED
          BY <4>1, <4>2, <5>2 DEF LoadOps
      <4>4. LoadOps = DropBody
        BY <3>2, <4>3 DEF LoadOps, Usable, Is
      <4>5. Left(DropBody)'
        BY <4>2, <4>4, Programs, AllLeft
      <4> QED
        BY <3>2, <4>2, <4>3, <4>5
    <3> QED
      BY <2>1, <3>2, <3>3, <3>4 DEF Unfaulted, Whole, Holds
  <2>3. CASE Start
    <3>1. phase = "down" /\ phase' = "pass1"
      BY <2>3 DEF Start
    <3>2. Pass1Fits'
      BY <1>0, <2>3, <3>1, StartOnce DEF PhaseFits
    <3> QED
      BY <2>2, <3>1, <3>2 DEF PhaseFits
  <2>4. CASE EndPass1
    <3>1. phase = "pass1" /\ phase' = "pass2"
      BY <2>4 DEF EndPass1
    <3>2. Pass2Fits'
      BY <1>0, <2>4, <3>1, Pass1Once DEF PhaseFits
    <3> QED
      BY <2>2, <3>1, <3>2 DEF PhaseFits
  <2>5. CASE EndPass2
    <3>1. phase = "pass2" /\ phase' = "load"
      BY <2>5 DEF EndPass2
    <3>2. LoadFits'
      BY <1>0, <2>5, <3>1, Pass2Once DEF PhaseFits
    <3> QED
      BY <2>2, <3>1, <3>2 DEF PhaseFits
  <2> QED
    BY <1>2, <2>3, <2>4, <2>5
<1> QED
  BY <1>1, <1>2

\* The first fault; after a second one, or a failed sync, nothing is promised.
LEMMA FailsOnce ==
    ASSUME ProgInv, PhaseFits, PutFails, Fault("rename"), Len(todo) # 1
    PROVE  PhaseFits'
<1>1. /\ disk' = disk /\ index' = index /\ accepted' = accepted /\ phase = "put" /\ phase' = "failing"
      /\ \/ Len(todo) = 7 /\ todo' = <<>>
         \/ Len(todo) = 6 /\ todo' = UndoAside
         \/ Len(todo) \in {4, 5} /\ index # 0 /\ todo' = Undo
         \/ Len(todo) \in {4, 5} /\ index = 0 /\ todo' = DropPair
  <2>1. Len(todo) \in {1, 7} /\ Len(todo) # 1 => Len(todo) = 7
    OBVIOUS
  <2> QED
    BY <2>1, Failing
<1>2. PutStage(disk, Len(todo), index, writing) /\ index \in accepted /\ writing \in Versions
  BY <1>1 DEF PhaseFits, PutFits, Replacing, ProgInv, PairTyped
<1>3. index = 0 => Len(todo) <= 5
  BY <1>1 DEF ProgInv, ProgramOK
<1>4. SUFFICES FailingFits'
  BY <1>1, <1>2 DEF PhaseFits
<1>5. CASE Len(todo) = 7 /\ todo' = <<>>
  <2>1. Is(disk', index, index, 0, 0) /\ index # 0
    BY <1>1, <1>2, <1>3, <1>5 DEF PutStage
  <2>2. Left(Undo)' /\ Len(todo') = 0
    BY <1>5, Programs, NothingLeft
  <2>3. UndoStage(disk', 0, index)
    BY <2>1 DEF UndoStage
  <2>4. Undoing(index)'
    BY <1>1, <2>2, <2>3 DEF Undoing
  <2> QED
    BY <1>1, <2>1, <2>4 DEF FailingFits
<1>6. CASE Len(todo) = 6 /\ todo' = UndoAside
  <2>1. Is(disk', 0, index, index, 0) /\ index # 0
    BY <1>1, <1>2, <1>3, <1>6 DEF PutStage
  <2>2. Left(UndoAside)' /\ Len(todo') = 1
    BY <1>6, Programs, AllLeft
  <2>3. todo' # <<>>
    BY <2>2
  <2> QED
    BY <1>1, <2>1, <2>2, <2>3 DEF FailingFits, Holds
<1>7. CASE Len(todo) \in {4, 5} /\ index # 0 /\ todo' = Undo
  <2>1. 0 \in Versions /\ (Is(disk', 0, 0, index, index) \/ Is(disk', writing, 0, index, index))
    BY <1>1, <1>2, <1>7, CachePairAssumption DEF PutStage, Versions
  <2>2. Left(Undo)' /\ Len(todo') = 4
    BY <1>7, Programs, AllLeft
  <2>3. UndoStage(disk', 4, index)
    BY <1>2, <2>1 DEF UndoStage
  <2>4. Undoing(index)'
    BY <1>1, <2>2, <2>3 DEF Undoing
  <2> QED
    BY <1>1, <1>7, <2>4 DEF FailingFits
<1>8. CASE Len(todo) \in {4, 5} /\ index = 0 /\ todo' = DropPair
  <2>1. disk'["json"] = 0 /\ disk'["bodyBak"] = 0 /\ disk'["jsonBak"] = 0
    BY <1>1, <1>2, <1>8 DEF PutStage, Is
  <2>2. Left(DropPair)'
    BY <1>8, Programs, AllLeft
  <2>3. ~(Len(todo') <= 1)
    <3>1. Len(todo') = 2
      BY <1>8, Programs
    <3> QED
      BY <3>1
  <2> QED
    BY <1>1, <1>8, <2>1, <2>2, <2>3 DEF FailingFits
<1> QED
  BY <1>1, <1>5, <1>6, <1>7, <1>8

\* A fault is the first one if it leaves no more than one behind.
LEMMA FirstFault ==
    ASSUME ProgInv, OnceInv, NEW k \in Kinds, faults' = [faults EXCEPT ![k] = @ + 1], OneFault'
    PROVE  /\ TotalFaults = 0 /\ OneFault /\ Unfaulted /\ PhaseFits
           /\ k \notin {"sync", "remove"} /\ TotalFaults' # 0
<1>1. /\ faults'[k] = faults[k] + 1 /\ \A j \in Kinds : faults'[j] >= faults[j] /\ faults[j] \in Nat
      /\ TotalFaults \in Nat /\ TotalFaults' = TotalFaults + 1
  BY FaultsTyped DEF ProgInv, PairTyped
<1>2. TotalFaults' <= 1 /\ faults'["sync"] = 0 /\ faults'["remove"] = 0 /\ "sync" \in Kinds /\ "remove" \in Kinds
  BY DEF OneFault, Kinds
<1>3. k # "sync" /\ k # "remove"
  BY <1>1, <1>2
<1>4. faults["sync"] = 0 /\ faults["remove"] = 0 /\ TotalFaults = 0 /\ TotalFaults' # 0
  BY <1>1, <1>2
<1>5. OneFault
  BY <1>4 DEF OneFault
<1> QED
  BY <1>3, <1>4, <1>5 DEF OnceInv

LEMMA OnceKeeps ==
    ASSUME ProgInv, OnceInv, Next
    PROVE  OnceInv'
<1>0. SUFFICES ASSUME OneFault' PROVE (TotalFaults' = 0 => Unfaulted') /\ PhaseFits'
  BY DEF OnceInv
<1>1. ASSUME NEW k, Fault(k)
      PROVE  /\ k \notin {"sync", "remove"} /\ Unfaulted /\ PhaseFits /\ TotalFaults' # 0
             /\ faults' # faults
  <2>1. k \in Kinds /\ faults' = [faults EXCEPT ![k] = @ + 1]
    BY <1>1, FaultCounts
  <2>2. TotalFaults \in Nat /\ TotalFaults' = TotalFaults + 1
    BY <1>1, FaultCounts
  <2>3. faults' # faults
    BY <2>2 DEF TotalFaults
  <2> QED
    BY <1>0, <2>1, <2>3, FirstFault
<1>2. ASSUME UNCHANGED faults PROVE OneFault /\ PhaseFits /\ (TotalFaults = 0 => Unfaulted)
  BY <1>0, <1>2 DEF OnceInv, OneFault, TotalFaults
<1>3. CASE Step
  <2>1. UNCHANGED faults
    BY <1>3, Stepping
  <2> QED
    BY <1>2, <1>3, <2>1, StepOnce
<1>4. CASE BeginPut \/ EndPut \/ EndFailedPut \/ UpdateMetadata \/ BeginRemove \/ GetDropsCorrupt \/ EndRemove \/ Stop
  <2>1. UNCHANGED faults
    BY <1>4 DEF BeginPut, EndPut, EndFailedPut, UpdateMetadata, BeginRemove, GetDropsCorrupt, EndRemove, Stop
  <2> QED
    BY <1>2, <1>4, <2>1, DecidesOnce
<1>5. CASE Start \/ EndPass1 \/ EndPass2 \/ EndLoad
  <2>1. UNCHANGED faults
    BY <1>5 DEF Start, EndPass1, EndPass2, EndLoad
  <2> QED
    BY <1>2, <1>5, <2>1, RestartsOnce
<1>6. CASE PutFails
  <2>1. phase = "put"
    BY <1>6, Failing
  <2>2. Fault("rename") /\ Len(todo) # 1
    <3>1. CASE faults' = faults
      <4>1. PutStage(disk, Len(todo), index, writing)
        BY <1>2, <2>1, <3>1 DEF PhaseFits, PutFits, Replacing
      <4>2. index = 0 => Len(todo) <= 5
        BY <2>1 DEF ProgInv, ProgramOK
      <4>3. \/ Len(todo) = 7 /\ disk["body"] = 0
            \/ Len(todo) = 6 /\ disk["json"] = 0
        BY <1>1, <1>6, <3>1, Failing
      <4>4. FALSE
        <5>1. CASE Len(todo) = 7 /\ disk["body"] = 0
          BY <4>1, <4>2, <5>1 DEF PutStage, Is
        <5>2. CASE Len(todo) = 6 /\ disk["json"] = 0
          BY <4>1, <4>2, <5>2 DEF PutStage, Is
        <5> QED
          BY <4>3, <5>1, <5>2
      <4> QED
        BY <4>4
    <3>2. CASE Fault("sync")
      BY <1>1, <3>2
    <3>3. CASE Len(todo) \notin {0, 1} /\ Fault("rename")
      BY <3>3
    <3> QED
      BY <1>6, <3>1, <3>2, <3>3, Failing
  <2> QED
    BY <1>1, <1>6, <2>2, FailsOnce
<1>7. CASE RemoveFails
  <2>1. /\ phase = "remove" /\ todo # <<>> /\ Fault(FaultOf(Head(todo)))
    BY <1>7 DEF RemoveFails
  <2>2. todo \in Seq(Ops) /\ Left(RemoveOps)
    BY <2>1 DEF ProgInv, ProgramOK
  <2>3. Head(todo) \in {Remove("body"), Remove("json"), Sync}
    BY <2>1, <2>2, ShortHeads
  <2>4. FaultOf(Head(todo)) \in {"sync", "remove"}
    BY <2>3 DEF FaultOf, Remove, Sync
  <2> QED
    BY <1>1, <2>1, <2>4
<1>8. CASE Unnoticed
  <2>1. /\ phase \in {"put", "failing", "pass1", "pass2", "load"} /\ todo # <<>>
        /\ phase \in {"put", "load"} => Fault("remove")
        /\ Fault("rename") \/ Fault("remove")
    BY <1>8, Skipping
  <2>2. Unfaulted
    BY <1>1, <2>1
  <2>3. phase \in {"put", "load"}
    BY <2>1, <2>2 DEF Unfaulted
  <2> QED
    BY <1>1, <2>1, <2>3
<1>9. CASE Crash
  <2>1. Fault("crash") /\ phase' = "down"
    BY <1>9 DEF Crash
  <2>2. Unfaulted /\ PhaseFits /\ TotalFaults' # 0
    BY <1>1, <2>1
  <2>3. Recoverable'
    BY <1>9, <2>2, CrashOnce DEF ProgInv
  <2> QED
    BY <2>1, <2>2, <2>3 DEF PhaseFits
<1> QED
  BY <1>3, <1>4, <1>5, <1>6, <1>7, <1>8, <1>9 DEF Next

OnceStrong == PairInv /\ OnceInv

LEMMA OnceStarts == Init => OnceStrong
<1> SUFFICES ASSUME Init PROVE OnceInv
  BY PairStarts DEF OnceStrong
<1>1. phase = "down" /\ accepted = {0} /\ Is(disk, 0, 0, 0, 0)
  BY DEF Init, Is, Files
<1>2. Unfaulted /\ Recoverable
  BY <1>1 DEF Unfaulted, Recoverable, Whole, Holds
<1>3. PhaseFits
  BY <1>1, <1>2 DEF PhaseFits
<1> QED
  BY <1>2, <1>3 DEF OnceInv

LEMMA OnceHolds == OnceStrong /\ [Next]_vars => OnceStrong'
<1> SUFFICES ASSUME OnceStrong, [Next]_vars PROVE OnceStrong'
  OBVIOUS
<1>1. PairInv'
  BY PairHolds DEF OnceStrong
<1>2. CASE Next
  BY <1>1, <1>2, OnceKeeps DEF OnceStrong, PairInv
<1>3. CASE UNCHANGED vars
  <2>1. OnceInv'
    BY <1>3 DEF OnceStrong, OnceInv, OneFault, TotalFaults, Unfaulted, PhaseFits, PutFits, FailingFits, RemoveFits,
                Recoverable, Pass1Fits, Pass2Fits, LoadFits, Replacing, Undoing, Left, Whole, Holds, vars
  <2> QED
    BY <1>1, <2>1 DEF OnceStrong
<1> QED
  BY <1>2, <1>3

\* One crash or failed rename at any file operation of a put, of a removal or of
\* the recovery after a restart costs no entry: an idle store answers the version
\* last stored, or the one being stored, and misses only what was removed.
THEOREM DurableAfterOne == Spec => []DurableOnce
<1>1. OnceStrong => DurableOnce
  BY DEF OnceStrong, OnceInv, PhaseFits, DurableOnce, Durable, Lookup, Whole, Holds, Is
<1> QED
  BY <1>1, OnceStarts, OnceHolds, PTL DEF Spec

\* After one fault an idle store holds no backups and no body or sidecar of an
\* entry that the index does not charge to the quota.
THEOREM ChargedAfterOne == Spec => []NothingUncharged
<1>1. OnceStrong => NothingUncharged
  BY DEF OnceStrong, OnceInv, PhaseFits, NothingUncharged, Whole, Holds, Is
<1> QED
  BY <1>1, OnceStarts, OnceHolds, PTL DEF Spec

-----------------------------------------------------------------------------
(* Types                                                                    *)

Bounded == TotalFaults <= MaxFaults

LEMMA BoundedHolds == PairInv /\ Bounded /\ [Next]_vars => Bounded'
<1> SUFFICES ASSUME PairInv, Bounded, [Next]_vars PROVE Bounded'
  OBVIOUS
<1>0. ProgInv
  BY DEF PairInv
<1>1. ASSUME NEW k, Fault(k) PROVE Bounded'
  <2>1. TotalFaults \in Nat /\ TotalFaults' = TotalFaults + 1 /\ TotalFaults < MaxFaults
    BY <1>0, <1>1, FaultCounts
  <2> QED
    BY <2>1, CachePairAssumption DEF Bounded
<1>2. ASSUME UNCHANGED faults PROVE Bounded'
  BY <1>2 DEF Bounded, TotalFaults
<1>3. CASE PutFails
  BY <1>0, <1>1, <1>2, <1>3, Failing
<1>4. CASE RemoveFails \/ Unnoticed \/ Crash
  BY <1>1, <1>4 DEF RemoveFails, Unnoticed, Crash
<1>5. CASE Step
  BY <1>0, <1>2, <1>5, Stepping
<1>6. CASE ~(PutFails \/ RemoveFails \/ Unnoticed \/ Crash \/ Step)
  <2>1. UNCHANGED faults
    BY <1>6 DEF Next, vars, BeginPut, EndPut, EndFailedPut, UpdateMetadata, BeginRemove, GetDropsCorrupt,
                EndRemove, Start, EndPass1, EndPass2, EndLoad, Stop
  <2> QED
    BY <1>2, <2>1
<1> QED
  BY <1>3, <1>4, <1>5, <1>6

LEMMA TypesFit == PairInv /\ Bounded => TypeOK
<1> SUFFICES ASSUME PairInv, Bounded PROVE TypeOK
  OBVIOUS
<1>1. PairTyped /\ todo \in Seq(Ops) /\ (phase \in {"idle", "down"} => todo = <<>>)
  BY DEF PairInv, ProgInv, ProgramOK
<1>2. \A i \in DOMAIN todo : todo[i].from \in Files /\ todo[i].to \in Files
  <2>1. \A o \in Ops : o.from \in Files /\ o.to \in Files
    BY DEF Ops, Rename, Install, Remove, Sync, Files
  <2>2. \A i \in DOMAIN todo : todo[i] \in Ops
    BY <1>1
  <2> QED
    BY <2>1, <2>2
<1>3. faults \in [Kinds -> 0 .. MaxFaults]
  <2>1. faults \in [Kinds -> Nat] /\ Kinds = {"crash", "rename", "remove", "sync"}
    BY <1>1 DEF PairTyped, Kinds
  <2>2. faults["crash"] + faults["rename"] + faults["remove"] + faults["sync"] <= MaxFaults
    BY DEF Bounded, TotalFaults
  <2>3. faults["crash"] \in Nat /\ faults["rename"] \in Nat /\ faults["remove"] \in Nat
        /\ faults["sync"] \in Nat
    BY <2>1
  <2>4. \A k \in Kinds : faults[k] \in 0 .. MaxFaults
    BY <2>1, <2>2, <2>3, CachePairAssumption
  <2> QED
    BY <2>1, <2>4
<1> QED
  BY <1>1, <1>2, <1>3 DEF TypeOK, PairTyped

\* Whatever the store does, its files, its index and the operations it has left
\* are of the kinds replaceCachePairAt and recoverBackups know, and no more
\* faults happen than the model allows.
THEOREM Typed == Spec => []TypeOK
<1>1. Init => Bounded
  BY CachePairAssumption DEF Init, Bounded, TotalFaults, Kinds
<1> QED
  BY <1>1, PairStarts, PairHolds, BoundedHolds, TypesFit, PTL DEF Spec
=============================================================================
