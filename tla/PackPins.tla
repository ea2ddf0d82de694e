------------------------------ MODULE PackPins ------------------------------
(***************************************************************************)
(* What keeps the objects of a downloaded pack in the cache: the pins in   *)
(* the entries of the shared store (internal/server/cache_store.go), the   *)
(* keys in the pack's manifest in memory and on disk, and the job, the     *)
(* deletion and the restart that keep the three together                   *)
(* (internal/server/packs.go).  The queue of jobs is module PackJobs.      *)
(*                                                                         *)
(* Every pack asks for every key: the packs of two owners that cover the   *)
(* same area.  Each key of a running pack has a worker; workers, deletions,*)
(* evictions, and the revalidations and removals of entries by anybody     *)
(* else interleave at every lock.  Bytes, counts and progress are left out.*)
(***************************************************************************)
EXTENDS Integers, FiniteSets

CONSTANTS Packs,       \* pack identifiers; a random one is never drawn twice
          Keys,        \* cache keys
          Wipes,       \* entries may be missing after a restart
          Regional,    \* manifests are written in batches, not at every key
          MaxCrashes,  \* bound on the restarts
          MaxErrors,   \* bound on the failures to write a manifest or a pin
          MaxCopies    \* bound on the copies of an entry's metadata at a time

ASSUME PackPinsAssumption == /\ Wipes \in BOOLEAN /\ Regional \in BOOLEAN
                             /\ MaxCrashes \in Nat
                             /\ MaxErrors \in Nat /\ MaxCopies \in Nat

VARIABLES present,  \* keys the store has an entry for
          pins,     \* per key: packs among the pins of the entry
          file,     \* per pack: its manifest on disk
          pack,     \* per pack: its manifest in memory
          job,      \* per pack: the goroutine of run()
          work,     \* per pack and key: the worker
          cleanup,  \* per pack: keys that its deletion has yet to unpin
          copied,   \* per key: pins in the copies of its metadata that somebody
                    \* has taken and will write back
          lapse,    \* per pack and key, history: how the pin stopped being what
                    \* the pack's own steps made it
          crashes, errors

vars == <<present, pins, file, pack, job, work, cleanup, copied, lapse, crashes, errors>>
storeVars == <<present, pins, copied, lapse>>
boundVars == <<crashes, errors>>

States == {"unfinished", "complete", "incomplete"}  \* "unfinished": queued, running
Places == {"new", "listed", "deleted", "gone"}
WorkStates == {"todo", "stored", "pinned", "rejected", "done", "failed", "stopped"}

Manifests == [place : Places, state : States, keys : SUBSET Keys]
Files == [state : States \union {"none"}, keys : SUBSET Keys]
Jobs == [at : {"none", "launched", "running", "stopping"},  \* run(): where it is
         done : BOOLEAN]                                     \* its context is done

\* The pin was taken off; it outlived its release; its entry was gone at a restart.
Lapses == {"none", "taken", "left", "wiped"}

NoFile == [state |-> "none", keys |-> {}]

Listed == {p \in Packs : pack[p].place = "listed"}

Idle == [k \in Keys |-> "todo"]

-----------------------------------------------------------------------------
(* persistLocked and update *)

\* The manifest of p in memory becomes m.
Memory(p, m) == pack' = [pack EXCEPT ![p] = m]

Written(p, m) == file' = [file EXCEPT ![p] = [state |-> m.state, keys |-> m.keys]]

WriteFails == errors < MaxErrors /\ errors' = errors + 1

\* A regional pack that stays at work skips writes between checkpoints.
Skips(p, m) == Regional /\ pack[p].state = "unfinished" /\ m.state = "unfinished"

Updated(p, m) == /\ Memory(p, m)
                 /\ Written(p, m) \/ (Skips(p, m) /\ UNCHANGED file)
                 /\ UNCHANGED errors

\* The change stays in memory; the job is cancelled.
StorageError(p, m) == /\ WriteFails
                      /\ Memory(p, [m EXCEPT !.state = "incomplete"])
                      /\ UNCHANGED file

CancelWork(p) == job' = [job EXCEPT ![p].done = TRUE]

-----------------------------------------------------------------------------
(* startContext and launchLocked *)

Launch(p, m) == /\ Memory(p, m)
                /\ Written(p, m)
                /\ job' = [job EXCEPT ![p] = [at |-> "launched", done |-> FALSE]]
                /\ work' = [work EXCEPT ![p] = Idle]
                /\ UNCHANGED <<storeVars, cleanup, boundVars>>

Start(p) == /\ pack[p].place = "new"
            /\ Launch(p, [place |-> "listed", state |-> "unfinished", keys |-> {}])

\* The new attempt keeps the keys of the one before, so that they stay pinned.
Retry(p) == /\ p \in Listed
            /\ pack[p].state = "incomplete"
            /\ job[p].at = "none"
            /\ Launch(p, [pack[p] EXCEPT !.state = "unfinished"])

-----------------------------------------------------------------------------
(* run: acceptResponse, pinExisting, recordFailure *)

RunBegin(p) ==
    /\ job[p].at = "launched"
    /\ \/ /\ p \notin Listed
          /\ job' = [job EXCEPT ![p].at = "stopping"]
          /\ UNCHANGED <<file, pack, errors>>
       \/ /\ p \in Listed
          /\ Updated(p, pack[p])
          /\ job' = [job EXCEPT ![p].at = "running"]
       \/ /\ p \in Listed
          /\ StorageError(p, pack[p])
          /\ job' = [job EXCEPT ![p] = [at |-> "stopping", done |-> TRUE]]
    /\ UNCHANGED <<storeVars, work, cleanup, crashes>>

Works(p, k, from, to) == /\ work[p][k] = from
                         /\ work' = [work EXCEPT ![p][k] = to]

\* outboundClient.do answers: the entry is there, or is stored without pins.
Fetched(p, k) == /\ job[p].at = "running" /\ ~job[p].done
                 /\ Works(p, k, "todo", "stored")
                 /\ present' = present \union {k}
                 /\ UNCHANGED <<pins, copied, lapse, file, pack, job, cleanup, boundVars>>

\* It failed, or there was nothing to pin, or the pin could not be written:
\* counted unless the job was stopped.
Unfetched(p, k) ==
    /\ \/ /\ work[p][k] = "todo"
          /\ job[p].at = "running" /\ ~job[p].done
       \/ work[p][k] = "stored"
    /\ \/ /\ p \notin Listed \/ job[p].done
          /\ work' = [work EXCEPT ![p][k] = "stopped"]
          /\ UNCHANGED <<file, pack, job, errors>>
       \/ /\ p \in Listed
          /\ Updated(p, pack[p])
          /\ work' = [work EXCEPT ![p][k] = "failed"]
          /\ UNCHANGED job
       \/ /\ p \in Listed
          /\ StorageError(p, pack[p])
          /\ work' = [work EXCEPT ![p][k] = "stopped"]
          /\ CancelWork(p)
    /\ UNCHANGED <<storeVars, cleanup, crashes>>

Pin(p, k) == /\ Works(p, k, "stored", "pinned")
             /\ k \in present
             /\ pins' = [pins EXCEPT ![k] = @ \union {p}]
             /\ lapse' = [lapse EXCEPT ![p][k] = "none"]
             /\ UNCHANGED <<present, copied, file, pack, job, cleanup, boundVars>>

WithKey(p, k) == [pack[p] EXCEPT !.keys = @ \union {k}]

AddKey(p, k) == /\ p \in Listed
                /\ Works(p, k, "pinned", "done")
                /\ Updated(p, WithKey(p, k))
                /\ UNCHANGED <<storeVars, job, cleanup, crashes>>

AddKeyFails(p, k) == /\ p \in Listed
                     /\ Works(p, k, "pinned", "rejected")
                     /\ StorageError(p, WithKey(p, k))
                     /\ CancelWork(p)
                     /\ UNCHANGED <<storeVars, cleanup, crashes>>

\* The pack was removed while its object was fetched.
KeyRejected(p, k) == /\ p \notin Listed
                     /\ Works(p, k, "pinned", "rejected")
                     /\ UNCHANGED <<storeVars, file, pack, job, cleanup, boundVars>>

\* A pin that goes matters while its pack is listed.
Taken(p) == IF p \in Listed THEN "taken" ELSE "none"

\* pin(key, packID, false); a pin that stays since its removal could not be
\* written stays for good: nobody tries again.
Unpinned(p, k) == /\ pins' = [pins EXCEPT ![k] = @ \ {p}]
                  /\ lapse' = [lapse EXCEPT ![p][k] = Taken(p)]
                  /\ UNCHANGED errors

UnpinFails(p, k) == /\ p \in pins[k]
                    /\ WriteFails
                    /\ lapse' = [lapse EXCEPT ![p][k] = "left"]
                    /\ UNCHANGED pins

\* Mutant: nobody releases what a removed pack has pinned.
ReleaseNothing(p, k) == /\ Works(p, k, "rejected", "stopped")
                        /\ UNCHANGED <<storeVars, file, pack, job, cleanup, boundVars>>

\* When the manifest could not be written the pack still lists the key: its
\* pin, which an earlier attempt may have held, is taken all the same.
ReleaseRejectedPin(p, k) ==
    /\ Works(p, k, "rejected", "stopped")
    /\ Unpinned(p, k) \/ UnpinFails(p, k)
    /\ UNCHANGED <<present, copied, file, pack, job, cleanup, crashes>>

Worker(p, k) == \/ Fetched(p, k) \/ Unfetched(p, k) \/ Pin(p, k) \/ AddKey(p, k)
                \/ AddKeyFails(p, k) \/ KeyRejected(p, k) \/ ReleaseRejectedPin(p, k)

Outcome(p) == IF ~job[p].done /\ \A k \in Keys : work[p][k] = "done"
              THEN "complete" ELSE "incomplete"

\* Every worker has returned, and none is left to begin unless the job is over.
Joined(p) == \A k \in Keys : work[p][k] \in {"done", "failed", "stopped"}
                                \union (IF job[p].done THEN {"todo"} ELSE {})

RunEnd(p) ==
    /\ job[p].at = "running" /\ Joined(p)
    /\ LET m == [pack[p] EXCEPT !.state = Outcome(p)] IN
       \/ /\ p \notin Listed
          /\ UNCHANGED <<file, pack, errors>>
       \/ /\ p \in Listed
          /\ Updated(p, m) \/ StorageError(p, m)
    /\ job' = [job EXCEPT ![p].at = "stopping"]
    /\ UNCHANGED <<storeVars, work, cleanup, crashes>>

RunExit(p) == /\ job[p].at = "stopping"
              /\ job' = [job EXCEPT ![p].at = "none"]
              /\ UNCHANGED <<storeVars, file, pack, work, cleanup, boundVars>>

-----------------------------------------------------------------------------
(* cancel, delete and cleanupPack *)

\* The user stops the job, its deadline passes, or it meets a limit.
Stopped(p) == /\ job[p].at \in {"launched", "running"} /\ ~job[p].done
              /\ CancelWork(p)
              /\ UNCHANGED <<storeVars, file, pack, work, cleanup, boundVars>>

\* Unlisted under the lock; the cleanup follows without it.
Delete(p) == /\ p \in Listed
             /\ Memory(p, [pack[p] EXCEPT !.place = "deleted"])
             /\ CancelWork(p)
             /\ cleanup' = [cleanup EXCEPT ![p] = pack[p].keys]
             /\ UNCHANGED <<storeVars, file, work, boundVars>>

\* The errors of the unpins are collected, and the cleanup goes on.
CleanupKey(p, k) == /\ k \in cleanup[p]
                    /\ Unpinned(p, k) \/ UnpinFails(p, k)
                    /\ cleanup' = [cleanup EXCEPT ![p] = @ \ {k}]
                    /\ UNCHANGED <<present, copied, file, pack, job, work, crashes>>

\* A file that cannot be removed stays until a restart lists the pack again.
CleanupFile(p) == /\ pack[p].place = "deleted" /\ cleanup[p] = {}
                  /\ file' = [file EXCEPT ![p] = NoFile]
                  /\ Memory(p, [pack[p] EXCEPT !.place = "gone"])
                  /\ UNCHANGED <<storeVars, job, work, cleanup, boundVars>>

-----------------------------------------------------------------------------
(* The store, and a restart *)

\* removeLocked
Removed(k) == /\ present' = present \ {k}
              /\ pins' = [pins EXCEPT ![k] = {}]

\* Mutant: pins do not count.
EvictableAny(k) == k \in present

Evictable(k) == k \in present /\ pins[k] = {}

Evict(k) == /\ Evictable(k)
            /\ Removed(k)
            /\ UNCHANGED <<copied, lapse, file, pack, job, work, cleanup, boundVars>>

\* The entry goes although packs have pinned it: its source forbids to keep it
\* (304 or 200), its body is corrupt, or the date it must be deleted by is past.
Lost(k) == /\ k \in present /\ pins[k] # {}
           /\ Removed(k)
           /\ lapse' = [p \in Packs |-> [lapse[p] EXCEPT ![k] =
                           IF p \in pins[k] THEN Taken(p) ELSE @]]
           /\ UNCHANGED <<copied, file, pack, job, work, cleanup, boundVars>>

\* get hands a copy of the metadata to a revalidation; flushAccesses takes one too.
Copy(k) == /\ k \in present /\ Cardinality(copied[k]) < MaxCopies
           /\ copied' = [copied EXCEPT ![k] = @ \union {pins[k]}]
           /\ UNCHANGED <<present, pins, lapse, file, pack, job, work, cleanup, boundVars>>

\* updateMetadata: the pins of the copy replace those the entry has by now.
WriteBack(k, S) ==
    /\ S \in copied[k]
    /\ copied' = [copied EXCEPT ![k] = @ \ {S}]
    /\ IF k \in present
       THEN /\ pins' = [pins EXCEPT ![k] = S]
            /\ lapse' = [p \in Packs |-> [lapse[p] EXCEPT ![k] =
                            IF p \in pins[k] \ S THEN Taken(p)
                            ELSE IF p \in S \ pins[k] THEN "left" ELSE @]]
       ELSE UNCHANGED <<pins, lapse>>
    /\ UNCHANGED <<present, file, pack, job, work, cleanup, boundVars>>

\* The request failed, or was answered with a new object, which takes the pins
\* of the entry it replaces.
Drop(k, S) == /\ S \in copied[k]
              /\ copied' = [copied EXCEPT ![k] = @ \ {S}]
              /\ UNCHANGED <<present, pins, lapse, file, pack, job, work, cleanup, boundVars>>

OnDisk == {p \in Packs : file[p] # NoFile}

\* reconcilePins: the manifests are the authority on who pins what.
Reconciled(k, S) == IF k \in S THEN {p \in OnDisk : k \in file[p].keys} ELSE {}

\* Mutant: what is missing from the cache is not looked for.
RecoveredTrusting(p, S) == IF file[p].state = "unfinished" THEN "incomplete" ELSE file[p].state

\* loadOwnerPacks and persistRecoveredPacks.
Recovered(p, S) == IF file[p].state = "complete" /\ file[p].keys \subseteq S
                   THEN "complete" ELSE "incomplete"

\* A crash, and newPackManager before the server listens; S is what is left
\* of the cache and may still be served.
RestartWith(S) ==
    /\ crashes < MaxCrashes
    /\ crashes' = crashes + 1
    /\ present' = S
    /\ pins' = [k \in Keys |-> Reconciled(k, S)]
    /\ pack' = [p \in Packs |->
                   IF p \in OnDisk
                   THEN [place |-> "listed", state |-> Recovered(p, S), keys |-> file[p].keys]
                   ELSE IF pack[p].place = "new" THEN pack[p]
                        ELSE [pack[p] EXCEPT !.place = "gone"]]
    /\ file' = [p \in Packs |-> IF p \in OnDisk THEN [file[p] EXCEPT !.state = Recovered(p, S)]
                                ELSE NoFile]
    /\ job' = [p \in Packs |-> [at |-> "none", done |-> FALSE]]
    /\ work' = [p \in Packs |-> Idle]
    /\ cleanup' = [p \in Packs |-> {}]
    /\ copied' = [k \in Keys |-> {}]
    /\ lapse' = [p \in Packs |-> [k \in Keys |->
                    IF p \in OnDisk /\ k \in file[p].keys \ S THEN "wiped" ELSE "none"]]
    /\ UNCHANGED errors

\* The shared cache "can be wiped without losing what a user downloaded".
Restart == IF Wipes THEN \E S \in SUBSET present : RestartWith(S)
           ELSE RestartWith(present)

-----------------------------------------------------------------------------
Init == /\ present \in SUBSET Keys
        /\ pins = [k \in Keys |-> {}]
        /\ file = [p \in Packs |-> NoFile]
        /\ pack = [p \in Packs |-> [place |-> "new", state |-> "unfinished", keys |-> {}]]
        /\ job = [p \in Packs |-> [at |-> "none", done |-> FALSE]]
        /\ work = [p \in Packs |-> Idle]
        /\ cleanup = [p \in Packs |-> {}]
        /\ copied = [k \in Keys |-> {}]
        /\ lapse = [p \in Packs |-> [k \in Keys |-> "none"]]
        /\ crashes = 0
        /\ errors = 0

Run(p) == RunBegin(p) \/ RunEnd(p) \/ RunExit(p)

Cleanup(p) == CleanupFile(p) \/ \E k \in Keys : CleanupKey(p, k)

Store(k) == \/ Evict(k) \/ Lost(k) \/ Copy(k)
            \/ \E S \in copied[k] : WriteBack(k, S) \/ Drop(k, S)

Next == \/ \E p \in Packs : \/ Start(p) \/ Retry(p) \/ Run(p) \/ Stopped(p)
                            \/ Delete(p) \/ Cleanup(p)
                            \/ \E k \in Keys : Worker(p, k)
        \/ \E k \in Keys : Store(k)
        \/ Restart

Spec == Init /\ [][Next]_vars

-----------------------------------------------------------------------------
\* A worker holds its step only while its job runs, and a deletion in progress
\* is one of a pack that is out of the list.
TypeOK == /\ present \subseteq Keys
          /\ pins \in [Keys -> SUBSET Packs]
          /\ file \in [Packs -> Files]
          /\ pack \in [Packs -> Manifests]
          /\ job \in [Packs -> Jobs]
          /\ work \in [Packs -> [Keys -> WorkStates]]
          /\ cleanup \in [Packs -> SUBSET Keys]
          /\ copied \in [Keys -> SUBSET SUBSET Packs]
          /\ lapse \in [Packs -> [Keys -> Lapses]]
          /\ crashes \in 0 .. MaxCrashes
          /\ errors \in 0 .. MaxErrors
          /\ \A p \in Packs : cleanup[p] # {} => pack[p].place = "deleted"
          /\ \A p \in Listed : file[p] # NoFile

\* packs.go: "Keep the old ownership until every resource is rechecked. A retry
\* must never open a window in which its cached tiles can be evicted."  Every
\* object a listed pack counts as its own is in the store and pinned for it,
\* through evictions, other packs' deletions, retries, restarts and failed
\* writes.  There are four exceptions, each seen in lapse: its entry was removed
\* all the same (Lost), a revalidation wrote older pins back, the worker released
\* the pin of a key it could not record, or a restart found the entry missing.
PinsHeld == \A p \in Listed : \A k \in pack[p].keys :
               \/ k \in present /\ p \in pins[k]
               \/ lapse[p][k] \in {"taken", "wiped"}

\* Nothing stays pinned for nobody: a pin has a listed pack that knows of it, a
\* worker that will record or release it, or a deletion that will release it;
\* or its release failed, which nobody tries again before the next restart, or a
\* revalidation brought it back.
NoOrphanPins == \A k \in Keys : \A p \in pins[k] :
                   \/ p \in Listed /\ k \in pack[p].keys
                   \/ work[p][k] \in {"pinned", "rejected"}
                   \/ k \in cleanup[p]
                   \/ lapse[p][k] = "left"

\* A pack that is reported complete has every object it asked for in the cache,
\* and pinned, but for those taken since (Lost, or older pins written back).  A
\* restart that finds one missing, or a key that could not be recorded, makes the
\* pack incomplete, and a restart leaves no other exception behind.
CompleteIsWhole == \A p \in Listed : pack[p].state = "complete" =>
                      \A k \in Keys : \/ k \in present /\ p \in pins[k]
                                      \/ lapse[p][k] = "taken"

\* A pack whose deletion was answered has left nothing behind: no file that a
\* restart would bring back, and no pin once its last worker has returned, but
\* for one whose release failed or that a revalidation brought back.
RemovedForGood ==
    \A p \in Packs : pack[p].place = "gone" =>
        /\ file[p] = NoFile
        /\ \A k \in Keys : p \in pins[k] => \/ work[p][k] \in {"pinned", "rejected"}
                                            \/ lapse[p][k] = "left"
=============================================================================
