------------------------------ MODULE PackJobs ------------------------------
(***************************************************************************)
(* The download queue of internal/server/packs.go: packs are submitted,    *)
(* wait, run in one of the job slots, are cancelled, deleted, retried, and *)
(* come back from a restart.  Every action is one critical section of      *)
(* packManager.mu.  What a job downloads and pins is module PackPins.      *)
(*                                                                         *)
(* An element of Objects is one packManifest value: a retry puts a new     *)
(* value under the same ID, and a deleted one stays alive in the goroutine *)
(* that works on it and, until its file is removed, on disk.  A value      *)
(* nothing refers to any more is Free.                                     *)
(***************************************************************************)
EXTENDS Integers, FiniteSets, SequencesExt

CONSTANTS Owners, Inputs, Objects,
          Asks,        \* the downloads each owner may submit
          Area,        \* what of an input a retry compares: all but its labels
          Plain,       \* the same input, not marked automatic
          MaxActive,   \* maxActivePackJobs
          MaxQueued,   \* maxQueuedPackJobs
          OwnerLimit,  \* ownerPackJobLimit
          MaxStarts,   \* bound on the submissions of a run
          MaxCleanups  \* bound on the removed packs whose file is still there

ASSUME PackJobsAssumption == /\ IsFiniteSet(Objects)
                             /\ Asks \in [Owners -> SUBSET Inputs]
                             /\ Plain \in [Inputs -> Inputs]
                             /\ MaxActive \in Nat \ {0}
                             /\ MaxQueued \in Nat
                             /\ OwnerLimit \in Nat \ {0}
                             /\ MaxStarts \in Nat
                             /\ MaxCleanups \in Nat

VARIABLES pack,     \* per object: Free, or the manifest
          waiting,  \* queued objects without a slot, in queueSeq order
          fillers,  \* goroutines about to look at the queue
          starts    \* submissions so far

vars == <<pack, waiting, fillers, starts>>

States == {"queued", "running", "complete", "incomplete"}

\* "estimating": startQueued claimed the object and re-estimates it.
\* "launched":   run() was started.
\* "finishing":  run() has checked its context for the last time.
\* "stopping":   run() is returning.
Jobs == {"none", "estimating", "launched", "running", "finishing", "stopping"}

\* "listed":   in m.packs.
\* "replaced": displaced by a retry, which has its ID and its file.
\* "deleted":  removed from m.packs; its file is still there.
\* "gone":     its file is removed too.
Places == {"listed", "replaced", "deleted", "gone"}

Manifest == [place : Places,
             owner : Owners,
             input : Inputs,
             state : States,
             job : Jobs,
             cancellable : BOOLEAN,   \* manifest.cancel, not nil, may be called
             ctxDone : BOOLEAN,       \* the context of its job is done
             returned : BOOLEAN]      \* removed when complete, and found again

Free == [place |-> "free"]

-----------------------------------------------------------------------------
Used == {o \in Objects : pack[o] # Free}
Listed == {o \in Used : pack[o].place = "listed"}

\* manifest.working: set at the claim of a slot, cleared when run() returns.
Working(o) == pack[o].job # "none"

\* runningLocked and activeLocked range over m.packs.
Holding == {o \in Listed : Working(o) \/ pack[o].state = "running"}
Active == {o \in Listed : Working(o) \/ pack[o].state \in {"queued", "running"}}

OwnedBy(S, w) == {o \in S : pack[o].owner = w}

SlotFree == Cardinality(Holding) < MaxActive

\* The place in the queue, and the queue without it.
QueueSeq(o) == CHOOSE k \in DOMAIN waiting : waiting[k] = o
Unqueued(o) == IF o \in ToSet(waiting) THEN RemoveAt(waiting, QueueSeq(o)) ELSE waiting

\* m.packs[id] = p, or what is left of p when nothing works on it any more.
Put(o, p) == [pack EXCEPT ![o] =
                 IF p.place \in {"replaced", "gone"} /\ p.job = "none" THEN Free ELSE p]

-----------------------------------------------------------------------------
(* start *)

Live == {"queued", "running", "complete"}

\* matchingPackLocked: the same input, labels included, under way or done; an
\* automatic request is content with a pack that is not automatic.
Matching(w, i) == {o \in OwnedBy(Listed, w) : pack[o].input \in {i, Plain[i]}
                                              /\ pack[o].state \in Live}

\* retryPackLocked: one that did not complete, whatever it was called.
Retried(w, i) == {o \in OwnedBy(Listed, w) : Area[pack[o].input] = Area[i]
                                             /\ pack[o].state = "incomplete"}

\* The newest of them gives its ID to the new attempt.  UpdatedAt is left out:
\* any of them may be the newest.
Displaces(w, i) == IF Retried(w, i) = {} THEN {{}} ELSE {{o} : o \in Retried(w, i)}

Room(w) == /\ Cardinality(Active) < MaxActive + MaxQueued
           /\ Cardinality(OwnedBy(Active, w)) < OwnerLimit

\* Mutant: an attempt that is still stopping is not waited for.
RetryAnyTime(D) == TRUE

\* "previous download attempt is still stopping; try again shortly"
RetryReady(D) == \A o \in D : ~Working(o)

NewManifest(w, i, launch) ==
    [place |-> "listed", owner |-> w, input |-> i, state |-> "queued",
     job |-> IF launch THEN "launched" ELSE "none",
     cancellable |-> launch, ctxDone |-> FALSE, returned |-> FALSE]

\* A manifest that a retry displaces from m.packs.
Displaced(p) == IF p.job = "none" THEN Free ELSE [p EXCEPT !.place = "replaced"]

\* The value that a submission allocates: any that is free.
NewObject == CHOOSE o \in Objects : pack[o] = Free

\* The checks and the estimate made before the lock is taken for good refuse
\* early or return an existing pack; all of them are made again here.
Start(o, w, i) ==
    /\ pack[o] = Free /\ o = NewObject
    /\ starts < MaxStarts
    /\ Matching(w, i) = {}
    /\ Room(w)
    /\ \E D \in Displaces(w, i) :
          /\ RetryReady(D)
          /\ pack' = [p \in Objects |-> IF p = o THEN NewManifest(w, i, SlotFree)
                                        ELSE IF p \in D THEN Displaced(pack[p])
                                        ELSE pack[p]]
    /\ waiting' = IF SlotFree THEN waiting ELSE Append(waiting, o)
    /\ starts' = starts + 1
    /\ UNCHANGED fillers

-----------------------------------------------------------------------------
(* startQueued *)

\* Packs an owner has in the slots.
Held(w) == Cardinality(OwnedBy(Holding, w))

\* nextQueuedLocked: the oldest of the owners with the fewest packs running.
NextQueued == {o \in ToSet(waiting) : \A p \in ToSet(waiting) :
                  \/ Held(pack[o].owner) < Held(pack[p].owner)
                  \/ /\ Held(pack[o].owner) = Held(pack[p].owner)
                     /\ QueueSeq(o) <= QueueSeq(p)}

FillIdle == /\ fillers > 0
            /\ ~SlotFree \/ waiting = <<>>
            /\ fillers' = fillers - 1
            /\ UNCHANGED <<pack, waiting, starts>>

FillClaim(o) == /\ fillers > 0
                /\ SlotFree
                /\ o \in NextQueued
                /\ pack' = [pack EXCEPT ![o].job = "estimating"]
                /\ waiting' = Unqueued(o)
                /\ fillers' = fillers - 1
                /\ UNCHANGED starts

\* Neither cancelled nor removed while it was estimated.
Wanted(o) == pack[o].place = "listed" /\ pack[o].state = "queued"

\* The goroutine drops its claim and looks at the queue again.
FillDrop(o) == /\ pack[o].job = "estimating"
               /\ ~Wanted(o)
               /\ pack' = Put(o, [pack[o] EXCEPT !.job = "none"])
               /\ fillers' = fillers + 1
               /\ UNCHANGED <<waiting, starts>>

FillRefuse(o) == /\ pack[o].job = "estimating"
                 /\ Wanted(o)
                 /\ pack' = Put(o, [pack[o] EXCEPT !.job = "none", !.state = "incomplete"])
                 /\ fillers' = fillers + 1
                 /\ UNCHANGED <<waiting, starts>>

FillLaunch(o) == /\ pack[o].job = "estimating"
                 /\ Wanted(o)
                 /\ pack' = [pack EXCEPT ![o].job = "launched", ![o].cancellable = TRUE]
                 /\ fillers' = fillers + 1
                 /\ UNCHANGED <<waiting, starts>>

-----------------------------------------------------------------------------
(* run *)

\* A step of the goroutine that works on o: only pack[o] changes.
Becomes(o, p) == pack' = Put(o, p) /\ UNCHANGED <<waiting, fillers, starts>>

Deleted(o) == pack[o].place \in {"deleted", "gone"}

\* update(): a removed pack takes no change.
Updated(o, s) == IF Deleted(o) THEN pack[o].state ELSE s

RunBegin(o) ==
    /\ pack[o].job = "launched"
    /\ Becomes(o, [pack[o] EXCEPT !.state = Updated(o, "running"),
                                  !.job = IF Deleted(o) THEN "stopping" ELSE "running"])

\* The manifest could not be written: the job is cancelled from inside.
StorageError(o) ==
    /\ pack[o].job \in {"launched", "running", "finishing"}
    /\ ~Deleted(o)
    /\ Becomes(o, [pack[o] EXCEPT !.state = "incomplete",
                                  !.job = IF @ = "running" THEN @ ELSE "stopping",
                                  !.ctxDone = @ \/ pack[o].cancellable,
                                  !.cancellable = FALSE])

\* Cancelled, out of time, over a limit, or told by update() that it is over.
RunGiveUp(o) ==
    /\ pack[o].job = "running"
    /\ Becomes(o, [pack[o] EXCEPT !.state = Updated(o, "incomplete"),
                                  !.job = "stopping", !.cancellable = FALSE])

RunLastCheck(o) ==
    /\ pack[o].job = "running"
    /\ ~pack[o].ctxDone
    /\ Becomes(o, [pack[o] EXCEPT !.job = "finishing"])

RunFinish(o) ==
    /\ pack[o].job = "finishing"
    /\ \E s \in {"complete", "incomplete"} :
          Becomes(o, [pack[o] EXCEPT !.state = Updated(o, s),
                                     !.job = "stopping", !.cancellable = FALSE])

\* Mutant: a job that was deleted returns without looking at the queue.
RunExitUnlessDeleted(o) ==
    /\ pack[o].job = "stopping"
    /\ pack' = Put(o, [pack[o] EXCEPT !.job = "none"])
    /\ fillers' = IF Deleted(o) THEN fillers ELSE fillers + 1
    /\ UNCHANGED <<waiting, starts>>

\* The deferred functions: the slot is given up with the job's context, then
\* startQueued is called.
RunExit(o) == /\ pack[o].job = "stopping"
              /\ pack' = Put(o, [pack[o] EXCEPT !.job = "none", !.ctxDone = FALSE])
              /\ fillers' = fillers + 1
              /\ UNCHANGED <<waiting, starts>>

\* The job's own deadline, or the shutdown of the server.
ContextDone(o) == /\ pack[o].job \in {"launched", "running", "finishing"}
                  /\ ~pack[o].ctxDone
                  /\ Becomes(o, [pack[o] EXCEPT !.ctxDone = TRUE])

-----------------------------------------------------------------------------
(* cancel, delete, restart *)

CancelJob(o) == /\ o \in Listed
                /\ pack[o].cancellable
                /\ Becomes(o, [pack[o] EXCEPT !.ctxDone = TRUE])

CancelQueued(o) == /\ o \in Listed
                   /\ ~pack[o].cancellable
                   /\ pack[o].state = "queued"
                   /\ pack' = [pack EXCEPT ![o].state = "incomplete"]
                   /\ waiting' = Unqueued(o)
                   /\ UNCHANGED <<fillers, starts>>

Delete(o) == /\ o \in Listed
             /\ Cardinality({p \in Used : pack[p].place = "deleted"}) < MaxCleanups
             /\ pack' = Put(o, [pack[o] EXCEPT !.place = "deleted",
                                               !.ctxDone = @ \/ pack[o].cancellable,
                                               !.cancellable = FALSE])
             /\ waiting' = Unqueued(o)
             /\ UNCHANGED <<fillers, starts>>

\* The end of cleanupPack: its errors are reported and not tried again, so that
\* the file may also stay.
Cleaned(o) == /\ pack[o].place = "deleted"
              /\ Becomes(o, [pack[o] EXCEPT !.place = "gone"])

\* Mutant: only running packs are reported as interrupted.
InterruptedRunning(s) == IF s = "running" THEN "incomplete" ELSE s

\* loadOwnerPacks: what was queued or running is reported as interrupted.
Interrupted(s) == IF s \in {"queued", "running"} THEN "incomplete" ELSE s

\* The packs whose file is found: a removal that was not finished is undone.
OnDisk == {o \in Used : pack[o].place \in {"listed", "deleted"}}

Returns(o) == Deleted(o) /\ pack[o].state = "complete"

Reloaded(o) == [pack[o] EXCEPT !.place = "listed", !.state = Interrupted(@), !.job = "none",
                               !.cancellable = FALSE, !.ctxDone = FALSE,
                               !.returned = @ \/ Returns(o)]

Restart == /\ pack' = [o \in Objects |-> IF o \in OnDisk THEN Reloaded(o) ELSE Free]
           /\ waiting' = <<>>
           /\ fillers' = 0
           /\ UNCHANGED starts

-----------------------------------------------------------------------------
Init == /\ pack = [o \in Objects |-> Free]
        /\ waiting = <<>>
        /\ fillers = 0
        /\ starts = 0

Run(o) == /\ o \in Used
          /\ \/ RunBegin(o) \/ StorageError(o) \/ RunGiveUp(o) \/ RunLastCheck(o)
             \/ RunFinish(o) \/ RunExit(o)

\* The end of a re-estimate.
FillEnd(o) == o \in Used /\ (FillDrop(o) \/ FillRefuse(o) \/ FillLaunch(o))

Fill == FillIdle \/ \E o \in Objects : FillClaim(o)

User(o) == CancelJob(o) \/ CancelQueued(o) \/ Delete(o) \/ Cleaned(o)

Next == \/ \E o \in Objects, w \in Owners : \E i \in Asks[w] : Start(o, w, i)
        \/ \E o \in Used : Run(o) \/ FillEnd(o) \/ ContextDone(o) \/ User(o)
        \/ Fill
        \/ Restart

Spec == Init /\ [][Next]_vars

\* Goroutines that hold the mutex or work on a download run on, and every job
\* has a deadline.  No fairness among them is needed.
Goroutines == Fill \/ \E o \in Objects : Run(o) \/ FillEnd(o)

Fairness == WF_vars(Goroutines)

FairSpec == Spec /\ Fairness

-----------------------------------------------------------------------------
\* The values of the variables, and what ties them: waiting lists the packs
\* that nextQueuedLocked would consider, and a manifest that is out of m.packs
\* lives as long as the goroutine that works on it, or its file.
TypeOK == /\ pack \in [Objects -> Manifest \union {Free}]
          /\ waiting \in Seq(Objects)
          /\ IsInjective(waiting)
          /\ ToSet(waiting) = {o \in Listed : pack[o].state = "queued" /\ ~Working(o)}
          /\ \A o \in Used \ Listed : Working(o) \/ pack[o].place = "deleted"
          /\ fillers \in Nat
          /\ starts \in 0 .. MaxStarts

\* Jobs of packs that still exist never exceed the slots, whatever was
\* cancelled, retried or re-estimated meanwhile.
SlotsBounded == Cardinality(Holding) <= MaxActive

\* The queue and each owner's share of it are bounded (maxQueuedPackJobs,
\* ownerPackJobLimit).
QueueBounded == /\ Cardinality(Active) <= MaxActive + MaxQueued
                /\ \A w \in Owners : Cardinality(OwnedBy(Active, w)) <= OwnerLimit

\* One download is one attempt: an owner never has two packs for the very same
\* input that wait, run or are complete, however many other attempts at that
\* area (under other labels too) have failed; a pack that was removed and came
\* back with a restart does not count.  And no goroutine still works on an
\* attempt whose ID a retry has taken over: two would write one file.
OneAttempt ==
    /\ \A o, p \in Listed :
          /\ o # p /\ ~pack[o].returned /\ ~pack[p].returned
          /\ pack[o].state \in Live /\ pack[p].state \in Live
          => <<pack[o].owner, pack[o].input>> # <<pack[p].owner, pack[p].input>>
    /\ \A o \in Used : pack[o].place # "replaced"

\* A pack that is cancelled, removed or displaced while it waits for its
\* estimate is not launched.
OnlyWantedLaunch ==
    [][\A o \in Used \cap Used' : pack[o].job = "estimating" /\ pack'[o].job = "launched"
                                 => pack'[o].place = "listed" /\ pack'[o].state = "queued"]_vars

\* A pack reported as running or queued has somebody who will finish or start
\* it: a goroutine of its own, or a place in the queue that a goroutine will
\* look at.
NobodyAbandoned ==
    \A o \in Listed : /\ pack[o].state = "running" => Working(o)
                      /\ pack[o].state = "queued" /\ ~Working(o) =>
                            fillers > 0 \/ \E p \in Used : Working(p)

\* When no more packs are submitted, the queue empties: nobody waits for ever.
QueueDrains == []<>(waiting = <<>>)
=============================================================================
