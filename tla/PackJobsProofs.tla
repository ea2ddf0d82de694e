--------------------------- MODULE PackJobsProofs ---------------------------
(***************************************************************************)
(* For any owners, coverages, limits and number of submissions: one        *)
(* download is one attempt, and whoever waits will be looked at.           *)
(***************************************************************************)
EXTENDS PackJobs, FiniteSetTheorems, TLAPS

-----------------------------------------------------------------------------
(* The strengthening *)

Typed == /\ pack \in [Objects -> Manifest \union {Free}]
         /\ waiting \in Seq(Objects)
         /\ fillers \in Nat

\* A retry displaces nothing that still works: displaced attempts are gone.
NoneDisplaced == \A o \in Used : pack[o].place # "replaced"

\* The attempts that count are of different downloads.
OneLive == \A o, p \in Listed :
              /\ o # p /\ ~pack[o].returned /\ ~pack[p].returned
              /\ pack[o].state \in Live /\ pack[p].state \in Live
              => <<pack[o].owner, pack[o].input>> # <<pack[p].owner, pack[p].input>>

\* Only a job on its way to a launch has a queued pack, only one that runs a
\* running one; and none goes on to the end of a pack that was given up, so that
\* an attempt that failed never lives again.
StateOfJob ==
    \A o \in Listed :
        /\ pack[o].state = "queued" => pack[o].job \in {"none", "estimating", "launched"}
        /\ pack[o].state = "running" => pack[o].job \in {"running", "finishing"}
        /\ pack[o].job = "launched" => pack[o].state = "queued" /\ pack[o].cancellable
        /\ pack[o].job = "running" => /\ pack[o].state = "running" \/ pack[o].ctxDone
                                      /\ pack[o].cancellable \/ pack[o].ctxDone
        /\ pack[o].job = "finishing" => pack[o].state = "running"

\* Whoever waits for a slot is in the queue, once, and nobody else is.
Waits(o) == o \in Listed /\ pack[o].state = "queued" /\ pack[o].job = "none"

InQueue == /\ \A o \in Objects : o \in ToSet(waiting) <=> Waits(o)
           /\ IsInjective(waiting)

\* Someone will look at the queue.
LookedAt == (\E o \in Objects : Waits(o))
            => fillers > 0 \/ \E p \in Used : pack[p].job # "none"

IInv == Typed /\ NoneDisplaced /\ OneLive /\ StateOfJob /\ InQueue /\ LookedAt

-----------------------------------------------------------------------------
(* The queue *)

LEMMA QueueWithout ==
    ASSUME NEW s \in Seq(Objects), IsInjective(s), NEW i \in DOMAIN s
    PROVE  /\ RemoveAt(s, i) \in Seq(Objects) /\ IsInjective(RemoveAt(s, i))
           /\ ToSet(RemoveAt(s, i)) = ToSet(s) \ {s[i]}
<1> DEFINE a == SubSeq(s, 1, i - 1)
           b == SubSeq(s, i + 1, Len(s))
<1>1. i \in 1 .. Len(s) /\ Len(s) \in Nat
  OBVIOUS
<1>2. a \in Seq(Objects) /\ Len(a) = i - 1 /\ \A k \in 1 .. i - 1 : a[k] = s[k]
  BY <1>1
<1>3. b \in Seq(Objects) /\ Len(b) = Len(s) - i /\ \A k \in 1 .. Len(s) - i : b[k] = s[i + k]
  BY <1>1
<1>4. RemoveAt(s, i) = a \o b
  BY DEF RemoveAt
<1> HIDE DEF a, b
<1>5. a \o b \in Seq(Objects) /\ Len(a \o b) = Len(s) - 1
  BY <1>1, <1>2, <1>3
<1> DEFINE old(k) == IF k < i THEN k ELSE k + 1
<1>6. ASSUME NEW k \in 1 .. Len(s) - 1
      PROVE  (a \o b)[k] = s[old(k)] /\ old(k) \in 1 .. Len(s) /\ old(k) # i
  <2>1. CASE k < i
    BY <1>1, <1>2, <1>3, <2>1
  <2>2. CASE ~(k < i)
    <3>1. PICK j \in 1 .. Len(b) : k = Len(a) + j
      <4>1. k + 1 - i \in 1 .. Len(s) - i /\ k = i - 1 + (k + 1 - i)
        BY <1>1, <2>2
      <4> QED
        BY <1>2, <1>3, <4>1
    <3>2. (a \o b)[Len(a) + j] = b[j]
      BY <1>2, <1>3
    <3>3. b[j] = s[i + j] /\ i + j = k + 1
      BY <1>1, <1>2, <1>3, <3>1
    <3> QED
      BY <1>1, <2>2, <3>1, <3>2, <3>3
  <2> QED
    BY <2>1, <2>2
<1>7. \A k, l \in 1 .. Len(s) : s[k] = s[l] => k = l
  BY DEF IsInjective
<1>8. ASSUME NEW m \in 1 .. Len(s), m # i
      PROVE  \E k \in 1 .. Len(s) - 1 : (a \o b)[k] = s[m]
  <2>1. CASE m < i
    <3>1. m \in 1 .. Len(s) - 1 /\ old(m) = m
      BY <1>1, <2>1
    <3> QED
      BY <1>6, <3>1
  <2>2. CASE m > i
    <3>1. m - 1 \in 1 .. Len(s) - 1 /\ ~(m - 1 < i) /\ m - 1 + 1 = m
      BY <1>1, <2>2
    <3>2. (a \o b)[m - 1] = s[m]
      BY <1>6, <3>1
    <3> QED
      BY <3>1, <3>2
  <2>3. m < i \/ m > i
    BY <1>1, <1>8
  <2> QED
    BY <2>1, <2>2, <2>3
<1>9. DOMAIN (a \o b) = 1 .. Len(s) - 1 /\ DOMAIN s = 1 .. Len(s)
  BY <1>1, <1>5
<1>10. ToSet(a \o b) = ToSet(s) \ {s[i]}
  <2>1. ASSUME NEW k \in 1 .. Len(s) - 1 PROVE (a \o b)[k] \in ToSet(s) \ {s[i]}
    <3>1. s[old(k)] # s[i]
      BY <1>1, <1>6, <1>7
    <3> QED
      BY <1>6, <1>9, <3>1 DEF ToSet
  <2>2. ToSet(a \o b) \subseteq ToSet(s) \ {s[i]}
    BY <1>9, <2>1 DEF ToSet
  <2>3. ToSet(s) \ {s[i]} \subseteq ToSet(a \o b)
    BY <1>8, <1>9 DEF ToSet
  <2> QED
    BY <2>2, <2>3
<1>11. IsInjective(a \o b)
  <2>1. ASSUME NEW k \in 1 .. Len(s) - 1, NEW l \in 1 .. Len(s) - 1, (a \o b)[k] = (a \o b)[l]
        PROVE  k = l
    <3>1. old(k) = old(l)
      BY <1>6, <1>7, <2>1
    <3> QED
      BY <1>1, <3>1
  <2> QED
    BY <1>9, <2>1 DEF IsInjective
<1> QED
  BY <1>4, <1>5, <1>10, <1>11

\* Leaving the queue takes nobody else out of it.
LEMMA UnqueuedLeaves ==
    ASSUME Typed, IsInjective(waiting), NEW o
    PROVE  /\ Unqueued(o) \in Seq(Objects) /\ IsInjective(Unqueued(o))
           /\ ToSet(Unqueued(o)) = ToSet(waiting) \ {o}
<1>1. CASE o \in ToSet(waiting)
  <2>1. QueueSeq(o) \in DOMAIN waiting /\ waiting[QueueSeq(o)] = o
    BY <1>1 DEF ToSet, QueueSeq
  <2> QED
    BY <1>1, <2>1, QueueWithout DEF Unqueued, Typed
<1>2. CASE o \notin ToSet(waiting)
  BY <1>2 DEF Unqueued, Typed
<1> QED
  BY <1>1, <1>2

LEMMA QueueGrows ==
    ASSUME Typed, IsInjective(waiting), NEW o \in Objects \ ToSet(waiting)
    PROVE  /\ Append(waiting, o) \in Seq(Objects) /\ IsInjective(Append(waiting, o))
           /\ ToSet(Append(waiting, o)) = ToSet(waiting) \union {o}
<1>1. waiting \in Seq(Objects) /\ Len(waiting) \in Nat /\ DOMAIN waiting = 1 .. Len(waiting)
  BY DEF Typed
<1>2. /\ Append(waiting, o) \in Seq(Objects) /\ DOMAIN Append(waiting, o) = 1 .. Len(waiting) + 1
      /\ Append(waiting, o)[Len(waiting) + 1] = o
      /\ \A i \in 1 .. Len(waiting) : Append(waiting, o)[i] = waiting[i]
  BY <1>1
<1>3. \A i \in 1 .. Len(waiting) : waiting[i] # o
  BY <1>1 DEF ToSet
<1>4. ToSet(Append(waiting, o)) = ToSet(waiting) \union {o}
  BY <1>1, <1>2 DEF ToSet
<1>5. IsInjective(Append(waiting, o))
  BY <1>1, <1>2, <1>3 DEF IsInjective
<1> QED
  BY <1>2, <1>4, <1>5

-----------------------------------------------------------------------------
(* One manifest changes *)

LEMMA UsedIsManifest == ASSUME Typed PROVE \A o \in Used : o \in Objects /\ pack[o] \in Manifest
BY DEF Typed, Used

LEMMA ManifestIsUsed == \A m \in Manifest : m # Free
BY DEF Manifest, Free

LEMMA UsedByPlace == ASSUME Typed, NEW o \in Objects, pack[o].place # "free" PROVE o \in Used
BY DEF Used, Free

\* The state and the job of a manifest go together.
JobFits(p) == /\ p.state = "queued" => p.job \in {"none", "estimating", "launched"}
              /\ p.state = "running" => p.job \in {"running", "finishing"}
              /\ p.job = "launched" => p.state = "queued" /\ p.cancellable
              /\ p.job = "running" => /\ p.state = "running" \/ p.ctxDone
                                      /\ p.cancellable \/ p.ctxDone
              /\ p.job = "finishing" => p.state = "running"

LEMMA JobsFit == StateOfJob <=> \A o \in Listed : JobFits(pack[o])
BY DEF StateOfJob, JobFits

\* p may take the place of pack[o]: it is the same download, nothing of it is
\* lost from the queue, and somebody goes on.
Follows(o, p, q, f) ==
    /\ p.owner = pack[o].owner /\ p.input = pack[o].input
    /\ p.returned = pack[o].returned
    /\ p.place \in {pack[o].place, "deleted", "gone"}
    /\ p.place = "listed" =>
          /\ p.state \in Live => pack[o].state \in Live
          /\ JobFits(p)
          /\ p.state = "queued" /\ p.job = "none" => Waits(o)
    /\ q \in Seq(Objects) /\ IsInjective(q) /\ ToSet(waiting) \ {o} = ToSet(q) \ {o}
    /\ o \in ToSet(q) <=> p.place = "listed" /\ p.state = "queued" /\ p.job = "none"
    /\ f \in Nat
    /\ f > 0 \/ p.job # "none" \/ (pack[o].job = "none" /\ f = fillers)

\* The manifest is replaced, or freed with the job that worked on it.
LEMMA OneChanges ==
    ASSUME IInv, NEW o \in Used, NEW p \in Manifest,
           Follows(o, p, waiting', fillers'),
           \/ pack' = [pack EXCEPT ![o] = p]
           \/ p.job = "none" /\ p.place # "listed" /\ pack' = [pack EXCEPT ![o] = Free]
    PROVE  IInv'
<1> USE UsedIsManifest, ManifestIsUsed DEF IInv
<1>1. Typed /\ o \in Objects /\ pack[o] \in Manifest
  OBVIOUS
<1>2. \A x \in Objects \ {o} : pack'[x] = pack[x]
  BY <1>1 DEF Typed
<1>3. pack'[o] = p \/ (pack'[o] = Free /\ p.job = "none" /\ p.place # "listed")
  BY <1>1 DEF Typed
<1>4. pack' \in [Objects -> Manifest \union {Free}]
  BY <1>1 DEF Typed
<1>5. Typed'
  BY <1>4 DEF Typed, Follows
<1>6. Used' \subseteq Used /\ Used \ {o} \subseteq Used'
  BY <1>1, <1>2, <1>4 DEF Used
<1>7. \A x \in Listed' : x \in Used' /\ x \in Used /\ (x # o => x \in Listed)
  BY <1>2, <1>6 DEF Listed, Used
<1>8. o \in Used' => pack'[o] = p
  BY <1>3 DEF Used
<1>9. NoneDisplaced'
  BY <1>2, <1>6, <1>8 DEF NoneDisplaced, Follows, Used
<1>10. OneLive'
  <2>1. \A x \in Listed' : /\ pack'[x].owner = pack[x].owner /\ pack'[x].input = pack[x].input
                           /\ pack'[x].returned = pack[x].returned
                           /\ pack'[x].state \in Live => pack[x].state \in Live
                           /\ x \in Listed
    <3> SUFFICES ASSUME NEW x \in Listed'
                 PROVE  /\ pack'[x].owner = pack[x].owner /\ pack'[x].input = pack[x].input
                        /\ pack'[x].returned = pack[x].returned
                        /\ pack'[x].state \in Live => pack[x].state \in Live
                        /\ x \in Listed
      OBVIOUS
    <3>1. CASE x = o
      BY <1>7, <1>8, <3>1 DEF Follows, Listed
    <3>2. CASE x # o
      BY <1>2, <1>7, <3>2 DEF Used
    <3> QED
      BY <3>1, <3>2
  <2> SUFFICES ASSUME NEW x \in Listed', NEW y \in Listed', x # y,
                      ~pack'[x].returned, ~pack'[y].returned,
                      pack'[x].state \in Live, pack'[y].state \in Live
               PROVE  <<pack'[x].owner, pack'[x].input>> # <<pack'[y].owner, pack'[y].input>>
    BY DEF OneLive
  <2>2. x \in Listed /\ pack[x].state \in Live /\ ~pack[x].returned
    BY <2>1
  <2>3. y \in Listed /\ pack[y].state \in Live /\ ~pack[y].returned
    BY <2>1
  <2>4. <<pack[x].owner, pack[x].input>> # <<pack[y].owner, pack[y].input>>
    BY <2>2, <2>3 DEF OneLive
  <2> QED
    BY <2>1, <2>4
<1>11. StateOfJob'
  <2> SUFFICES ASSUME NEW x \in Listed' PROVE JobFits(pack'[x])
    BY DEF StateOfJob, JobFits
  <2>1. CASE x = o
    BY <1>7, <1>8, <2>1 DEF Follows, Listed
  <2>2. CASE x # o
    BY <1>2, <1>7, <2>2, JobsFit DEF Used
  <2> QED
    BY <2>1, <2>2
<1>12. Waits(o)' <=> p.place = "listed" /\ p.state = "queued" /\ p.job = "none"
  <2>1. CASE pack'[o] = p
    BY <1>1, <2>1 DEF Waits, Listed, Used
  <2>2. CASE pack'[o] = Free /\ p.job = "none" /\ p.place # "listed"
    BY <2>2 DEF Waits, Listed, Used
  <2> QED
    BY <1>3, <2>1, <2>2
<1>13. \A x \in Objects \ {o} : Waits(x)' <=> Waits(x)
  BY <1>2 DEF Waits, Listed, Used
<1>14. InQueue'
  BY <1>12, <1>13 DEF InQueue, Follows
<1>15. LookedAt'
  <2> SUFFICES ASSUME NEW x \in Objects, Waits(x)', ~(fillers' > 0)
               PROVE  \E y \in Used' : pack'[y].job # "none"
    BY DEF LookedAt
  <2>1. CASE p.job # "none"
    <3>1. pack'[o] = p
      BY <1>3, <2>1
    <3>2. o \in Used'
      BY <1>1, <3>1 DEF Used
    <3> QED
      BY <2>1, <3>1, <3>2
  <2>2. CASE p.job = "none"
    <3>1. pack[o].job = "none" /\ fillers' = fillers
      BY <2>2 DEF Follows
    <3>2. Waits(x)
      BY <1>12, <1>13 DEF Follows
    <3>3. PICK y \in Used : pack[y].job # "none"
      BY <3>1, <3>2 DEF LookedAt
    <3>4. y # o /\ y \in Used' /\ pack'[y] = pack[y]
      BY <1>2, <1>6, <3>1, <3>3 DEF Used
    <3> QED
      BY <3>3, <3>4
  <2> QED
    BY <2>1, <2>2
<1> QED
  BY <1>5, <1>9, <1>10, <1>11, <1>14, <1>15

LEMMA QueueStays ==
    ASSUME Typed
    PROVE  /\ waiting \in Seq(Objects)
           /\ fillers \in Nat /\ fillers + 1 \in Nat /\ fillers + 1 > 0
BY DEF Typed

-----------------------------------------------------------------------------
(* run *)

\* A job goes on: the queue stays as it is.
LEMMA BecomesKeeps ==
    ASSUME IInv, NEW o \in Used, NEW p \in Manifest, Becomes(o, p), p.job # "none",
           pack[o].job # "none",
           p.owner = pack[o].owner, p.input = pack[o].input, p.place = pack[o].place,
           p.returned = pack[o].returned,
           p.place = "listed" => (p.state \in Live => pack[o].state \in Live) /\ JobFits(p)
    PROVE  IInv'
<1>1. Follows(o, p, waiting', fillers')
  BY QueueStays DEF Follows, Becomes, IInv, InQueue, Waits, Used
<1>2. pack' = [pack EXCEPT ![o] = p]
  BY DEF Becomes, Put
<1> QED
  BY <1>1, <1>2, OneChanges

LEMMA OwnState == ASSUME IInv, NEW o \in Used
    PROVE /\ o \in Objects /\ pack[o] \in Manifest
          /\ ~Deleted(o) => o \in Listed
          /\ Deleted(o) => pack[o].place # "listed"
          /\ pack[o].place = "listed" => ~Deleted(o) /\ JobFits(pack[o])
BY UsedIsManifest, JobsFit DEF IInv, NoneDisplaced, Deleted, Listed, Manifest, Places

LEMMA RunBeginKeeps == ASSUME IInv, NEW o \in Used, RunBegin(o) PROVE IInv'
<1> DEFINE p == [pack[o] EXCEPT !.state = Updated(o, "running"),
                                !.job = IF Deleted(o) THEN "stopping" ELSE "running"]
<1>1. Updated(o, "running") \in States /\ (~Deleted(o) => Updated(o, "running") = "running")
  BY OwnState DEF Updated, Manifest, States
<1>2. /\ p \in Manifest /\ p.owner = pack[o].owner /\ p.input = pack[o].input
      /\ p.place = pack[o].place /\ p.state = Updated(o, "running")
      /\ p.job = (IF Deleted(o) THEN "stopping" ELSE "running")
      /\ p.returned = pack[o].returned /\ p.cancellable = pack[o].cancellable
  BY <1>1, OwnState DEF Manifest, Jobs
<1>3. Becomes(o, p) /\ pack[o].job = "launched"
  BY DEF RunBegin
<1> HIDE DEF p
<1>4. p.place = "listed" => (p.state \in Live => pack[o].state \in Live) /\ JobFits(p)
  BY <1>1, <1>2, <1>3, OwnState DEF JobFits, Live
<1>5. p.job # "none"
  BY <1>2
<1> QED
  BY <1>2, <1>3, <1>4, <1>5, BecomesKeeps

LEMMA RunGiveUpKeeps == ASSUME IInv, NEW o \in Used, RunGiveUp(o) PROVE IInv'
<1> DEFINE p == [pack[o] EXCEPT !.state = Updated(o, "incomplete"),
                                !.job = "stopping", !.cancellable = FALSE]
<1>1. Updated(o, "incomplete") \in States /\ (~Deleted(o) => Updated(o, "incomplete") = "incomplete")
  BY OwnState DEF Updated, Manifest, States
<1>2. /\ p \in Manifest /\ p.owner = pack[o].owner /\ p.input = pack[o].input
      /\ p.place = pack[o].place /\ p.state = Updated(o, "incomplete") /\ p.job = "stopping"
      /\ p.returned = pack[o].returned
  BY <1>1, OwnState DEF Manifest, Jobs
<1>3. Becomes(o, p) /\ pack[o].job # "none"
  BY DEF RunGiveUp
<1> HIDE DEF p
<1>4. p.place = "listed" => (p.state \in Live => pack[o].state \in Live) /\ JobFits(p)
  BY <1>1, <1>2, OwnState DEF JobFits, Live
<1> QED
  BY <1>2, <1>3, <1>4, BecomesKeeps

LEMMA RunFinishKeeps == ASSUME IInv, NEW o \in Used, RunFinish(o) PROVE IInv'
<1>1. PICK s \in {"complete", "incomplete"} :
         /\ pack[o].job = "finishing"
         /\ Becomes(o, [pack[o] EXCEPT !.state = Updated(o, s), !.job = "stopping",
                                       !.cancellable = FALSE])
  BY DEF RunFinish
<1> DEFINE p == [pack[o] EXCEPT !.state = Updated(o, s), !.job = "stopping",
                                !.cancellable = FALSE]
<1>2. Updated(o, s) \in States /\ (~Deleted(o) => Updated(o, s) = s)
  BY OwnState DEF Updated, Manifest, States
<1>3. /\ p \in Manifest /\ p.owner = pack[o].owner /\ p.input = pack[o].input
      /\ p.place = pack[o].place /\ p.state = Updated(o, s) /\ p.job = "stopping"
      /\ p.returned = pack[o].returned
  BY <1>2, OwnState DEF Manifest, Jobs
<1>4. Becomes(o, p)
  BY <1>1
<1> HIDE DEF p
<1>5. p.place = "listed" => (p.state \in Live => pack[o].state \in Live) /\ JobFits(p)
  BY <1>1, <1>2, <1>3, OwnState DEF JobFits, Live
<1> QED
  BY <1>1, <1>3, <1>4, <1>5, BecomesKeeps

LEMMA RunLastCheckKeeps == ASSUME IInv, NEW o \in Used, RunLastCheck(o) PROVE IInv'
<1> DEFINE p == [pack[o] EXCEPT !.job = "finishing"]
<1>1. /\ p \in Manifest /\ p.owner = pack[o].owner /\ p.input = pack[o].input
      /\ p.place = pack[o].place /\ p.state = pack[o].state /\ p.job = "finishing"
      /\ p.returned = pack[o].returned
  BY OwnState DEF Manifest, Jobs
<1>2. Becomes(o, p) /\ pack[o].job = "running" /\ ~pack[o].ctxDone
  BY DEF RunLastCheck
<1> HIDE DEF p
<1>3. p.place = "listed" => (p.state \in Live => pack[o].state \in Live) /\ JobFits(p)
  BY <1>1, <1>2, OwnState DEF JobFits
<1> QED
  BY <1>1, <1>2, <1>3, BecomesKeeps

LEMMA ContextDoneKeeps == ASSUME IInv, NEW o \in Used, ContextDone(o) PROVE IInv'
<1> DEFINE p == [pack[o] EXCEPT !.ctxDone = TRUE]
<1>1. /\ p \in Manifest /\ p.owner = pack[o].owner /\ p.input = pack[o].input
      /\ p.place = pack[o].place /\ p.state = pack[o].state /\ p.job = pack[o].job
      /\ p.returned = pack[o].returned /\ p.cancellable = pack[o].cancellable /\ p.ctxDone
  BY OwnState DEF Manifest
<1>2. Becomes(o, p) /\ pack[o].job \in {"launched", "running", "finishing"}
  BY DEF ContextDone
<1> HIDE DEF p
<1>3. p.place = "listed" => (p.state \in Live => pack[o].state \in Live) /\ JobFits(p)
  BY <1>1, OwnState DEF JobFits
<1> QED
  BY <1>1, <1>2, <1>3, BecomesKeeps

LEMMA StorageErrorKeeps == ASSUME IInv, NEW o \in Used, StorageError(o) PROVE IInv'
<1> DEFINE j == IF pack[o].job = "running" THEN "running" ELSE "stopping"
           d == pack[o].ctxDone \/ pack[o].cancellable
           p == [pack[o] EXCEPT !.state = "incomplete", !.job = j, !.ctxDone = d,
                                !.cancellable = FALSE]
<1>1. d \in BOOLEAN /\ j \in Jobs /\ j # "none"
  BY OwnState DEF Manifest, Jobs
<1>2. Becomes(o, p) /\ pack[o].job # "none"
  BY DEF StorageError
<1>3. pack[o].place = "listed" /\ j = "running" => d
  BY OwnState DEF JobFits
<1>4. j \in {"running", "stopping"}
  OBVIOUS
<1> HIDE DEF j, d
<1>5. /\ p \in Manifest /\ p.owner = pack[o].owner /\ p.input = pack[o].input
      /\ p.place = pack[o].place /\ p.state = "incomplete" /\ p.job = j
      /\ p.returned = pack[o].returned /\ p.ctxDone = d
  BY <1>1, OwnState DEF Manifest, States
<1> HIDE DEF p
<1>6. p.place = "listed" => (p.state \in Live => pack[o].state \in Live) /\ JobFits(p)
  BY <1>3, <1>4, <1>5 DEF JobFits, Live
<1> QED
  BY <1>1, <1>2, <1>5, <1>6, BecomesKeeps

LEMMA RunKeeps == ASSUME IInv, NEW o \in Used, Run(o), ~RunExit(o) PROVE IInv'
BY RunBeginKeeps, RunGiveUpKeeps, RunFinishKeeps, RunLastCheckKeeps, StorageErrorKeeps DEF Run

\* A goroutine gives its place up and goes to look at the queue.
LEMMA LeavesKeeps ==
    ASSUME IInv, NEW o \in Used, pack[o].job # "none", NEW p \in Manifest, pack' = Put(o, p),
           p.owner = pack[o].owner, p.input = pack[o].input, p.place = pack[o].place,
           p.returned = pack[o].returned,
           p.place = "listed" => /\ p.state \in Live => pack[o].state \in Live
                                 /\ JobFits(p)
                                 /\ p.state = "queued" => p.job = "launched",
           fillers' = fillers + 1, UNCHANGED waiting
    PROVE  IInv'
<1>1. o \in Objects /\ o \notin ToSet(waiting)
  BY OwnState DEF IInv, InQueue, Waits
<1>2. Follows(o, p, waiting', fillers')
  BY <1>1, QueueStays DEF Follows, IInv, InQueue
<1> QED
  BY <1>2, OneChanges DEF Put

LEMMA RunExitKeeps == ASSUME IInv, NEW o \in Used, RunExit(o) PROVE IInv'
<1> DEFINE p == [pack[o] EXCEPT !.job = "none", !.ctxDone = FALSE]
<1>1. /\ p \in Manifest /\ p.owner = pack[o].owner /\ p.input = pack[o].input
      /\ p.place = pack[o].place /\ p.state = pack[o].state /\ p.job = "none"
      /\ p.returned = pack[o].returned
  BY OwnState DEF Manifest, Jobs
<1>2. /\ pack[o].job = "stopping" /\ pack' = Put(o, p)
      /\ fillers' = fillers + 1 /\ UNCHANGED waiting
  BY DEF RunExit
<1> HIDE DEF p
<1>3. p.place = "listed" => /\ p.state \in Live => pack[o].state \in Live
                            /\ JobFits(p)
                            /\ p.state = "queued" => p.job = "launched"
  BY <1>1, <1>2, OwnState DEF JobFits
<1> QED
  BY <1>1, <1>2, <1>3, LeavesKeeps

-----------------------------------------------------------------------------
(* startQueued *)

LEMMA FillEndKeeps == ASSUME IInv, NEW o \in Used, FillEnd(o) PROVE IInv'
<1>1. CASE FillDrop(o)
  <2> DEFINE p == [pack[o] EXCEPT !.job = "none"]
  <2>1. /\ p \in Manifest /\ p.owner = pack[o].owner /\ p.input = pack[o].input
        /\ p.place = pack[o].place /\ p.state = pack[o].state /\ p.job = "none"
        /\ p.returned = pack[o].returned
    BY OwnState DEF Manifest, Jobs
  <2>2. /\ pack[o].job = "estimating" /\ ~Wanted(o) /\ pack' = Put(o, p)
        /\ fillers' = fillers + 1 /\ UNCHANGED waiting
    BY <1>1 DEF FillDrop
  <2> HIDE DEF p
  <2>3. p.place = "listed" => /\ p.state \in Live => pack[o].state \in Live
                              /\ JobFits(p)
                              /\ p.state = "queued" => p.job = "launched"
    BY <2>1, <2>2, OwnState DEF Wanted, JobFits
  <2> QED
    BY <2>1, <2>2, <2>3, LeavesKeeps
<1>2. CASE FillRefuse(o)
  <2> DEFINE p == [pack[o] EXCEPT !.job = "none", !.state = "incomplete"]
  <2>1. /\ p \in Manifest /\ p.owner = pack[o].owner /\ p.input = pack[o].input
        /\ p.place = pack[o].place /\ p.state = "incomplete" /\ p.job = "none"
        /\ p.returned = pack[o].returned
    BY OwnState DEF Manifest, Jobs, States
  <2>2. /\ pack[o].job = "estimating" /\ pack' = Put(o, p)
        /\ fillers' = fillers + 1 /\ UNCHANGED waiting
    BY <1>2 DEF FillRefuse
  <2> HIDE DEF p
  <2>3. p.place = "listed" => /\ p.state \in Live => pack[o].state \in Live
                              /\ JobFits(p)
                              /\ p.state = "queued" => p.job = "launched"
    BY <2>1 DEF JobFits, Live
  <2> QED
    BY <2>1, <2>2, <2>3, LeavesKeeps
<1>3. CASE FillLaunch(o)
  <2> DEFINE p == [pack[o] EXCEPT !.job = "launched", !.cancellable = TRUE]
  <2>1. /\ p \in Manifest /\ p.owner = pack[o].owner /\ p.input = pack[o].input
        /\ p.place = pack[o].place /\ p.state = pack[o].state /\ p.job = "launched"
        /\ p.returned = pack[o].returned /\ p.cancellable
    BY OwnState DEF Manifest, Jobs
  <2>2. /\ pack[o].job = "estimating" /\ pack[o].state = "queued"
        /\ pack' = [pack EXCEPT ![o] = p]
        /\ fillers' = fillers + 1 /\ UNCHANGED waiting
    BY <1>3, OwnState DEF FillLaunch, Wanted, IInv, Typed
  <2>3. pack' = Put(o, p)
    BY <2>1, <2>2 DEF Put
  <2> HIDE DEF p
  <2>4. p.place = "listed" => /\ p.state \in Live => pack[o].state \in Live
                              /\ JobFits(p)
                              /\ p.state = "queued" => p.job = "launched"
    BY <2>1, <2>2 DEF JobFits
  <2> QED
    BY <2>1, <2>2, <2>3, <2>4, LeavesKeeps
<1> QED
  BY <1>1, <1>2, <1>3 DEF FillEnd

\* Without a free slot somebody works, and will look at the queue afterwards.
LEMMA SlotTaken == ASSUME IInv, ~SlotFree PROVE \E o \in Used : pack[o].job # "none"
<1>1. Holding # {}
  BY PackJobsAssumption, FS_EmptySet DEF SlotFree
<1>2. PICK o \in Listed : Working(o) \/ pack[o].state = "running"
  BY <1>1 DEF Holding
<1> QED
  BY <1>2 DEF Working, IInv, StateOfJob, Listed

LEMMA FillClaimKeeps == ASSUME IInv, NEW o \in Objects, FillClaim(o) PROVE IInv'
<1> DEFINE p == [pack[o] EXCEPT !.job = "estimating"]
<1>1. o \in ToSet(waiting) /\ Waits(o) /\ o \in Used
  BY DEF FillClaim, NextQueued, IInv, InQueue, Waits, Listed
<1>2. /\ p \in Manifest /\ p.owner = pack[o].owner /\ p.input = pack[o].input
      /\ p.place = pack[o].place /\ p.state = pack[o].state /\ p.job = "estimating"
      /\ p.returned = pack[o].returned
  BY <1>1, OwnState DEF Manifest, Jobs
<1>3. /\ pack' = [pack EXCEPT ![o] = p] /\ waiting' = Unqueued(o)
      /\ fillers' = fillers - 1 /\ fillers > 0
  BY DEF FillClaim
<1>4. fillers' \in Nat
  BY <1>3 DEF IInv, Typed
<1>5. /\ waiting' \in Seq(Objects) /\ IsInjective(waiting')
      /\ ToSet(waiting') = ToSet(waiting) \ {o}
  BY <1>3, UnqueuedLeaves DEF IInv, InQueue
<1> HIDE DEF p
<1>6. Follows(o, p, waiting', fillers')
  BY <1>1, <1>2, <1>4, <1>5 DEF Follows, Waits, JobFits
<1> QED
  BY <1>1, <1>2, <1>3, <1>6, OneChanges

\* The last look at the queue ends when nobody is there, or when somebody who
\* has a slot will look again.
LEMMA FillIdleKeeps == ASSUME IInv, FillIdle PROVE IInv'
<1>1. UNCHANGED <<pack, waiting>> /\ fillers' \in Nat /\ (~SlotFree \/ waiting = <<>>)
  BY DEF FillIdle, IInv, Typed
<1>2. ~SlotFree => \E o \in Used : pack[o].job # "none"
  BY SlotTaken
<1>3. waiting = <<>> => \A o \in Objects : ~Waits(o)
  BY DEF IInv, InQueue, ToSet
<1>4. LookedAt'
  BY <1>1, <1>2, <1>3 DEF LookedAt, Waits, Listed, Used
<1>5. Typed' /\ NoneDisplaced' /\ OneLive' /\ StateOfJob' /\ InQueue'
  BY <1>1 DEF IInv, Typed, NoneDisplaced, OneLive, StateOfJob, InQueue, Waits, Listed, Used
<1> QED
  BY <1>4, <1>5 DEF IInv

-----------------------------------------------------------------------------
(* cancel, delete, restart *)

LEMMA UserKeeps == ASSUME IInv, NEW o \in Used, User(o) PROVE IInv'
<1>1. CASE CancelJob(o)
  <2> DEFINE p == [pack[o] EXCEPT !.ctxDone = TRUE]
  <2>1. /\ p \in Manifest /\ p.owner = pack[o].owner /\ p.input = pack[o].input
        /\ p.place = pack[o].place /\ p.state = pack[o].state /\ p.job = pack[o].job
        /\ p.returned = pack[o].returned /\ p.cancellable = pack[o].cancellable /\ p.ctxDone
    BY OwnState DEF Manifest
  <2>2. o \in Listed /\ Becomes(o, p) /\ pack[o].place = "listed"
    BY <1>1 DEF CancelJob, Listed
  <2> HIDE DEF p
  <2>3. pack' = [pack EXCEPT ![o] = p]
    BY <2>1, <2>2 DEF Becomes, Put
  <2>4. JobFits(p)
    BY <2>1, <2>2, OwnState DEF JobFits
  <2>5. Follows(o, p, waiting', fillers')
    BY <2>1, <2>2, <2>4, OwnState, QueueStays DEF Follows, Becomes, IInv, InQueue, Waits
  <2> QED
    BY <2>1, <2>3, <2>5, OneChanges
<1>2. CASE CancelQueued(o)
  <2> DEFINE p == [pack[o] EXCEPT !.state = "incomplete"]
  <2>1. /\ p \in Manifest /\ p.owner = pack[o].owner /\ p.input = pack[o].input
        /\ p.place = pack[o].place /\ p.state = "incomplete" /\ p.job = pack[o].job
        /\ p.returned = pack[o].returned
    BY OwnState DEF Manifest, States
  <2>2. /\ pack' = [pack EXCEPT ![o] = p] /\ waiting' = Unqueued(o) /\ fillers' = fillers
        /\ pack[o].place = "listed" /\ pack[o].state = "queued" /\ ~pack[o].cancellable
    BY <1>2, OwnState DEF CancelQueued, Listed
  <2>3. /\ waiting' \in Seq(Objects) /\ IsInjective(waiting')
        /\ ToSet(waiting') = ToSet(waiting) \ {o}
    BY <2>2, UnqueuedLeaves DEF IInv, InQueue
  <2> HIDE DEF p
  <2>4. JobFits(p) /\ p.state \notin Live
    BY <2>1, <2>2, OwnState DEF JobFits, Live
  <2>5. Follows(o, p, waiting', fillers')
    BY <2>1, <2>2, <2>3, <2>4, QueueStays DEF Follows, IInv
  <2> QED
    BY <2>1, <2>2, <2>5, OneChanges
<1>3. CASE Delete(o)
  <2> DEFINE d == pack[o].ctxDone \/ pack[o].cancellable
             p == [pack[o] EXCEPT !.place = "deleted", !.ctxDone = d, !.cancellable = FALSE]
  <2>1. d \in BOOLEAN
    BY OwnState DEF Manifest
  <2>2. pack' = Put(o, p) /\ waiting' = Unqueued(o) /\ fillers' = fillers
    BY <1>3 DEF Delete
  <2> HIDE DEF d
  <2>3. /\ p \in Manifest /\ p.owner = pack[o].owner /\ p.input = pack[o].input
        /\ p.place = "deleted" /\ p.job = pack[o].job /\ p.returned = pack[o].returned
    BY <2>1, OwnState DEF Manifest, Places
  <2>4. /\ waiting' \in Seq(Objects) /\ IsInjective(waiting')
        /\ ToSet(waiting') = ToSet(waiting) \ {o}
    BY <2>2, UnqueuedLeaves DEF IInv, InQueue
  <2> HIDE DEF p
  <2>5. Follows(o, p, waiting', fillers')
    BY <2>2, <2>3, <2>4, QueueStays DEF Follows, IInv
  <2> QED
    BY <2>2, <2>3, <2>5, OneChanges DEF Put
<1>4. CASE Cleaned(o)
  <2> DEFINE p == [pack[o] EXCEPT !.place = "gone"]
  <2>1. /\ p \in Manifest /\ p.owner = pack[o].owner /\ p.input = pack[o].input
        /\ p.place = "gone" /\ p.job = pack[o].job /\ p.returned = pack[o].returned
    BY OwnState DEF Manifest, Places
  <2>2. Becomes(o, p) /\ pack[o].place = "deleted"
    BY <1>4 DEF Cleaned
  <2>3. o \in Objects /\ o \notin ToSet(waiting)
    BY <2>2, OwnState DEF IInv, InQueue, Waits, Listed
  <2> HIDE DEF p
  <2>4. Follows(o, p, waiting', fillers')
    BY <2>1, <2>2, <2>3, QueueStays DEF Follows, Becomes, IInv, InQueue
  <2> QED
    BY <2>1, <2>2, <2>4, OneChanges DEF Becomes, Put
<1> QED
  BY <1>1, <1>2, <1>3, <1>4 DEF User

\* After a restart nobody runs, nobody waits, and what is complete was, or came
\* back from a removal.
LEMMA RestartKeeps == ASSUME IInv, Restart PROVE IInv'
<1>1. /\ pack' = [o \in Objects |-> IF o \in OnDisk THEN Reloaded(o) ELSE Free]
      /\ waiting' = <<>> /\ fillers' = 0
  BY DEF Restart
<1>2. \A o \in OnDisk : o \in Used
  BY DEF OnDisk
<1>3. ASSUME NEW o \in OnDisk
      PROVE  /\ Reloaded(o) \in Manifest /\ Reloaded(o).owner = pack[o].owner /\ Reloaded(o).input = pack[o].input
             /\ Reloaded(o).place = "listed" /\ Reloaded(o).state \notin {"queued", "running"}
             /\ Reloaded(o).job = "none" /\ (Reloaded(o).state = "complete" => pack[o].state = "complete")
             /\ ~Reloaded(o).returned => ~pack[o].returned /\ ~Returns(o)
  <2>1. pack[o] \in Manifest
    BY <1>2, OwnState
  <2>2. /\ Interrupted(pack[o].state) \in States \ {"queued", "running"}
        /\ Interrupted(pack[o].state) = "complete" => pack[o].state = "complete"
    BY <2>1 DEF Interrupted, Manifest, States
  <2>3. Returns(o) \in BOOLEAN
    BY DEF Returns
  <2> DEFINE t == pack[o].returned \/ Returns(o)
  <2>4. t \in BOOLEAN /\ (~t => ~pack[o].returned /\ ~Returns(o))
    BY <2>1, <2>3 DEF Manifest
  <2> HIDE DEF t
  <2>5. Reloaded(o) = [pack[o] EXCEPT !.place = "listed", !.state = Interrupted(pack[o].state),
                               !.job = "none", !.cancellable = FALSE, !.ctxDone = FALSE,
                               !.returned = t]
    BY DEF Reloaded, t
  <2> QED
    BY <2>1, <2>2, <2>4, <2>5 DEF Manifest, Jobs, Places
<1>4. Typed'
  <2>1. pack' \in [Objects -> Manifest \union {Free}]
    BY <1>1, <1>3
  <2>2. waiting' \in Seq(Objects)
    BY <1>1
  <2> QED
    BY <1>1, <2>1, <2>2 DEF Typed
<1>5. \A o \in Used' : o \in OnDisk /\ pack'[o] = Reloaded(o)
  BY <1>1 DEF Used
<1>6. NoneDisplaced' /\ StateOfJob'
  BY <1>3, <1>5 DEF NoneDisplaced, StateOfJob, Listed
<1>7. OneLive'
  <2>1. ASSUME NEW o \in Listed', pack'[o].state \in Live, ~pack'[o].returned
        PROVE  /\ o \in Listed /\ pack[o].state \in Live /\ ~pack[o].returned
               /\ pack'[o].owner = pack[o].owner /\ pack'[o].input = pack[o].input
    <3>1. o \in OnDisk /\ pack'[o] = Reloaded(o)
      BY <1>5 DEF Listed
    <3>2. pack[o].state = "complete" /\ ~pack[o].returned /\ ~Returns(o)
      BY <1>3, <2>1, <3>1 DEF Live
    <3>3. ~Deleted(o)
      BY <3>2 DEF Returns
    <3>4. o \in Listed
      BY <1>2, <3>1, <3>3, OwnState
    <3> QED
      BY <1>3, <3>1, <3>2, <3>4 DEF Live
  <2> QED
    BY <2>1 DEF OneLive, IInv
<1>8. \A o \in Objects : ~Waits(o)'
  BY <1>3, <1>5 DEF Waits, Listed
<1>9. InQueue'
  BY <1>1, <1>8 DEF InQueue, ToSet, IsInjective
<1>10. LookedAt'
  BY <1>8 DEF LookedAt
<1> QED
  BY <1>4, <1>6, <1>7, <1>9, <1>10 DEF IInv

-----------------------------------------------------------------------------
(* start *)

\* What a submission finds of its own: at most an attempt that has stopped, and
\* that makes room.
LEMMA StartKeeps ==
    ASSUME IInv, NEW o \in Objects, NEW w \in Owners, NEW i \in Asks[w], Start(o, w, i)
    PROVE  IInv'
<1> DEFINE new == NewManifest(w, i, SlotFree)
<1>1. i \in Inputs
  BY PackJobsAssumption
<1>2. /\ new \in Manifest /\ new.place = "listed" /\ new.owner = w /\ new.input = i
      /\ new.state = "queued" /\ new.job = (IF SlotFree THEN "launched" ELSE "none")
      /\ new.cancellable = SlotFree
  BY <1>1 DEF NewManifest, Manifest, Places, States, Jobs, SlotFree
<1>0. PICK D \in Displaces(w, i) :
         /\ RetryReady(D)
         /\ pack' = [p \in Objects |-> IF p = o THEN NewManifest(w, i, SlotFree)
                                       ELSE IF p \in D THEN Displaced(pack[p]) ELSE pack[p]]
  BY DEF Start
<1>3. \A p \in D : p \in Listed /\ pack[p].job = "none" /\ pack[p].state = "incomplete"
  BY <1>0 DEF RetryReady, Working, Displaces, Retried, OwnedBy
<1>4. pack' = [p \in Objects |-> IF p = o THEN new
                                 ELSE IF p \in D THEN Free ELSE pack[p]]
  <2>1. \A p \in D : Displaced(pack[p]) = Free
    BY <1>3 DEF Displaced
  <2> QED
    BY <1>0, <2>1
<1>5. waiting' = (IF SlotFree THEN waiting ELSE Append(waiting, o)) /\ fillers' = fillers
      /\ o \notin Used
  BY DEF Start, Used
<1> HIDE DEF new
<1>6. \A p \in Used : p \in Objects /\ pack[p] \in Manifest
  BY UsedIsManifest DEF IInv
<1>7. o \notin ToSet(waiting)
  BY <1>5 DEF IInv, InQueue, Waits, Listed
<1>8. /\ waiting' \in Seq(Objects) /\ IsInjective(waiting')
      /\ ToSet(waiting') = IF SlotFree THEN ToSet(waiting) ELSE ToSet(waiting) \union {o}
  BY <1>5, <1>7, QueueGrows, QueueStays DEF IInv, InQueue
<1>9. Typed'
  <2>1. pack' \in [Objects -> Manifest \union {Free}]
    BY <1>2, <1>4 DEF IInv, Typed
  <2> QED
    BY <1>5, <1>8, <2>1 DEF IInv, Typed
<1>10. /\ \A p \in Used' \ {o} : p \in Used /\ pack'[p] = pack[p] /\ p \notin D
       /\ pack'[o] = new /\ o \in Used'
  BY <1>2, <1>4, ManifestIsUsed DEF Used
<1>11. NoneDisplaced'
  BY <1>2, <1>10 DEF IInv, NoneDisplaced
<1>12. StateOfJob'
  <2> SUFFICES ASSUME NEW p \in Listed' PROVE JobFits(pack'[p])
    BY DEF StateOfJob, JobFits
  <2>1. CASE p = o
    BY <1>2, <1>10, <2>1 DEF JobFits
  <2>2. CASE p # o
    BY <1>10, <2>2, JobsFit DEF Listed, IInv
  <2> QED
    BY <2>1, <2>2
<1>13. ASSUME NEW p \in Listed' \ {o}, pack[p].state \in Live
       PROVE  <<pack[p].owner, pack[p].input>> # <<w, i>>
  <2>1. p \in Listed
    BY <1>10 DEF Listed
  <2>2. Matching(w, i) = {}
    BY DEF Start
  <2> QED
    BY <1>13, <2>1, <2>2 DEF Matching, OwnedBy
<1>14. OneLive'
  <2> SUFFICES ASSUME NEW p \in Listed', NEW q \in Listed', p # q,
                      pack'[p].state \in Live, pack'[q].state \in Live,
                      ~pack'[p].returned, ~pack'[q].returned
               PROVE  <<pack'[p].owner, pack'[p].input>> # <<pack'[q].owner, pack'[q].input>>
    BY DEF OneLive
  <2>0. \A x \in Listed' \ {o} : x \in Listed /\ pack'[x] = pack[x]
    BY <1>10 DEF Listed
  <2>1. CASE p = o
    BY <1>2, <1>10, <1>13, <2>0, <2>1
  <2>2. CASE q = o
    BY <1>2, <1>10, <1>13, <2>0, <2>2
  <2>3. CASE p # o /\ q # o
    BY <2>0, <2>3 DEF IInv, OneLive
  <2> QED
    BY <2>1, <2>2, <2>3
<1>15. \A p \in Objects \ {o} : Waits(p)' <=> Waits(p)
  BY <1>3, <1>4, ManifestIsUsed DEF Waits, Listed, Used
<1>16. Waits(o)' <=> ~SlotFree
  BY <1>2, <1>10 DEF Waits, Listed
<1>17. InQueue'
  <2>1. \A p \in Objects : p \in ToSet(waiting') <=> Waits(p)'
    BY <1>7, <1>8, <1>15, <1>16 DEF IInv, InQueue
  <2> QED
    BY <1>8, <2>1 DEF InQueue
<1>18. LookedAt'
  <2> SUFFICES ASSUME NEW x \in Objects, Waits(x)', ~(fillers > 0)
               PROVE  \E p \in Used' : pack'[p].job # "none"
    BY <1>5 DEF LookedAt
  <2>1. CASE SlotFree
    <3>1. new.job # "none"
      BY <1>2, <2>1
    <3> QED
      BY <1>10, <3>1
  <2>2. CASE ~SlotFree
    <3>1. PICK p \in Used : pack[p].job # "none"
      BY <2>2, SlotTaken
    <3>2. p # o /\ p \notin D
      BY <1>3, <1>5, <3>1
    <3>3. p \in Objects /\ pack'[p] = pack[p]
      BY <1>4, <1>6, <3>1, <3>2
    <3> QED
      BY <3>1, <3>3 DEF Used
  <2> QED
    BY <2>1, <2>2
<1> QED
  BY <1>9, <1>11, <1>12, <1>14, <1>17, <1>18 DEF IInv

-----------------------------------------------------------------------------
LEMMA Starts == ASSUME Init PROVE IInv
<1>1. Used = {} /\ waiting = <<>> /\ fillers = 0
  BY DEF Init, Used
<1>2. waiting \in Seq(Objects)
  BY <1>1
<1>3. Typed
  BY <1>1, <1>2 DEF Init, Typed
<1>4. \A o \in Objects : ~Waits(o)
  BY <1>1 DEF Waits, Listed
<1>5. InQueue
  BY <1>1, <1>4 DEF InQueue, ToSet, IsInjective
<1> QED
  BY <1>1, <1>3, <1>4, <1>5 DEF IInv, NoneDisplaced, OneLive, StateOfJob, LookedAt, Listed

LEMMA Steps == ASSUME IInv, [Next]_vars PROVE IInv'
<1>1. CASE UNCHANGED vars
  BY <1>1 DEF vars, IInv, Typed, NoneDisplaced, OneLive, StateOfJob, InQueue, LookedAt, Waits,
     Listed, Used
<1> QED
  BY <1>1, StartKeeps, RunKeeps, RunExitKeeps, FillEndKeeps, FillClaimKeeps, FillIdleKeeps,
     ContextDoneKeeps, UserKeeps, RestartKeeps DEF Next, Fill

THEOREM Inductive == Spec => []IInv
BY Starts, Steps, PTL DEF Spec

\* However often a download is asked for, cancelled, removed and retried, under
\* whatever names, its owner has one pack of it at most that waits, runs or is
\* complete, not counting what a restart brings back, and no goroutine works on
\* an attempt that a retry displaced (start: matchingPackLocked, retryPackLocked).
THEOREM OneAttemptHeld == Spec => []OneAttempt
<1>1. IInv => OneAttempt
  BY DEF IInv, OneAttempt, OneLive, NoneDisplaced
<1> QED
  BY <1>1, Inductive, PTL

\* Whoever is reported as running or queued has a goroutine that works on it, or
\* a place in a queue that somebody will look at (startQueued, run).
THEOREM NobodyAbandonedHeld == Spec => []NobodyAbandoned
<1>1. ASSUME IInv PROVE NobodyAbandoned
  <2>1. \A o \in Listed : o \in Objects
    BY DEF Listed, Used
  <2>2. \A o \in Listed : pack[o].state = "running" => Working(o)
    BY <1>1 DEF IInv, StateOfJob, Working
  <2>3. \A o \in Listed : pack[o].state = "queued" /\ ~Working(o) =>
            fillers > 0 \/ \E p \in Used : Working(p)
    BY <1>1, <2>1 DEF IInv, LookedAt, Waits, Working
  <2> QED
    BY <2>2, <2>3 DEF NobodyAbandoned
<1> QED
  BY <1>1, Inductive, PTL
-----------------------------------------------------------------------------
(* The limits.  A download takes a slot or a place only when it is submitted or  *)
(* claimed, and both look at the limit in the same critical section; no other    *)
(* step makes a pack count that did not.                                        *)
InSlot(m) == m.place = "listed" /\ (m.job # "none" \/ m.state = "running")
InPlace(m) == m.place = "listed" /\ (m.job # "none" \/ m.state \in {"queued", "running"})

LimitsInv == SlotsBounded /\ QueueBounded

LEMMA WhoCounts ==
    /\ Holding = {o \in Objects : pack[o] # Free /\ InSlot(pack[o])}
    /\ Active = {o \in Objects : pack[o] # Free /\ InPlace(pack[o])}
BY DEF Holding, Active, Listed, Used, Working, InSlot, InPlace

LEMMA NoMore ==
    ASSUME NEW S, NEW T, S \subseteq T, T \subseteq Objects
    PROVE  /\ IsFiniteSet(T) /\ Cardinality(S) \in Nat /\ Cardinality(T) \in Nat
           /\ Cardinality(S) <= Cardinality(T)
<1>1. IsFiniteSet(T)
  BY PackJobsAssumption, FS_Subset
<1>2. IsFiniteSet(S) /\ Cardinality(S) <= Cardinality(T)
  BY <1>1, FS_Subset
<1> QED
  BY <1>1, <1>2, FS_CardinalityType

LEMMA OneMore ==
    ASSUME NEW S, NEW T, NEW x \in Objects, S \subseteq T \union {x}, T \subseteq Objects
    PROVE  /\ IsFiniteSet(T) /\ Cardinality(S) \in Nat /\ Cardinality(T) \in Nat
           /\ Cardinality(S) <= Cardinality(T) + 1
<1>1. Cardinality(S) \in Nat /\ Cardinality(S) <= Cardinality(T \union {x})
  BY NoMore
<1>2. IsFiniteSet(T) /\ Cardinality(T) \in Nat
  BY NoMore
<1>3. Cardinality(T \union {x}) = IF x \in T THEN Cardinality(T) ELSE Cardinality(T) + 1
  BY <1>2, FS_AddElement
<1> QED
  BY <1>1, <1>2, <1>3

LEMMA OneMoreFits ==
    ASSUME NEW S, NEW T, NEW x \in Objects, S \subseteq T \union {x}, T \subseteq Objects,
           NEW limit \in Nat, Cardinality(T) < limit
    PROVE  Cardinality(S) <= limit
<1>1. Cardinality(S) \in Nat /\ Cardinality(T) \in Nat /\ Cardinality(S) <= Cardinality(T) + 1
  BY OneMore
<1> QED
  BY <1>1

\* Nobody counts who did not, so that the limits stay.
LEMMA LimitsStay ==
    ASSUME LimitsInv, Holding' \subseteq Holding, Active' \subseteq Active,
           \A x \in Active' : pack'[x].owner = pack[x].owner
    PROVE  LimitsInv'
<1>1. Holding \subseteq Objects /\ Active \subseteq Objects
  BY WhoCounts
<1>2. Cardinality(Holding') <= MaxActive
  BY <1>1, NoMore, PackJobsAssumption DEF LimitsInv, SlotsBounded
<1>3. Cardinality(Active') <= MaxActive + MaxQueued
  BY <1>1, NoMore, PackJobsAssumption DEF LimitsInv, QueueBounded
<1>4. ASSUME NEW w \in Owners PROVE Cardinality(OwnedBy(Active, w)') <= OwnerLimit
  <2>1. OwnedBy(Active, w)' \subseteq OwnedBy(Active, w) /\ OwnedBy(Active, w) \subseteq Objects
    BY <1>1 DEF OwnedBy
  <2>2. Cardinality(OwnedBy(Active, w)) <= OwnerLimit
    BY DEF LimitsInv, QueueBounded
  <2> QED
    BY <2>1, <2>2, NoMore, PackJobsAssumption
<1> QED
  BY <1>2, <1>3, <1>4 DEF LimitsInv, SlotsBounded, QueueBounded

\* One manifest changes to one that counts no more than before.
LEMMA OneCountsNoMore ==
    ASSUME IInv, LimitsInv, NEW o \in Used, NEW p,
           p.owner = pack[o].owner, InSlot(p) => InSlot(pack[o]), InPlace(p) => InPlace(pack[o]),
           pack' = [pack EXCEPT ![o] = p] \/ pack' = [pack EXCEPT ![o] = Free]
    PROVE  LimitsInv'
<1>1. o \in Objects /\ pack[o] # Free
  BY DEF Used
<1>2. \A x \in Objects \ {o} : pack'[x] = pack[x]
  BY <1>1 DEF IInv, Typed
<1>3. pack'[o] # Free => pack'[o] = p
  BY <1>1 DEF IInv, Typed
<1>4. Holding' = {x \in Objects : pack'[x] # Free /\ InSlot(pack'[x])}
      /\ Active' = {x \in Objects : pack'[x] # Free /\ InPlace(pack'[x])}
  BY DEF Holding, Active, Listed, Used, Working, InSlot, InPlace
<1>5. Holding' \subseteq Holding
  BY <1>1, <1>2, <1>3, <1>4, WhoCounts
<1>6. Active' \subseteq Active
  BY <1>1, <1>2, <1>3, <1>4, WhoCounts
<1>7. \A x \in Active' : pack'[x].owner = pack[x].owner
  BY <1>2, <1>3, <1>4
<1> QED
  BY <1>5, <1>6, <1>7, LimitsStay

LEMMA PutOrFree == \A o, p : \/ Put(o, p) = [pack EXCEPT ![o] = p]
                             \/ Put(o, p) = [pack EXCEPT ![o] = Free]
BY DEF Put

\* A pack that is worked on counts as long as it is listed.
LEMMA WorkerCountsNoMore ==
    ASSUME IInv, LimitsInv, NEW o \in Used, pack[o].job # "none", NEW p,
           p.owner = pack[o].owner, p.place = pack[o].place,
           pack' = Put(o, p) \/ pack' = [pack EXCEPT ![o] = p]
    PROVE  LimitsInv'
BY PutOrFree, OneCountsNoMore DEF InSlot, InPlace

LEMMA WorkerLimits ==
    ASSUME IInv, LimitsInv, NEW o \in Used, Run(o) \/ FillEnd(o) \/ ContextDone(o)
    PROVE  LimitsInv'
<1>1. pack[o] \in Manifest
  BY OwnState
<1> DEFINE Alike(p) == p.owner = pack[o].owner /\ p.place = pack[o].place
<1>2. ASSUME NEW p, pack[o].job # "none", Alike(p), pack' = Put(o, p) \/ pack' = [pack EXCEPT ![o] = p]
      PROVE  LimitsInv'
  BY <1>2, WorkerCountsNoMore
<1>3. CASE RunBegin(o)
  <2> DEFINE p == [pack[o] EXCEPT !.state = Updated(o, "running"),
                                  !.job = IF Deleted(o) THEN "stopping" ELSE "running"]
  <2>1. Alike(p)
    BY <1>1 DEF Manifest
  <2>2. pack[o].job # "none" /\ pack' = Put(o, p)
    BY <1>3 DEF RunBegin, Becomes
  <2> QED
    BY <1>2, <2>1, <2>2
<1>4. CASE StorageError(o)
  <2> DEFINE p == [pack[o] EXCEPT !.state = "incomplete",
                                  !.job = IF @ = "running" THEN @ ELSE "stopping",
                                  !.ctxDone = @ \/ pack[o].cancellable,
                                  !.cancellable = FALSE]
  <2>1. Alike(p)
    BY <1>1 DEF Manifest
  <2>2. pack[o].job # "none" /\ pack' = Put(o, p)
    BY <1>4 DEF StorageError, Becomes
  <2> QED
    BY <1>2, <2>1, <2>2
<1>5. CASE RunGiveUp(o)
  <2> DEFINE p == [pack[o] EXCEPT !.state = Updated(o, "incomplete"), !.job = "stopping", !.cancellable = FALSE]
  <2>1. Alike(p)
    BY <1>1 DEF Manifest
  <2>2. pack[o].job # "none" /\ pack' = Put(o, p)
    BY <1>5 DEF RunGiveUp, Becomes
  <2> QED
    BY <1>2, <2>1, <2>2
<1>6. CASE RunLastCheck(o)
  <2> DEFINE p == [pack[o] EXCEPT !.job = "finishing"]
  <2>1. Alike(p)
    BY <1>1 DEF Manifest
  <2>2. pack[o].job # "none" /\ pack' = Put(o, p)
    BY <1>6 DEF RunLastCheck, Becomes
  <2> QED
    BY <1>2, <2>1, <2>2
<1>7. CASE RunFinish(o)
  <2>1. PICK s \in {"complete", "incomplete"} :
            pack' = Put(o, [pack[o] EXCEPT !.state = Updated(o, s), !.job = "stopping", !.cancellable = FALSE])
    BY <1>7 DEF RunFinish, Becomes
  <2> DEFINE p == [pack[o] EXCEPT !.state = Updated(o, s), !.job = "stopping", !.cancellable = FALSE]
  <2>2. Alike(p)
    BY <1>1 DEF Manifest
  <2>3. pack[o].job # "none"
    BY <1>7 DEF RunFinish
  <2> QED
    BY <1>2, <2>1, <2>2, <2>3
<1>8. CASE RunExit(o)
  <2> DEFINE p == [pack[o] EXCEPT !.job = "none", !.ctxDone = FALSE]
  <2>1. Alike(p)
    BY <1>1 DEF Manifest
  <2>2. pack[o].job # "none" /\ pack' = Put(o, p)
    BY <1>8 DEF RunExit
  <2> QED
    BY <1>2, <2>1, <2>2
<1>12. CASE FillDrop(o)
  <2> DEFINE p == [pack[o] EXCEPT !.job = "none"]
  <2>1. Alike(p)
    BY <1>1 DEF Manifest
  <2>2. pack[o].job # "none" /\ pack' = Put(o, p)
    BY <1>12 DEF FillDrop
  <2> QED
    BY <1>2, <2>1, <2>2
<1>9. CASE FillRefuse(o)
  <2> DEFINE p == [pack[o] EXCEPT !.job = "none", !.state = "incomplete"]
  <2>1. Alike(p)
    BY <1>1 DEF Manifest
  <2>2. pack[o].job # "none" /\ pack' = Put(o, p)
    BY <1>9 DEF FillRefuse
  <2> QED
    BY <1>2, <2>1, <2>2
<1>10. CASE FillLaunch(o)
  <2> DEFINE p == [pack[o] EXCEPT !.job = "launched", !.cancellable = TRUE]
  <2>1. Alike(p)
    BY <1>1 DEF Manifest
  <2>2. pack[o].job # "none" /\ pack' = [pack EXCEPT ![o] = p]
    BY <1>10, OwnState DEF FillLaunch, IInv, Typed
  <2> QED
    BY <1>2, <2>1, <2>2
<1>11. CASE ContextDone(o)
  <2> DEFINE p == [pack[o] EXCEPT !.ctxDone = TRUE]
  <2>1. Alike(p)
    BY <1>1 DEF Manifest
  <2>2. pack[o].job # "none" /\ pack' = Put(o, p)
    BY <1>11 DEF ContextDone, Becomes
  <2> QED
    BY <1>2, <2>1, <2>2
<1> QED
  BY <1>3, <1>4, <1>5, <1>6, <1>7, <1>8, <1>9, <1>10, <1>11, <1>12
  DEF Run, FillEnd

LEMMA UserLimits == ASSUME IInv, LimitsInv, NEW o \in Used, User(o) PROVE LimitsInv'
<1>1. pack[o] \in Manifest
  BY OwnState
<1>2. CASE CancelJob(o)
  <2> DEFINE p == [pack[o] EXCEPT !.ctxDone = TRUE]
  <2>1. p.owner = pack[o].owner /\ p.place = pack[o].place /\ p.job = pack[o].job /\ p.state = pack[o].state
    BY <1>1 DEF Manifest
  <2>2. pack' = Put(o, p)
    BY <1>2 DEF CancelJob, Becomes
  <2> HIDE DEF p
  <2> QED
    BY <2>1, <2>2, PutOrFree, OneCountsNoMore DEF InSlot, InPlace
<1>3. CASE CancelQueued(o)
  <2> DEFINE p == [pack[o] EXCEPT !.state = "incomplete"]
  <2>1. p.owner = pack[o].owner /\ p.place = pack[o].place /\ p.job = pack[o].job /\ p.state = "incomplete"
    BY <1>1 DEF Manifest
  <2>2. pack' = [pack EXCEPT ![o] = p]
    BY <1>3, OwnState DEF CancelQueued, IInv, Typed
  <2> HIDE DEF p
  <2> QED
    BY <2>1, <2>2, OneCountsNoMore DEF InSlot, InPlace
<1>4. CASE Delete(o)
  <2> DEFINE p == [pack[o] EXCEPT !.place = "deleted", !.ctxDone = @ \/ pack[o].cancellable,
                                  !.cancellable = FALSE]
  <2>1. p.owner = pack[o].owner /\ p.place = "deleted"
    BY <1>1 DEF Manifest
  <2>2. pack' = Put(o, p)
    BY <1>4 DEF Delete
  <2> HIDE DEF p
  <2> QED
    BY <2>1, <2>2, PutOrFree, OneCountsNoMore DEF InSlot, InPlace
<1>5. CASE Cleaned(o)
  <2> DEFINE p == [pack[o] EXCEPT !.place = "gone"]
  <2>1. p.owner = pack[o].owner /\ p.place = "gone"
    BY <1>1 DEF Manifest
  <2>2. pack' = Put(o, p)
    BY <1>5 DEF Cleaned, Becomes
  <2> HIDE DEF p
  <2> QED
    BY <2>1, <2>2, PutOrFree, OneCountsNoMore DEF InSlot, InPlace
<1> QED
  BY <1>2, <1>3, <1>4, <1>5 DEF User

\* A claim takes a slot that is free; its pack had a place already.
LEMMA ClaimLimits == ASSUME IInv, LimitsInv, NEW o \in Objects, FillClaim(o) PROVE LimitsInv'
<1>1. o \in Listed /\ pack[o].state = "queued" /\ pack[o] \in Manifest /\ pack[o] # Free
  BY UsedIsManifest DEF FillClaim, NextQueued, IInv, InQueue, Waits, Listed, Used
<1> DEFINE p == [pack[o] EXCEPT !.job = "estimating"]
<1>2. pack' = [pack EXCEPT ![o] = p] /\ SlotFree
  BY <1>1 DEF FillClaim, IInv, Typed
<1>3. p.owner = pack[o].owner /\ p.place = pack[o].place
  BY <1>1 DEF Manifest
<1> HIDE DEF p
<1>4. pack'[o] = p /\ \A x \in Objects \ {o} : pack'[x] = pack[x]
  BY <1>2 DEF IInv, Typed
<1>5. Holding' = {x \in Objects : pack'[x] # Free /\ InSlot(pack'[x])}
      /\ Active' = {x \in Objects : pack'[x] # Free /\ InPlace(pack'[x])}
  BY DEF Holding, Active, Listed, Used, Working, InSlot, InPlace
<1>6. Holding' \subseteq Holding \union {o}
  BY <1>4, <1>5, WhoCounts
<1>7. Active' \subseteq Active /\ \A x \in Active' : pack'[x].owner = pack[x].owner
  <2>1. o \in Active
    BY <1>1, WhoCounts DEF InPlace, Listed
  <2> QED
    BY <1>3, <1>4, <1>5, <2>1, WhoCounts
<1>8. Holding \subseteq Objects /\ Active \subseteq Objects
  BY WhoCounts
<1>9. SlotsBounded'
  <2>1. MaxActive \in Nat /\ Cardinality(Holding) < MaxActive
    BY <1>2, PackJobsAssumption DEF SlotFree
  <2> QED
    BY <1>6, <1>8, <2>1, OneMoreFits DEF SlotsBounded
<1>10. QueueBounded'
  <2>1. Cardinality(Active') <= MaxActive + MaxQueued
    BY <1>7, <1>8, NoMore, PackJobsAssumption DEF LimitsInv, QueueBounded
  <2>2. ASSUME NEW w \in Owners PROVE Cardinality(OwnedBy(Active, w)') <= OwnerLimit
    <3>1. OwnedBy(Active, w)' \subseteq OwnedBy(Active, w) /\ OwnedBy(Active, w) \subseteq Objects
      BY <1>7, <1>8 DEF OwnedBy
    <3> QED
      BY <3>1, NoMore, PackJobsAssumption DEF LimitsInv, QueueBounded
  <2> QED
    BY <2>1, <2>2 DEF QueueBounded
<1> QED
  BY <1>9, <1>10 DEF LimitsInv

\* A submission takes a place that its owner and the queue have, and a slot only
\* if one is free.
LEMMA StartLimits ==
    ASSUME IInv, LimitsInv, NEW o \in Objects, NEW w \in Owners, NEW i \in Asks[w], Start(o, w, i)
    PROVE  LimitsInv'
<1> DEFINE new == NewManifest(w, i, SlotFree)
<1>1. new.owner = w /\ new.state = "queued" /\ new.job = (IF SlotFree THEN "launched" ELSE "none")
  BY DEF NewManifest
<1>0. PICK D : /\ RetryReady(D)
               /\ pack' = [p \in Objects |-> IF p = o THEN NewManifest(w, i, SlotFree)
                                             ELSE IF p \in D THEN Displaced(pack[p])
                                             ELSE pack[p]]
  BY DEF Start
<1>2. \A p \in D : pack[p].job = "none"
  BY <1>0 DEF RetryReady, Working
<1>3. pack' = [p \in Objects |-> IF p = o THEN new ELSE IF p \in D THEN Free ELSE pack[p]]
  <2>1. \A p \in D : Displaced(pack[p]) = Free
    BY <1>2 DEF Displaced
  <2> QED
    BY <1>0, <2>1
<1> HIDE DEF new
<1>4. pack'[o] = new /\ \A x \in Objects \ {o} : pack'[x] # Free => pack'[x] = pack[x]
  BY <1>3
<1>5. Holding' = {x \in Objects : pack'[x] # Free /\ InSlot(pack'[x])}
      /\ Active' = {x \in Objects : pack'[x] # Free /\ InPlace(pack'[x])}
  BY DEF Holding, Active, Listed, Used, Working, InSlot, InPlace
<1>6. Holding' \subseteq Holding \union {o} /\ Active' \subseteq Active \union {o}
  BY <1>4, <1>5, WhoCounts
<1>7. Holding \subseteq Objects /\ Active \subseteq Objects
  BY WhoCounts
<1>8. SlotsBounded'
  <2>1. CASE SlotFree
    <3>1. MaxActive \in Nat /\ Cardinality(Holding) < MaxActive
      BY <2>1, PackJobsAssumption DEF SlotFree
    <3> QED
      BY <1>6, <1>7, <3>1, OneMoreFits DEF SlotsBounded
  <2>2. CASE ~SlotFree
    <3>1. ~InSlot(new)
      BY <1>1, <2>2 DEF InSlot
    <3>2. Holding' \subseteq Holding
      BY <1>4, <1>5, <3>1, WhoCounts
    <3> QED
      BY <1>7, <3>2, NoMore, PackJobsAssumption DEF LimitsInv, SlotsBounded
  <2> QED
    BY <2>1, <2>2
<1>9. Room(w)
  BY DEF Start
<1>10. Cardinality(Active') <= MaxActive + MaxQueued
  <2>1. MaxActive + MaxQueued \in Nat /\ Cardinality(Active) < MaxActive + MaxQueued
    BY <1>9, PackJobsAssumption DEF Room
  <2> QED
    BY <1>6, <1>7, <2>1, OneMoreFits
<1>11. ASSUME NEW v \in Owners PROVE Cardinality(OwnedBy(Active, v)') <= OwnerLimit
  <2>1. OwnedBy(Active, v) \subseteq Objects
    BY <1>7 DEF OwnedBy
  <2>2. OwnedBy(Active, v)' = {x \in Active' : pack'[x].owner = v}
    BY DEF OwnedBy
  <2>3. CASE v = w
    <3>1. OwnedBy(Active, v)' \subseteq OwnedBy(Active, v) \union {o}
      BY <1>4, <1>5, <1>6, <2>2 DEF OwnedBy
    <3> QED
      <4>1. OwnerLimit \in Nat /\ Cardinality(OwnedBy(Active, v)) < OwnerLimit
        BY <1>9, <2>3, PackJobsAssumption DEF Room
      <4> QED
        BY <2>1, <3>1, <4>1, OneMoreFits
  <2>4. CASE v # w
    <3>1. OwnedBy(Active, v)' \subseteq OwnedBy(Active, v)
      BY <1>1, <1>4, <1>5, <1>6, <2>2, <2>4 DEF OwnedBy
    <3> QED
      BY <2>1, <3>1, NoMore, PackJobsAssumption DEF LimitsInv, QueueBounded
  <2> QED
    BY <2>3, <2>4
<1> QED
  BY <1>8, <1>10, <1>11 DEF LimitsInv, QueueBounded

\* After a restart nobody counts.
LEMMA RestartLimits == ASSUME IInv, LimitsInv, Restart PROVE LimitsInv'
<1>1. pack' = [o \in Objects |-> IF o \in OnDisk THEN Reloaded(o) ELSE Free]
  BY DEF Restart
<1>2. ASSUME NEW o \in OnDisk PROVE Reloaded(o).job = "none" /\ Reloaded(o).state \notin {"queued", "running"}
  <2>1. pack[o] \in Manifest
    BY OwnState DEF OnDisk
  <2> QED
    BY <2>1 DEF Manifest, Interrupted, Reloaded
<1>3. Holding' = {x \in Objects : pack'[x] # Free /\ InSlot(pack'[x])}
      /\ Active' = {x \in Objects : pack'[x] # Free /\ InPlace(pack'[x])}
  BY DEF Holding, Active, Listed, Used, Working, InSlot, InPlace
<1>4. Holding' = {} /\ Active' = {}
  BY <1>1, <1>2, <1>3 DEF InSlot, InPlace
<1> QED
  BY <1>4, LimitsStay

LEMMA LimitsStart == ASSUME Init PROVE LimitsInv
<1>1. Holding = {} /\ Active = {} /\ \A w : OwnedBy(Active, w) = {}
  BY DEF Init, Holding, Active, Listed, Used, OwnedBy
<1> QED
  BY <1>1, FS_EmptySet, PackJobsAssumption DEF LimitsInv, SlotsBounded, QueueBounded

LEMMA LimitsKeep == ASSUME IInv, LimitsInv, [Next]_vars PROVE LimitsInv'
<1>1. CASE UNCHANGED vars \/ FillIdle
  <2>1. pack' = pack
    BY <1>1 DEF vars, FillIdle
  <2>2. Holding' = Holding /\ Active' = Active
    BY <2>1 DEF Holding, Active, Listed, Used, Working
  <2> QED
    BY <2>1, <2>2, LimitsStay
<1> QED
  BY <1>1, StartLimits, WorkerLimits, UserLimits, ClaimLimits, RestartLimits DEF Next, Fill

\* Both limits hold together: whichever step a pack takes, the two counts rise only
\* behind the checks of startContext and startQueued.
THEOREM LimitsInvariant == Spec => []LimitsInv
<1>1. Init => LimitsInv
  BY LimitsStart
<1>2. IInv /\ LimitsInv /\ [Next]_vars => LimitsInv'
  BY LimitsKeep
<1> QED
  BY <1>1, <1>2, Inductive, PTL DEF Spec

\* However packs are submitted, claimed, cancelled, removed, retried and
\* interrupted, no more of those that exist have a job than there are slots
\* (startQueued, start: maxActivePackJobs).
THEOREM SlotsHeld == Spec => []SlotsBounded
<1>1. LimitsInv => SlotsBounded
  BY DEF LimitsInv
<1> QED
  BY <1>1, LimitsInvariant, PTL

\* The queue and each owner's share of it keep their limits, also when retries
\* and removals make room (start: maxQueuedPackJobs, ownerPackJobLimit).
THEOREM QueueHeld == Spec => []QueueBounded
<1>1. LimitsInv => QueueBounded
  BY DEF LimitsInv
<1> QED
  BY <1>1, LimitsInvariant, PTL
=============================================================================
