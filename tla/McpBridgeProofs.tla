--------------------------- MODULE McpBridgeProofs ---------------------------
(***************************************************************************)
(* For any pages, streams, limits and number of calls, breaks and losses:  *)
(* a page applies each command at most once, in the order of the calls;    *)
(* who waits is in the queue, a sleeping stream has been woken, and an     *)
(* agent reads its own write.                                              *)
(***************************************************************************)
EXTENDS McpBridge, FiniteSetTheorems, TLAPS

-----------------------------------------------------------------------------
(* Types *)

BrokerViews == [seq : Nat, snap : Nat, queue : Seq(Nat), fresh : BOOLEAN]
Handlers == [at : {"closed", "reading", "writing", "waiting"}, view : Views, own : BOOLEAN,
             head : Nat, delivered : Nat, alive : BOOLEAN]
Pages == [at : {"idle", "publishing", "submitting"}, cur : Nat, seq : Nat, await : Nat,
          inbox : Seq(Nat), log : Seq(Nat), tracked : Seq(Nat), unsent : SUBSET Nat]
Publishes == [seq : Nat, snap : Nat]

Typed == /\ view \in [Views -> BrokerViews]
         /\ stream \in [Streams -> Handlers]
         /\ page \in [Views -> Pages]
         /\ net \in [Views -> SUBSET Publishes]
         /\ status \in [Calls -> {"new", "pending", "answered", "ended"}]
         /\ target \in [Calls -> Views]

-----------------------------------------------------------------------------
(* The strengthening *)

Rising(q) == \A i, j \in DOMAIN q : i < j => q[i] < q[j]
Sorted(q) == \A i, j \in DOMAIN q : i < j => q[i] <= q[j]
AllUpTo(S, n) == \A x \in S : x <= n

\* Calls are numbered without gaps, and nobody has a call that was not made.
Issued == {c \in Calls : status[c] # "new"}

Numbered == \E n \in Nat : Issued = 1 .. n

Inbox(v) == ToSet(page[v].inbox)
Log(v) == ToSet(page[v].log)
Queue(v) == ToSet(view[v].queue)

KnownCalls == /\ \A v \in Views : Inbox(v) \union Log(v) \union Queue(v) \subseteq Issued
              /\ \A s \in Streams : stream[s].at = "writing" => stream[s].head \in Issued

\* The queue is in the order of the calls, and behind what left it.
QueueRises == \A v \in Views : Rising(view[v].queue)

QueueBehind == \A v \in Views : \A x \in Inbox(v) \union Log(v) : \A y \in Queue(v) : x <= y

\* A page has one connection, and what is being written on it is the latest.
Writing(s) == stream[s].alive /\ stream[s].at = "writing"

OneConnection == \A s, t \in Streams : stream[s].alive /\ stream[t].alive /\ s # t
                                       => stream[s].view # stream[t].view

HeadBetween == \A s \in Streams : Writing(s) =>
                  /\ AllUpTo(Inbox(stream[s].view) \union Log(stream[s].view), stream[s].head)
                  /\ \A y \in Queue(stream[s].view) : stream[s].head <= y

\* Deliveries repeat the last command and never go back behind it.
InboxSorted == \A v \in Views : Sorted(page[v].inbox)

InboxAfterLog == \A v \in Views : \A x \in Log(v), y \in Inbox(v) : x <= y

\* The page remembers the command that it applied last.
LastTracked == \A v \in Views : LET log == page[v].log
                                    seen == page[v].tracked
                                IN  log # <<>> => seen # <<>> /\ seen[Len(seen)] = log[Len(log)]

IInv == /\ Typed /\ Numbered /\ KnownCalls /\ QueueRises /\ QueueBehind /\ OneConnection
        /\ HeadBetween /\ InboxSorted /\ InboxAfterLog /\ LastTracked /\ AppliedInOrder

-----------------------------------------------------------------------------
(* Sequences *)

LEMMA SetOf == ASSUME NEW q \in Seq(Nat)
               PROVE  /\ DOMAIN q = 1 .. Len(q) /\ Len(q) \in Nat /\ ToSet(q) \subseteq Nat
                      /\ \A i \in 1 .. Len(q) : q[i] \in ToSet(q)
                      /\ \A x \in ToSet(q) : \E i \in 1 .. Len(q) : q[i] = x
BY DEF ToSet

LEMMA AddedLast ==
    ASSUME NEW q \in Seq(Nat), NEW c \in Nat
    PROVE  /\ Append(q, c) \in Seq(Nat) /\ ToSet(Append(q, c)) = ToSet(q) \union {c}
           /\ Append(q, c) # <<>> /\ Append(q, c)[Len(Append(q, c))] = c
           /\ Rising(q) /\ (\A x \in ToSet(q) : x < c) => Rising(Append(q, c))
           /\ Sorted(q) /\ (\A x \in ToSet(q) : x <= c) => Sorted(Append(q, c))
<1>1. /\ Append(q, c) \in Seq(Nat) /\ DOMAIN Append(q, c) = 1 .. Len(q) + 1
      /\ Len(Append(q, c)) = Len(q) + 1 /\ Append(q, c)[Len(q) + 1] = c
      /\ \A i \in 1 .. Len(q) : Append(q, c)[i] = q[i]
      /\ DOMAIN q = 1 .. Len(q) /\ Len(q) \in Nat
  OBVIOUS
<1>2. \A i \in 1 .. Len(q) : q[i] \in Nat /\ q[i] \in ToSet(q)
  BY <1>1 DEF ToSet
<1>3. ToSet(Append(q, c)) = ToSet(q) \union {c}
  BY <1>1 DEF ToSet
<1>4. Rising(q) /\ (\A x \in ToSet(q) : x < c) => Rising(Append(q, c))
  BY <1>1, <1>2 DEF Rising
<1>5. Sorted(q) /\ (\A x \in ToSet(q) : x <= c) => Sorted(Append(q, c))
  BY <1>1, <1>2 DEF Sorted
<1>6. Append(q, c) # <<>>
  BY <1>1
<1> QED
  BY <1>1, <1>3, <1>4, <1>5, <1>6

LEMMA FirstTaken ==
    ASSUME NEW q \in Seq(Nat), q # <<>>
    PROVE  /\ Head(q) \in ToSet(q) /\ Tail(q) \in Seq(Nat) /\ ToSet(Tail(q)) \subseteq ToSet(q)
           /\ Sorted(q) => Sorted(Tail(q)) /\ \A x \in ToSet(q) : Head(q) <= x
           /\ Rising(q) => \A x \in ToSet(q) : Head(q) <= x
<1>1. /\ DOMAIN q = 1 .. Len(q) /\ Len(q) \in Nat \ {0} /\ Head(q) = q[1]
      /\ Tail(q) \in Seq(Nat) /\ DOMAIN Tail(q) = 1 .. Len(q) - 1
      /\ \A i \in 1 .. Len(q) - 1 : Tail(q)[i] = q[i + 1]
  OBVIOUS
<1>2. \A i \in 1 .. Len(q) : q[i] \in Nat
  OBVIOUS
<1>3. Head(q) \in ToSet(q) /\ ToSet(Tail(q)) \subseteq ToSet(q)
  BY <1>1 DEF ToSet
<1>4. Sorted(q) => Sorted(Tail(q)) /\ \A x \in ToSet(q) : Head(q) <= x
  <2> SUFFICES ASSUME Sorted(q) PROVE Sorted(Tail(q)) /\ \A x \in ToSet(q) : Head(q) <= x
    OBVIOUS
  <2>1. ASSUME NEW i \in 1 .. Len(q) - 1, NEW j \in 1 .. Len(q) - 1, i < j
        PROVE  Tail(q)[i] <= Tail(q)[j]
    <3>1. i + 1 \in DOMAIN q /\ j + 1 \in DOMAIN q /\ i + 1 < j + 1
      BY <1>1, <2>1
    <3>2. q[i + 1] <= q[j + 1]
      BY <3>1 DEF Sorted
    <3> QED
      BY <1>1, <3>2
  <2>2. Sorted(Tail(q))
    BY <1>1, <2>1 DEF Sorted
  <2>3. \A i \in 1 .. Len(q) : q[1] <= q[i]
    BY <1>1, <1>2 DEF Sorted
  <2> QED
    BY <1>1, <2>2, <2>3, SetOf
<1>5. Rising(q) => \A x \in ToSet(q) : Head(q) <= x
  BY <1>1, <1>2 DEF Rising, ToSet
<1> QED
  BY <1>1, <1>3, <1>4, <1>5

\* A part of a sequence.
LEMMA Part ==
    ASSUME NEW q \in Seq(Nat), NEW m \in Nat, NEW n \in Nat, 1 <= m, n <= Len(q)
    PROVE  /\ SubSeq(q, m, n) \in Seq(Nat)
           /\ Len(SubSeq(q, m, n)) = IF m <= n THEN n - m + 1 ELSE 0
           /\ \A k \in 1 .. n - m + 1 : SubSeq(q, m, n)[k] = q[m + k - 1]
<1>1. SubSeq(q, m, n) \in Seq(Nat)
  OBVIOUS
<1>2. Len(SubSeq(q, m, n)) = IF m <= n THEN n - m + 1 ELSE 0
  OBVIOUS
<1>3. \A k \in 1 .. n - m + 1 : SubSeq(q, m, n)[k] = q[m + k - 1]
  OBVIOUS
<1> QED
  BY <1>1, <1>2, <1>3

LEMMA Joined == ASSUME NEW a \in Seq(Nat), NEW b \in Seq(Nat)
                PROVE  a \o b \in Seq(Nat) /\ Len(a \o b) = Len(a) + Len(b)
OBVIOUS

LEMMA InSecond == ASSUME NEW a \in Seq(Nat), NEW b \in Seq(Nat), NEW m \in 1 .. Len(b)
                  PROVE  (a \o b)[Len(a) + m] = b[m]
OBVIOUS

LEMMA OneRemoved ==
    ASSUME NEW q \in Seq(Nat), NEW i \in DOMAIN q
    PROVE  /\ RemoveAt(q, i) \in Seq(Nat) /\ Len(RemoveAt(q, i)) = Len(q) - 1
           /\ \A n \in 1 .. Len(q) - 1 : RemoveAt(q, i)[n] = q[IF n < i THEN n ELSE n + 1]
<1> DEFINE l == Len(q)
           a == SubSeq(q, 1, i - 1)
           b == SubSeq(q, i + 1, l)
<1>1. i \in 1 .. l /\ l \in Nat
  OBVIOUS
<1>2. a \in Seq(Nat) /\ Len(a) = i - 1 /\ \A n \in 1 .. i - 1 : a[n] = q[n]
  <2>1. i - 1 \in Nat /\ i - 1 <= l /\ i - 1 - 1 + 1 = i - 1 /\ ~(1 <= i - 1) => i - 1 = 0
    BY <1>1
  <2>2. \A n \in 1 .. i - 1 : 1 + n - 1 = n
    BY <1>1
  <2>3. /\ a \in Seq(Nat) /\ Len(a) = IF 1 <= i - 1 THEN i - 1 - 1 + 1 ELSE 0
        /\ \A k \in 1 .. i - 1 - 1 + 1 : a[k] = q[1 + k - 1]
    BY <2>1, Part
  <2> HIDE DEF a, l
  <2>4. i - 1 - 1 + 1 = i - 1 /\ (IF 1 <= i - 1 THEN i - 1 ELSE 0) = i - 1
    BY <1>1
  <2> QED
    BY <2>2, <2>3, <2>4
<1>3. b \in Seq(Nat) /\ Len(b) = l - i /\ \A n \in 1 .. l - i : b[n] = q[i + n]
  <2>1. i + 1 \in Nat /\ 1 <= i + 1 /\ l <= l
    BY <1>1
  <2>3. /\ b \in Seq(Nat) /\ Len(b) = IF i + 1 <= l THEN l - (i + 1) + 1 ELSE 0
        /\ \A k \in 1 .. l - (i + 1) + 1 : b[k] = q[i + 1 + k - 1]
    BY <1>1, <2>1, Part
  <2> HIDE DEF b, l
  <2>4. l - (i + 1) + 1 = l - i /\ (IF i + 1 <= l THEN l - i ELSE 0) = l - i
    BY <1>1
  <2>5. \A k \in 1 .. l - i : i + 1 + k - 1 = i + k
    BY <1>1
  <2> QED
    BY <2>3, <2>4, <2>5
<1>4. RemoveAt(q, i) = a \o b
  BY DEF RemoveAt
<1> HIDE DEF a, b
<1>5. a \o b \in Seq(Nat) /\ Len(a \o b) = l - 1
  <2>1. a \o b \in Seq(Nat) /\ Len(a \o b) = Len(a) + Len(b)
    BY <1>2, <1>3, Joined
  <2>2. i - 1 + (l - i) = l - 1
    BY <1>1
  <2> QED
    BY <1>2, <1>3, <2>1, <2>2
<1>6. ASSUME NEW n \in 1 .. l - 1
      PROVE  (a \o b)[n] = q[IF n < i THEN n ELSE n + 1]
  <2>1. CASE n < i
    <3>1. n \in 1 .. Len(a)
      BY <1>1, <1>2, <2>1
    <3>2. (a \o b)[n] = a[n]
      BY <1>2, <1>3, <3>1
    <3> QED
      BY <1>2, <2>1, <3>1, <3>2
  <2>2. CASE ~(n < i)
    <3>1. PICK m \in 1 .. Len(b) : n = Len(a) + m
      <4>1. n + 1 - i \in 1 .. l - i /\ n = i - 1 + (n + 1 - i)
        BY <1>1, <2>2
      <4> QED
        BY <1>2, <1>3, <4>1
    <3>2. (a \o b)[Len(a) + m] = b[m]
      BY <1>2, <1>3, InSecond
    <3>3. b[m] = q[i + m] /\ i + m = n + 1
      <4>1. m \in 1 .. l - i /\ n = i - 1 + m
        BY <1>2, <1>3, <3>1
      <4>2. i + m = n + 1
        BY <1>1, <4>1
      <4> QED
        BY <1>3, <4>1, <4>2
    <3> QED
      BY <2>2, <3>1, <3>2, <3>3
  <2> QED
    BY <2>1, <2>2
<1> QED
  BY <1>4, <1>5, <1>6

LEMMA Thinned ==
    ASSUME NEW q \in Seq(Nat), Rising(q), NEW c
    PROVE  /\ Without(q, c) \in Seq(Nat) /\ Rising(Without(q, c))
           /\ ToSet(Without(q, c)) = ToSet(q) \ {c}
<1> DEFINE First(i) == q[i] = c /\ \A j \in 1 .. i - 1 : q[j] # c
<1>1. CASE c \notin ToSet(q)
  BY <1>1 DEF Without
<1>2. CASE c \in ToSet(q)
  <2>1. PICK k \in 1 .. Len(q) : q[k] = c
    BY <1>2, SetOf
  <2>2. \A j \in 1 .. k - 1 : q[j] < c
    BY <2>1, SetOf DEF Rising
  <2>3. k \in DOMAIN q /\ First(k)
    <3>1. \A j \in 1 .. k - 1 : q[j] # c
      BY <2>1, <2>2, SetOf
    <3> QED
      BY <2>1, <3>1, SetOf
  <2>4. PICK i \in DOMAIN q : i = CHOOSE n \in DOMAIN q : First(n)
    BY <2>3
  <2> DEFINE r == RemoveAt(q, i)
             old(n) == IF n < i THEN n ELSE n + 1
  <2>5. Without(q, c) = r
    BY <1>2, <2>4 DEF Without
  <2>6. i \in 1 .. Len(q) /\ Len(q) \in Nat
    BY <2>4, SetOf
  <2>7. r \in Seq(Nat) /\ Len(r) = Len(q) - 1 /\ \A n \in 1 .. Len(q) - 1 : r[n] = q[old(n)]
    BY OneRemoved
  <2> HIDE DEF r
  <2>8. DOMAIN r = 1 .. Len(q) - 1
    BY <2>7
  <2>9. \A n \in 1 .. Len(q) - 1 : old(n) \in DOMAIN q /\ old(n) # i
    BY <2>6, SetOf
  <2>13. ASSUME NEW m \in DOMAIN q, m # i PROVE \E n \in 1 .. Len(q) - 1 : old(n) = m
    <3>1. CASE m < i
      BY <2>6, <3>1, SetOf
    <3>2. CASE m > i
      <4>1. m - 1 \in 1 .. Len(q) - 1 /\ old(m - 1) = m
        BY <2>6, <3>2, SetOf
      <4> QED
        BY <4>1
    <3>3. m < i \/ m > i
      BY <2>6, <2>13, SetOf
    <3> QED
      BY <3>1, <3>2, <3>3
  <2>14. q[i] = c /\ \A m \in DOMAIN q : m # i => q[m] # c
    <3>1. q[i] = c
      BY <2>3, <2>4
    <3>2. ASSUME NEW m \in DOMAIN q, m # i PROVE q[m] # q[i]
      <4>1. m \in Nat /\ i \in Nat /\ q[m] \in Nat /\ q[i] \in Nat
        BY <2>6, SetOf
      <4>2. m < i \/ i < m
        BY <3>2, <4>1
      <4> QED
        BY <2>4, <4>1, <4>2 DEF Rising
    <3> QED
      BY <3>1, <3>2
  <2>10. \A n, m \in 1 .. Len(q) - 1 : n < m => old(n) < old(m)
    BY <2>6
  <2> HIDE DEF old
  <2>11. Rising(r)
    BY <2>7, <2>8, <2>9, <2>10 DEF Rising
  <2>12. ToSet(r) = ToSet(q) \ {c}
    <3>1. \A n \in DOMAIN r : r[n] \in ToSet(q) \ {c}
      BY <2>7, <2>8, <2>9, <2>14, SetOf, Zenon
    <3>2. ASSUME NEW x \in ToSet(q) \ {c} PROVE \E n \in DOMAIN r : r[n] = x
      <4>1. PICK m \in DOMAIN q : q[m] = x /\ m # i
        BY <2>14, SetOf
      <4> QED
        BY <2>7, <2>8, <2>13, <4>1
    <3> QED
      BY <3>1, <3>2 DEF ToSet
  <2> QED
    BY <2>5, <2>7, <2>11, <2>12
<1> QED
  BY <1>1, <1>2

-----------------------------------------------------------------------------
(* What prunes and what detaches *)

LEMMA CallsAreNumbers == Calls \in SUBSET Nat /\ 0 \in Nat
BY McpBridgeAssumption DEF Calls

LEMMA PrunedTyped ==
    ASSUME Typed
    PROVE  /\ Pruned \in [Views -> BrokerViews] /\ NoView \in BrokerViews
           /\ \A v \in Views : Pruned[v].queue \in {view[v].queue, <<>>}
<1>1. NoView \in BrokerViews /\ NoView.queue = <<>>
  <2>1. <<>> \in Seq(Nat)
    OBVIOUS
  <2> QED
    BY <2>1 DEF NoView, BrokerViews
<1> QED
  BY <1>1 DEF Pruned, Typed

LEMMA DetachedTyped ==
    ASSUME Typed
    PROVE  /\ Detached \in [Streams -> Handlers]
           /\ \A s \in Streams : Detached[s] = [stream[s] EXCEPT !.own = Detached[s].own]
<1>1. ASSUME NEW s \in Streams
      PROVE  Detached[s] \in Handlers /\ Detached[s] = [stream[s] EXCEPT !.own = Detached[s].own]
  <2> DEFINE b == stream[s].own /\ ~Prunable(stream[s].view)
  <2>1. stream[s] \in Handlers
    BY DEF Typed
  <2>2. b \in BOOLEAN
    OBVIOUS
  <2>3. Detached[s] = [stream[s] EXCEPT !.own = b]
    BY DEF Detached
  <2> HIDE DEF b
  <2>4. [stream[s] EXCEPT !.own = b] \in Handlers
    BY <2>1, <2>2 DEF Handlers
  <2>5. Detached[s].own = b
    BY <2>1, <2>3 DEF Handlers
  <2> QED
    BY <2>3, <2>4, <2>5
<1>2. DOMAIN Detached = Streams /\ Detached = [s \in Streams |-> Detached[s]]
  BY DEF Detached
<1> QED
  BY <1>1, <1>2

-----------------------------------------------------------------------------
(* Steps that move no command forward *)

\* Queues only shrink, connections only end, the page's part stays.
QueuesShrink == \A v \in Views : /\ Rising(view'[v].queue)
                                 /\ ToSet(view'[v].queue) \subseteq ToSet(view[v].queue)

PagesKeep == \A v \in Views : /\ page'[v].inbox = page[v].inbox
                              /\ page'[v].log = page[v].log
                              /\ page'[v].tracked = page[v].tracked

StreamsKeep == \A s \in Streams :
    /\ stream'[s].alive => stream[s].alive /\ stream'[s].view = stream[s].view
    /\ stream'[s].at = "writing" => stream[s].at = "writing" /\ stream'[s].head = stream[s].head

LEMMA QuietKeeps ==
    ASSUME IInv, Typed', QueuesShrink, PagesKeep, StreamsKeep, Issued' = Issued
    PROVE  IInv'
<1> USE DEF IInv
<1>1. \A v \in Views : Inbox(v)' = Inbox(v) /\ Log(v)' = Log(v) /\ Queue(v)' \subseteq Queue(v)
  BY DEF PagesKeep, QueuesShrink, Inbox, Log, Queue
<1>2. Numbered'
  BY DEF Numbered
<1>3. KnownCalls'
  BY <1>1 DEF KnownCalls, StreamsKeep
<1>4. QueueRises'
  BY DEF QueueRises, QueuesShrink
<1>5. QueueBehind'
  BY <1>1 DEF QueueBehind
<1>6. OneConnection'
  BY DEF OneConnection, StreamsKeep
<1>7. HeadBetween'
  <2> SUFFICES ASSUME NEW s \in Streams, Writing(s)'
               PROVE  /\ AllUpTo(Inbox(stream[s].view) \union Log(stream[s].view), stream[s].head)'
                      /\ \A y \in Queue(stream[s].view)' : stream'[s].head <= y
    BY DEF HeadBetween
  <2>1. Writing(s) /\ stream'[s].view = stream[s].view /\ stream'[s].head = stream[s].head
    BY DEF StreamsKeep, Writing
  <2>2. stream[s].view \in Views
    BY DEF Typed, Handlers
  <2> QED
    BY <1>1, <2>1, <2>2 DEF HeadBetween, AllUpTo
<1>8. InboxSorted' /\ LastTracked' /\ AppliedInOrder'
  BY DEF InboxSorted, LastTracked, AppliedInOrder, PagesKeep
<1>9. InboxAfterLog'
  BY <1>1 DEF InboxAfterLog
<1> QED
  BY <1>2, <1>3, <1>4, <1>5, <1>6, <1>7, <1>8, <1>9

LEMMA ViewsStay == ASSUME IInv, UNCHANGED view PROVE QueuesShrink
BY DEF IInv, QueueRises, QueuesShrink

LEMMA PagesStay == ASSUME UNCHANGED page PROVE PagesKeep
BY DEF PagesKeep

LEMMA StreamsStay == ASSUME UNCHANGED stream PROVE StreamsKeep
BY DEF StreamsKeep

LEMMA StatusStays == ASSUME UNCHANGED status PROVE Issued' = Issued
BY DEF Issued

LEMMA PruningShrinks ==
    ASSUME IInv, \A v \in Views : view'[v].queue = Pruned[v].queue
    PROVE  QueuesShrink
<1>1. Rising(<<>>) /\ ToSet(<<>>) = {}
  BY DEF Rising, ToSet
<1> QED
  BY <1>1, PrunedTyped DEF IInv, QueueRises, QueuesShrink

LEMMA DetachingKeeps == ASSUME IInv, stream' = Detached PROVE StreamsKeep
<1> SUFFICES ASSUME NEW s \in Streams
             PROVE  /\ stream'[s].alive = stream[s].alive /\ stream'[s].view = stream[s].view
                    /\ stream'[s].at = stream[s].at /\ stream'[s].head = stream[s].head
  BY DEF StreamsKeep
<1>1. stream[s] \in Handlers /\ stream'[s] = [stream[s] EXCEPT !.own = stream'[s].own]
  BY DetachedTyped DEF IInv, Typed
<1> QED
  BY <1>1 DEF Handlers

LEMMA LookKeeps == ASSUME IInv, Look PROVE IInv'
<1>1. Typed'
  BY PrunedTyped, DetachedTyped DEF IInv, Typed, Look
<1>2. QueuesShrink /\ PagesKeep /\ StreamsKeep /\ Issued' = Issued
  BY PruningShrinks, DetachingKeeps, PagesStay, StatusStays DEF Look
<1> QED
  BY <1>1, <1>2, QuietKeeps

\* The command of a call leaves the queue it is in.
LEMMA LeavingShrinks ==
    ASSUME IInv, NEW c \in Calls, Leaves(c)
    PROVE  QueuesShrink /\ view' \in [Views -> BrokerViews]
<1>1. target[c] \in Views /\ view \in [Views -> BrokerViews]
  BY DEF IInv, Typed
<1> DEFINE v == target[c]
           q == Without(view[v].queue, c)
<1>2. q \in Seq(Nat) /\ Rising(q) /\ ToSet(q) \subseteq ToSet(view[v].queue)
  <2>1. view[v].queue \in Seq(Nat) /\ Rising(view[v].queue)
    BY <1>1 DEF IInv, QueueRises, BrokerViews
  <2> QED
    BY <2>1, Thinned
<1>3. view' = [view EXCEPT ![v] = [view[v] EXCEPT !.queue = q]]
  BY DEF Leaves
<1> HIDE DEF q
<1>4. view[v] \in BrokerViews
  BY <1>1
<1>5. [view[v] EXCEPT !.queue = q] \in BrokerViews /\ [view[v] EXCEPT !.queue = q].queue = q
  BY <1>2, <1>4 DEF BrokerViews
<1> HIDE DEF v
<1>6. view' \in [Views -> BrokerViews]
  BY <1>1, <1>3, <1>5
<1>7. v \in Views
  BY <1>1 DEF v
<1>8. QueuesShrink
  BY <1>1, <1>2, <1>3, <1>5, <1>7 DEF IInv, QueueRises, QueuesShrink
<1> QED
  BY <1>6, <1>8

\* A call that was made stays one that was made.
LEMMA EndingKeepsIssued ==
    ASSUME IInv, NEW c \in Calls, status[c] # "new", NEW r \in {"answered", "ended"},
           status' = [status EXCEPT ![c] = r]
    PROVE  Issued' = Issued /\ status' \in [Calls -> {"new", "pending", "answered", "ended"}]
<1>1. status \in [Calls -> {"new", "pending", "answered", "ended"}]
  BY DEF IInv, Typed
<1> QED
  BY <1>1 DEF Issued

LEMMA AbandonKeeps == ASSUME IInv, NEW c \in Calls, Abandon(c) PROVE IInv'
<1>1. /\ status[c] = "pending" /\ status' = [status EXCEPT ![c] = "ended"] /\ Leaves(c)
      /\ UNCHANGED <<target, stream, page, net>>
  BY DEF Abandon
<1>2. QueuesShrink /\ view' \in [Views -> BrokerViews]
  BY <1>1, LeavingShrinks
<1>3. Issued' = Issued /\ status' \in [Calls -> {"new", "pending", "answered", "ended"}]
  BY <1>1, EndingKeepsIssued
<1>4. Typed'
  BY <1>1, <1>2, <1>3 DEF IInv, Typed
<1> QED
  BY <1>1, <1>2, <1>3, <1>4, QuietKeeps, PagesStay, StreamsStay

LEMMA CloseKeeps == ASSUME IInv, Close PROVE IInv'
<1>1. /\ view' = [v \in Views |-> NoView] /\ UNCHANGED <<target, page, net>>
      /\ status' = [c \in Calls |-> IF status[c] = "pending" THEN "ended" ELSE status[c]]
      /\ stream' = [s \in Streams |-> [stream[s] EXCEPT !.own = FALSE]]
  BY DEF Close
<1>2. status' \in [Calls -> {"new", "pending", "answered", "ended"}] /\ Issued' = Issued
  BY <1>1 DEF IInv, Typed, Issued
<1>3. ASSUME NEW s \in Streams
      PROVE  /\ stream'[s] \in Handlers
             /\ stream'[s].alive = stream[s].alive /\ stream'[s].view = stream[s].view
             /\ stream'[s].at = stream[s].at /\ stream'[s].head = stream[s].head
  <2>1. stream[s] \in Handlers /\ stream'[s] = [stream[s] EXCEPT !.own = FALSE]
    BY <1>1 DEF IInv, Typed
  <2> QED
    BY <2>1 DEF Handlers
<1>4. stream' \in [Streams -> Handlers]
  BY <1>1, <1>3
<1>5. Typed'
  BY <1>1, <1>2, <1>4, PrunedTyped DEF IInv, Typed
<1>6. QueuesShrink
  <2>1. \A v \in Views : view'[v].queue = <<>>
    BY <1>1 DEF NoView
  <2> QED
    BY <2>1 DEF QueuesShrink, Rising, ToSet
<1>7. StreamsKeep
  BY <1>3 DEF StreamsKeep
<1> QED
  BY <1>1, <1>2, <1>5, <1>6, <1>7, QuietKeeps, PagesStay

LEMMA GoesStaleKeeps == ASSUME IInv, NEW v \in Views, GoesStale(v) PROVE IInv'
<1>1. view' = [view EXCEPT ![v].fresh = FALSE] /\ UNCHANGED <<status, target, stream, page, net>>
  BY DEF GoesStale
<1>2. ASSUME NEW w \in Views PROVE view'[w] \in BrokerViews /\ view'[w].queue = view[w].queue
  <2>1. view[w] \in BrokerViews /\ view'[w] = IF w = v THEN [view[w] EXCEPT !.fresh = FALSE] ELSE view[w]
    BY <1>1 DEF IInv, Typed
  <2> QED
    BY <2>1 DEF BrokerViews
<1>3. view' \in [Views -> BrokerViews]
  BY <1>1, <1>2 DEF IInv, Typed
<1>4. Typed'
  BY <1>1, <1>3 DEF IInv, Typed
<1>5. QueuesShrink
  BY <1>2 DEF IInv, QueueRises, QueuesShrink
<1> QED
  BY <1>1, <1>4, <1>5, QuietKeeps, PagesStay, StreamsStay, StatusStays

-----------------------------------------------------------------------------
(* Quiet steps of the streams *)

\* A handler that goes on as r: r holds nothing new.
LEMMA HandlerKeeps ==
    ASSUME IInv, NEW s \in Streams, NEW r \in Handlers, stream' = [stream EXCEPT ![s] = r],
           r.alive => stream[s].alive /\ r.view = stream[s].view, r.at # "writing",
           UNCHANGED <<view, status, target, page, net>>
    PROVE  IInv'
<1>1. Typed'
  BY DEF IInv, Typed
<1>2. StreamsKeep
  BY DEF IInv, Typed, StreamsKeep
<1> QED
  BY <1>1, <1>2, QuietKeeps, ViewsStay, PagesStay, StatusStays

LEMMA NoStreamTyped == \A v \in Views : NoStream(v) \in Handlers /\ ~NoStream(v).alive
                                        /\ NoStream(v).at # "writing" /\ NoStream(v).view = v
BY CallsAreNumbers DEF NoStream, Handlers

LEMMA WaitingStepKeeps ==
    ASSUME IInv, NEW s \in Streams, Wake(s) \/ Tick(s) \/ Gone(s)
    PROVE  IInv'
<1>1. stream[s] \in Handlers /\ stream[s].view \in Views
  BY DEF IInv, Typed, Handlers
<1>2. CASE Wake(s) \/ Tick(s)
  <2> DEFINE r == [stream[s] EXCEPT !.at = "reading"]
  <2>1. r \in Handlers /\ r.alive = stream[s].alive /\ r.view = stream[s].view /\ r.at = "reading"
    BY <1>1 DEF Handlers
  <2>2. stream' = [stream EXCEPT ![s] = r] /\ UNCHANGED <<view, status, target, page, net>>
    BY <1>2 DEF Wake, Tick, StreamStep, brokerVars
  <2> HIDE DEF r
  <2> QED
    BY <2>1, <2>2, HandlerKeeps
<1>3. CASE Gone(s)
  <2> DEFINE r == NoStream(stream[s].view)
  <2>1. stream' = [stream EXCEPT ![s] = r] /\ UNCHANGED <<view, status, target, page, net>>
    BY <1>3 DEF Gone, StreamStep, brokerVars
  <2>2. r \in Handlers /\ ~r.alive /\ r.at # "writing"
    BY <1>1, NoStreamTyped
  <2> HIDE DEF r
  <2> QED
    BY <2>1, <2>2, HandlerKeeps
<1> QED
  BY <1>2, <1>3

LEMMA BreakKeeps == ASSUME IInv, NEW s \in Streams, Break(s) PROVE IInv'
<1>1. stream' = [stream EXCEPT ![s].alive = FALSE] /\ UNCHANGED <<view, status, target, page, net>>
  BY DEF Break, brokerVars
<1>2. ASSUME NEW t \in Streams
      PROVE  /\ stream'[t] \in Handlers
             /\ stream'[t].alive => stream[t].alive
             /\ stream'[t].view = stream[t].view
             /\ stream'[t].at = stream[t].at /\ stream'[t].head = stream[t].head
  <2>1. stream[t] \in Handlers
        /\ stream'[t] = IF t = s THEN [stream[t] EXCEPT !.alive = FALSE] ELSE stream[t]
    BY <1>1 DEF IInv, Typed
  <2> QED
    BY <2>1 DEF Handlers
<1>3. stream' \in [Streams -> Handlers]
  BY <1>1, <1>2 DEF IInv, Typed
<1>4. Typed'
  BY <1>1, <1>3 DEF IInv, Typed
<1>5. StreamsKeep
  BY <1>2 DEF StreamsKeep
<1> QED
  BY <1>1, <1>4, <1>5, QuietKeeps, ViewsStay, PagesStay, StatusStays

-----------------------------------------------------------------------------
(* Quiet steps of the pages *)

\* A page that goes on as p: what was delivered and applied stays.
SamePart(p, q) == p.inbox = q.inbox /\ p.log = q.log /\ p.tracked = q.tracked

LEMMA PageKeeps ==
    ASSUME IInv, NEW v \in Views, NEW p \in Pages, SamePart(p, page[v]),
           page' = [page EXCEPT ![v] = p]
    PROVE  PagesKeep /\ page' \in [Views -> Pages]
BY DEF IInv, Typed, PagesKeep, SamePart

LEMMA PublishedTyped ==
    ASSUME IInv, NEW v \in Views, NEW p \in Pages, Published(v, p)
    PROVE  /\ net' \in [Views -> SUBSET Publishes]
           /\ \E r \in Pages : SamePart(r, p) /\ page' = [page EXCEPT ![v] = r]
<1> DEFINE n == page[v].seq + 1
           m == [seq |-> n, snap |-> Len(p.log)]
           r == [p EXCEPT !.seq = n]
<1>1. page[v].seq \in Nat /\ p.log \in Seq(Nat) /\ net[v] \subseteq Publishes
  BY DEF IInv, Typed, Pages
<1>2. n \in Nat /\ Len(p.log) \in Nat
  BY <1>1
<1>3. m \in Publishes
  BY <1>2 DEF Publishes
<1>4. net' = [net EXCEPT ![v] = net[v] \union {m}] /\ page' = [page EXCEPT ![v] = r]
  BY DEF Published
<1> HIDE DEF n, m
<1>5. r \in Pages /\ SamePart(r, p)
  BY <1>2 DEF Pages, SamePart
<1> HIDE DEF r
<1>6. net' \in [Views -> SUBSET Publishes]
  BY <1>1, <1>3, <1>4 DEF IInv, Typed
<1> QED
  BY <1>4, <1>5, <1>6

LEMMA PublishingKeeps ==
    ASSUME IInv, NEW v \in Views, NEW p \in Pages, SamePart(p, page[v]), Published(v, p),
           UNCHANGED <<view, status, target, stream>>
    PROVE  IInv'
<1>1. PICK r \in Pages : SamePart(r, p) /\ page' = [page EXCEPT ![v] = r]
  BY PublishedTyped
<1>2. PagesKeep /\ page' \in [Views -> Pages]
  <2>1. SamePart(r, page[v])
    BY <1>1 DEF SamePart
  <2> QED
    BY <1>1, <2>1, PageKeeps
<1>3. Typed'
  BY <1>2, PublishedTyped DEF IInv, Typed
<1> QED
  BY <1>2, <1>3, QuietKeeps, ViewsStay, StreamsStay, StatusStays

LEMMA HeartbeatKeeps == ASSUME IInv, NEW v \in Views, Heartbeat(v) PROVE IInv'
<1>1. page[v] \in Pages /\ SamePart(page[v], page[v])
  BY DEF IInv, Typed, SamePart
<1> QED
  BY <1>1, PublishingKeeps DEF Heartbeat, brokerVars

LEMMA PublishAgainKeeps == ASSUME IInv, NEW v \in Views, PublishAgain(v) PROVE IInv'
<1> DEFINE n == page[v].seq + 1
           p == [page[v] EXCEPT !.await = n]
<1>1. page[v] \in Pages /\ n \in Nat
  BY DEF IInv, Typed, Pages
<1>2. Published(v, p) /\ UNCHANGED <<view, status, target, stream>>
  BY DEF PublishAgain, brokerVars
<1> HIDE DEF n
<1>3. p \in Pages /\ SamePart(p, page[v])
  BY <1>1 DEF Pages, SamePart
<1> HIDE DEF p
<1> QED
  BY <1>2, <1>3, PublishingKeeps

LEMMA PageStepKeeps ==
    ASSUME IInv, NEW v \in Views, NEW p \in Pages, SamePart(p, page[v]),
           page' = [page EXCEPT ![v] = p], UNCHANGED <<view, status, target, stream, net>>
    PROVE  IInv'
<1>1. PagesKeep /\ page' \in [Views -> Pages]
  BY PageKeeps
<1>2. Typed'
  BY <1>1 DEF IInv, Typed
<1> QED
  BY <1>1, <1>2, QuietKeeps, ViewsStay, StreamsStay, StatusStays

LEMMA GivingUpKeeps ==
    ASSUME IInv, NEW v \in Views, PublishGivesUp(v) \/ SubmitGivesUp(v)
    PROVE  IInv'
<1>1. page[v] \in Pages
  BY DEF IInv, Typed
<1>2. PICK a \in {"submitting", "idle"} : page' = [page EXCEPT ![v] = [page[v] EXCEPT !.at = a]]
  BY DEF PublishGivesUp, SubmitGivesUp
<1>3. UNCHANGED <<view, status, target, stream, net>>
  BY DEF PublishGivesUp, SubmitGivesUp, brokerVars
<1> DEFINE p == [page[v] EXCEPT !.at = a]
<1>4. p \in Pages /\ SamePart(p, page[v])
  BY <1>1 DEF Pages, SamePart
<1> HIDE DEF p
<1>5. page' = [page EXCEPT ![v] = p]
  BY <1>2 DEF p
<1> QED
  BY <1>3, <1>4, <1>5, PageStepKeeps

\* What a posted result does to the broker.
LEMMA ResultShrinks ==
    ASSUME IInv, NEW v \in Views, HandleResult(v)
    PROVE  /\ QueuesShrink /\ view' \in [Views -> BrokerViews] /\ Issued' = Issued
           /\ status' \in [Calls -> {"new", "pending", "answered", "ended"}]
           /\ target' = target
<1> DEFINE c == page[v].cur
<1>1. CASE c \in Pending(v)
  <2>1. c \in Calls /\ status[c] # "new"
    BY <1>1 DEF Pending
  <2>2. status' = [status EXCEPT ![c] = "answered"] /\ Leaves(c) /\ target' = target
    BY <1>1 DEF HandleResult
  <2> HIDE DEF c
  <2> QED
    BY <2>1, <2>2, LeavingShrinks, EndingKeepsIssued
<1>2. CASE c \notin Pending(v)
  <2>1. UNCHANGED <<view, status, target>>
    BY <1>2 DEF HandleResult, brokerVars
  <2> QED
    BY <2>1, ViewsStay, StatusStays DEF IInv, Typed
<1> QED
  BY <1>1, <1>2

LEMMA SubmitKeeps == ASSUME IInv, NEW v \in Views, Submit(v) PROVE IInv'
<1>1. page[v] \in Pages
  BY DEF IInv, Typed
<1> DEFINE p == [page[v] EXCEPT !.at = "idle", !.unsent = page[v].unsent \ {page[v].cur}]
<1>2. HandleResult(v) /\ page' = [page EXCEPT ![v] = p] /\ UNCHANGED <<stream, net>>
  BY DEF Submit
<1>3. p \in Pages /\ SamePart(p, page[v])
  BY <1>1 DEF Pages, SamePart
<1> HIDE DEF p
<1>4. PagesKeep /\ page' \in [Views -> Pages]
  BY <1>2, <1>3, PageKeeps
<1>5. Typed'
  BY <1>2, <1>4, ResultShrinks DEF IInv, Typed
<1> QED
  BY <1>2, <1>4, <1>5, ResultShrinks, QuietKeeps, StreamsStay

LEMMA SubmitUnansweredKeeps == ASSUME IInv, NEW v \in Views, SubmitUnanswered(v) PROVE IInv'
<1>1. HandleResult(v) /\ UNCHANGED <<stream, page, net>>
  BY DEF SubmitUnanswered
<1>2. Typed'
  BY <1>1, ResultShrinks DEF IInv, Typed
<1> QED
  BY <1>1, <1>2, ResultShrinks, QuietKeeps, StreamsStay, PagesStay

LEMMA HandleViewQueues ==
    ASSUME IInv, NEW v \in Views, NEW m \in net[v], HandleView(v, m)
    PROVE  view' \in [Views -> BrokerViews] /\ \A w \in Views : view'[w].queue = Pruned[w].queue
<1>1. Pruned \in [Views -> BrokerViews] /\ Pruned[v] \in BrokerViews
  BY PrunedTyped DEF IInv
<1>2. m \in Publishes
  BY DEF IInv, Typed
<1> DEFINE r == [seq |-> m.seq, snap |-> m.snap, queue |-> Pruned[v].queue, fresh |-> TRUE]
<1>3. r \in BrokerViews /\ r.queue = Pruned[v].queue
  BY <1>1, <1>2 DEF BrokerViews, Publishes
<1>4. view' = Pruned \/ view' = [Pruned EXCEPT ![v] = r]
  BY DEF HandleView
<1> HIDE DEF r
<1> QED
  BY <1>1, <1>3, <1>4

LEMMA HandleViewKeeps ==
    ASSUME IInv, NEW v \in Views, NEW m \in net[v], HandleView(v, m)
    PROVE  IInv'
<1>1. /\ net' = [net EXCEPT ![v] = net[v] \ {m}] /\ stream' = Detached
      /\ UNCHANGED <<status, target>>
  BY DEF HandleView
<1>2. net' \in [Views -> SUBSET Publishes] /\ m \in Publishes
  BY <1>1 DEF IInv, Typed
<1>3. PagesKeep /\ page' \in [Views -> Pages]
  <2>1. page[v] \in Pages
    BY DEF IInv, Typed
  <2> DEFINE p == [page[v] EXCEPT !.at = "submitting"]
  <2>2. p \in Pages /\ SamePart(p, page[v])
    BY <2>1 DEF Pages, SamePart
  <2>3. page' = page \/ page' = [page EXCEPT ![v] = p]
    BY DEF HandleView, PublishAnswered
  <2> HIDE DEF p
  <2> QED
    BY <2>2, <2>3, PageKeeps, PagesStay DEF IInv, Typed
<1>4. view' \in [Views -> BrokerViews] /\ \A w \in Views : view'[w].queue = Pruned[w].queue
  BY HandleViewQueues
<1>5. stream' \in [Streams -> Handlers]
  BY <1>1, DetachedTyped DEF IInv
<1>6. Typed'
  BY <1>1, <1>2, <1>3, <1>4, <1>5 DEF IInv, Typed
<1> QED
  BY <1>1, <1>3, <1>4, <1>6, QuietKeeps, PruningShrinks, DetachingKeeps, StatusStays

-----------------------------------------------------------------------------
(* Connections: Open, Peek, Write *)

\* A handler that goes on as r: r may be a new connection or a new command.
LEMMA ConnectionKeeps ==
    ASSUME IInv, NEW s \in Streams, NEW r \in Handlers, stream' = [stream EXCEPT ![s] = r],
           r.alive => \A t \in Streams \ {s} : stream[t].alive => stream[t].view # r.view,
           r.at = "writing" =>
              /\ r.head \in Issued
              /\ \A x \in Inbox(r.view) \union Log(r.view) : x <= r.head
              /\ \A y \in Queue(r.view) : r.head <= y,
           UNCHANGED <<view, status, target, page, net>>
    PROVE  IInv'
<1>1. stream \in [Streams -> Handlers] /\ \A t \in Streams : stream'[t] = IF t = s THEN r ELSE stream[t]
  BY DEF IInv, Typed
<1>2. Typed'
  BY DEF IInv, Typed
<1>3. Issued' = Issued /\ \A v : Inbox(v)' = Inbox(v) /\ Log(v)' = Log(v) /\ Queue(v)' = Queue(v)
  BY DEF Issued, Inbox, Log, Queue
<1>4. Numbered' /\ QueueRises' /\ QueueBehind' /\ InboxAfterLog'
  BY <1>3 DEF IInv, Numbered, QueueRises, QueueBehind, InboxAfterLog
<1>5. InboxSorted' /\ LastTracked' /\ AppliedInOrder'
  BY DEF IInv, InboxSorted, LastTracked, AppliedInOrder
<1>6. KnownCalls'
  BY <1>1, <1>3 DEF IInv, KnownCalls
<1>7. OneConnection'
  BY <1>1 DEF IInv, OneConnection
<1>8. HeadBetween'
  <2> SUFFICES ASSUME NEW t \in Streams, Writing(t)'
               PROVE  /\ AllUpTo(Inbox(stream'[t].view) \union Log(stream'[t].view), stream'[t].head)
                      /\ \A y \in Queue(stream'[t].view) : stream'[t].head <= y
    BY <1>3 DEF HeadBetween
  <2>1. CASE t = s
    BY <1>1, <2>1 DEF Writing, AllUpTo
  <2>2. CASE t # s
    BY <1>1, <2>2 DEF IInv, HeadBetween, Writing
  <2> QED
    BY <2>1, <2>2
<1> QED
  BY <1>2, <1>4, <1>5, <1>6, <1>7, <1>8 DEF IInv

LEMMA OpenKeeps == ASSUME IInv, NEW s \in Streams, NEW v \in Views, Open(s, v) PROVE IInv'
<1> DEFINE r == [NoStream(v) EXCEPT !.at = "reading", !.own = TRUE, !.alive = TRUE]
<1>1. r \in Handlers /\ r.view = v /\ r.at = "reading"
  <2> DEFINE n == NoStream(v)
  <2>1. n \in Handlers /\ n.view = v
    BY NoStreamTyped
  <2> HIDE DEF n
  <2>2. /\ [n EXCEPT !.at = "reading", !.own = TRUE, !.alive = TRUE] \in Handlers
        /\ [n EXCEPT !.at = "reading", !.own = TRUE, !.alive = TRUE].view = v
        /\ [n EXCEPT !.at = "reading", !.own = TRUE, !.alive = TRUE].at = "reading"
    BY <2>1 DEF Handlers
  <2> QED
    BY <2>2 DEF n
<1>2. stream' = [stream EXCEPT ![s] = r] /\ ~Attached(v) /\ UNCHANGED <<view, status, target, page, net>>
  BY DEF Open, brokerVars
<1>3. \A t \in Streams : stream[t].alive => stream[t].view # v
  BY <1>2 DEF Attached
<1> HIDE DEF r
<1> QED
  BY <1>1, <1>2, <1>3, ConnectionKeeps

LEMMA PeekKeeps == ASSUME IInv, NEW s \in Streams, Peek(s) PROVE IInv'
<1> DEFINE v == stream[s].view
           q == view[v].queue
<1>1. stream[s] \in Handlers /\ v \in Views
  BY DEF IInv, Typed, Handlers
<1>2. q \in Seq(Nat)
  BY <1>1 DEF IInv, Typed, BrokerViews
<1>3. UNCHANGED <<view, status, target, page, net>>
  BY DEF Peek, StreamStep, brokerVars
<1>4. CASE stream' = [stream EXCEPT ![s] = NoStream(v)]
  <2> DEFINE r == NoStream(v)
  <2>1. r \in Handlers /\ ~r.alive /\ r.at # "writing"
    BY <1>1, NoStreamTyped
  <2> HIDE DEF r, v
  <2>2. stream' = [stream EXCEPT ![s] = r]
    BY <1>4 DEF r
  <2> QED
    BY <1>3, <2>1, <2>2, HandlerKeeps
<1>5. CASE stream' = [stream EXCEPT ![s] = [stream[s] EXCEPT !.at = "waiting"]]
  <2> DEFINE r == [stream[s] EXCEPT !.at = "waiting"]
  <2>1. r \in Handlers /\ r.alive = stream[s].alive /\ r.view = stream[s].view /\ r.at = "waiting"
    BY <1>1 DEF Handlers
  <2> HIDE DEF r
  <2>2. stream' = [stream EXCEPT ![s] = r]
    BY <1>5 DEF r
  <2> QED
    BY <1>3, <2>1, <2>2, HandlerKeeps
<1>6. CASE q # <<>> /\ stream' = [stream EXCEPT ![s] = [stream[s] EXCEPT !.at = "writing", !.head = Head(q)]]
  <2> DEFINE h == Head(q)
             r == [stream[s] EXCEPT !.at = "writing", !.head = h]
  <2>1. h \in Queue(v) /\ Rising(q) /\ h \in Nat
    BY <1>1, <1>2, <1>6, FirstTaken, SetOf DEF IInv, QueueRises, Queue
  <2>2. /\ h \in Issued /\ \A x \in Inbox(v) \union Log(v) : x <= h
        /\ \A y \in Queue(v) : h <= y
    BY <1>1, <1>2, <1>6, <2>1, FirstTaken DEF IInv, KnownCalls, QueueBehind, Queue
  <2> HIDE DEF h, q
  <2>3. /\ r \in Handlers /\ r.alive = stream[s].alive /\ r.view = v /\ r.head = h
    BY <1>1, <2>1 DEF Handlers
  <2>4. r.alive => \A t \in Streams \ {s} : stream[t].alive => stream[t].view # r.view
    BY <2>3 DEF IInv, OneConnection
  <2> HIDE DEF r, v
  <2>5. stream' = [stream EXCEPT ![s] = r]
    BY <1>6 DEF r, h
  <2> QED
    BY <1>3, <2>2, <2>3, <2>4, <2>5, ConnectionKeeps
<1> QED
  BY <1>4, <1>5, <1>6 DEF Peek, StreamStep

LEMMA WriteKeeps == ASSUME IInv, NEW s \in Streams, Write(s) PROVE IInv'
<1> DEFINE v == stream[s].view
           h == stream[s].head
           r == [stream[s] EXCEPT !.at = "waiting", !.delivered = h]
           p == [page[v] EXCEPT !.inbox = Append(page[v].inbox, h)]
<1>1. stream[s] \in Handlers /\ v \in Views /\ h \in Nat
  BY DEF IInv, Typed, Handlers
<1>2. r \in Handlers /\ r.alive = stream[s].alive /\ r.view = v /\ r.at = "waiting"
  BY <1>1 DEF Handlers
<1>3. /\ stream' = [stream EXCEPT ![s] = r] /\ UNCHANGED <<view, status, target, net>>
      /\ stream[s].at = "writing"
      /\ page' = IF stream[s].alive THEN [page EXCEPT ![v] = p] ELSE page
  BY DEF Write, StreamStep, brokerVars
<1> HIDE DEF r
<1>4. CASE ~stream[s].alive
  BY <1>2, <1>3, <1>4, HandlerKeeps
<1>5. CASE stream[s].alive
  <2>1. page[v] \in Pages /\ page[v].inbox \in Seq(Nat)
    BY <1>1 DEF IInv, Typed, Pages
  <2>2. /\ Append(page[v].inbox, h) \in Seq(Nat)
        /\ ToSet(Append(page[v].inbox, h)) = Inbox(v) \union {h}
        /\ Sorted(page[v].inbox) /\ (\A x \in Inbox(v) : x <= h) => Sorted(Append(page[v].inbox, h))
    BY <1>1, <2>1, AddedLast DEF Inbox
  <2> DEFINE q == Append(page[v].inbox, h)
  <2> HIDE DEF q
  <2>3. p \in Pages /\ p.inbox = q /\ p.log = page[v].log /\ p.tracked = page[v].tracked
    BY <2>1, <2>2 DEF Pages, q
  <2> HIDE DEF p
  <2>4. /\ h \in Issued /\ \A x \in Inbox(v) \union Log(v) : x <= h
        /\ \A y \in Queue(v) : h <= y
    BY <1>1, <1>3, <1>5 DEF IInv, KnownCalls, HeadBetween, Writing, AllUpTo
  <2>5. /\ stream' \in [Streams -> Handlers]
        /\ \A t \in Streams : stream'[t] = IF t = s THEN r ELSE stream[t]
    BY <1>2, <1>3 DEF IInv, Typed
  <2>6. page' \in [Views -> Pages] /\ \A w \in Views : page'[w] = IF w = v THEN p ELSE page[w]
    BY <1>1, <1>3, <1>5, <2>3 DEF IInv, Typed
  <2>7. Typed'
    BY <1>3, <2>5, <2>6 DEF IInv, Typed
  <2> HIDE DEF h
  <2>8. /\ Issued' = Issued /\ \A w \in Views : Log(w)' = Log(w) /\ Queue(w)' = Queue(w)
        /\ \A w \in Views : Inbox(w)' = IF w = v THEN Inbox(w) \union {h} ELSE Inbox(w)
    BY <1>3, <2>2, <2>3, <2>6 DEF Issued, Inbox, Log, Queue, q
  <2> HIDE DEF v
  <2>9. Numbered' /\ QueueRises'
    BY <1>3, <2>8 DEF IInv, Numbered, QueueRises
  <2>10. QueueBehind' /\ InboxAfterLog'
    BY <2>4, <2>8 DEF IInv, QueueBehind, InboxAfterLog
  <2>11. KnownCalls'
    BY <1>2, <2>4, <2>5, <2>8 DEF IInv, KnownCalls
  <2>12. OneConnection'
    BY <1>2, <2>5 DEF IInv, OneConnection, v
  <2>13. HeadBetween'
    <3> SUFFICES ASSUME NEW t \in Streams, Writing(t)'
                 PROVE  /\ AllUpTo(Inbox(stream[t].view)' \union Log(stream[t].view)', stream'[t].head)
                        /\ \A y \in Queue(stream[t].view)' : stream'[t].head <= y
      BY DEF HeadBetween
    <3>1. t # s /\ Writing(t) /\ stream'[t] = stream[t] /\ stream[t].view # v
      BY <1>2, <1>5, <2>5 DEF Writing, IInv, OneConnection, v
    <3>2. stream[t].view \in Views
      BY DEF IInv, Typed, Handlers
    <3> QED
      BY <2>8, <3>1, <3>2 DEF IInv, HeadBetween
  <2>14. InboxSorted'
    BY <2>2, <2>3, <2>4, <2>6 DEF IInv, InboxSorted, q
  <2>15. LastTracked' /\ AppliedInOrder'
    BY <2>3, <2>6 DEF IInv, LastTracked, AppliedInOrder
  <2> QED
    BY <2>7, <2>9, <2>10, <2>11, <2>12, <2>13, <2>14, <2>15 DEF IInv
<1> QED
  BY <1>4, <1>5

-----------------------------------------------------------------------------
(* Commands: Call, Apply, Replay *)

\* A page that goes on as r: nothing that it did not have, and in order.
LEMMA PageMoves ==
    ASSUME IInv, NEW v \in Views, NEW r \in Pages, page' = [page EXCEPT ![v] = r],
           ToSet(r.inbox) \union ToSet(r.log) \subseteq Inbox(v) \union Log(v),
           Sorted(r.inbox), \A x \in ToSet(r.log), y \in ToSet(r.inbox) : x <= y,
           \A i, j \in DOMAIN r.log : i < j => r.log[i] < r.log[j],
           r.log # <<>> => r.tracked # <<>> /\ r.tracked[Len(r.tracked)] = r.log[Len(r.log)],
           UNCHANGED <<view, status, target, stream>>, net' \in [Views -> SUBSET Publishes]
    PROVE  IInv'
<1>1. page' \in [Views -> Pages] /\ \A w \in Views : page'[w] = IF w = v THEN r ELSE page[w]
  BY DEF IInv, Typed
<1>2. Typed'
  BY <1>1 DEF IInv, Typed
<1>3. /\ Issued' = Issued /\ \A w \in Views : Queue(w)' = Queue(w)
      /\ \A w \in Views : Inbox(w)' \union Log(w)' \subseteq Inbox(w) \union Log(w)
  BY <1>1 DEF Issued, Inbox, Log, Queue
<1>4. Numbered' /\ QueueRises'
  BY <1>3 DEF IInv, Numbered, QueueRises
<1>5. QueueBehind'
  BY <1>3 DEF IInv, QueueBehind
<1>6. KnownCalls'
  BY <1>3 DEF IInv, KnownCalls
<1>7. OneConnection'
  BY DEF IInv, OneConnection
<1>8. HeadBetween'
  <2> SUFFICES ASSUME NEW s \in Streams, Writing(s)
               PROVE  /\ AllUpTo(Inbox(stream[s].view)' \union Log(stream[s].view)', stream[s].head)
                      /\ \A y \in Queue(stream[s].view)' : stream[s].head <= y
    BY DEF HeadBetween, Writing
  <2>1. stream[s].view \in Views
    BY DEF IInv, Typed, Handlers
  <2> QED
    BY <1>3, <2>1 DEF IInv, HeadBetween, AllUpTo
<1>9. InboxSorted' /\ LastTracked' /\ AppliedInOrder'
  BY <1>1 DEF IInv, InboxSorted, LastTracked, AppliedInOrder
<1>10. InboxAfterLog'
  BY <1>1 DEF IInv, InboxAfterLog, Inbox, Log
<1> QED
  BY <1>2, <1>4, <1>5, <1>6, <1>7, <1>8, <1>9, <1>10 DEF IInv

\* The oldest command that the page remembers is forgotten, never the newest.
LEMMA NewestTracked ==
    ASSUME NEW q \in Seq(Nat), NEW c \in Nat
    PROVE  LET t == Tracked(q, c) IN t \in Seq(Nat) /\ t # <<>> /\ t[Len(t)] = c
<1>1. CASE Len(q) < MaxTracked
  BY <1>1, AddedLast DEF Tracked
<1>2. CASE ~(Len(q) < MaxTracked)
  <2>1. q # <<>> /\ Tail(q) \in Seq(Nat)
    BY <1>2, McpBridgeAssumption
  <2> QED
    BY <1>2, <2>1, AddedLast DEF Tracked
<1> QED
  BY <1>1, <1>2

LEMMA ApplyingKeeps ==
    ASSUME IInv, NEW v \in Views, NEW at \in {"publishing", "submitting"}, HasNext(v), ~IsRedelivery(v),
           NEW r \in Pages, SamePart(r, Applied(v, at)), page' = [page EXCEPT ![v] = r],
           UNCHANGED <<view, status, target, stream>>, net' \in [Views -> SUBSET Publishes]
    PROVE  IInv'
<1> DEFINE c == Head(page[v].inbox)
           log == page[v].log
           seen == page[v].tracked
<1>1. /\ page[v] \in Pages /\ page[v].inbox \in Seq(Nat) /\ page[v].inbox # <<>>
      /\ log \in Seq(Nat) /\ seen \in Seq(Nat)
  BY DEF IInv, Typed, Pages, HasNext
<1>2. /\ r.inbox = Tail(page[v].inbox) /\ r.log = Append(log, c) /\ r.tracked = Tracked(seen, c)
  BY <1>1 DEF SamePart, Applied, Pages
<1>3. /\ c \in Inbox(v) /\ ToSet(r.inbox) \subseteq Inbox(v) /\ c \in Nat
      /\ Sorted(r.inbox) /\ \A y \in Inbox(v) : c <= y
  BY <1>1, <1>2, FirstTaken, SetOf DEF IInv, InboxSorted, Inbox
<1>4. \A x \in Log(v) : x < c
  <2> SUFFICES ASSUME NEW x \in Log(v) PROVE x < c
    OBVIOUS
  <2>1. PICK i \in 1 .. Len(log) : log[i] = x
    BY <1>1, SetOf DEF Log
  <2>2. Len(log) \in 1 .. Len(log) /\ DOMAIN log = 1 .. Len(log) /\ log # <<>>
    BY <1>1, <2>1
  <2> DEFINE last == log[Len(log)]
  <2>3. last \in Log(v) /\ last <= c /\ last \in Nat
    <3>1. last \in Log(v) /\ last \in Nat
      BY <1>1, <2>2, SetOf DEF Log
    <3> HIDE DEF last
    <3> QED
      BY <1>3, <3>1 DEF IInv, InboxAfterLog
  <2>4. last \in ToSet(seen)
    <3>1. seen # <<>> /\ last = seen[Len(seen)]
      BY <2>2 DEF IInv, LastTracked
    <3>2. Len(seen) \in 1 .. Len(seen)
      BY <1>1, <3>1
    <3> QED
      BY <1>1, <3>1, <3>2, SetOf
  <2>5. last # c
    BY <2>4 DEF IsRedelivery
  <2>6. i = Len(log) \/ i < Len(log)
    BY <1>1, <2>1
  <2>7. x = last \/ x < last
    BY <2>1, <2>2, <2>6 DEF IInv, AppliedInOrder
  <2>8. x \in Nat
    BY <1>1, SetOf DEF Log
  <2> QED
    BY <1>3, <2>3, <2>5, <2>7, <2>8
<1>5. /\ ToSet(r.log) = Log(v) \union {c} /\ r.log[Len(r.log)] = c
      /\ Rising(r.log)
  <2>1. Rising(log)
    BY DEF IInv, AppliedInOrder, Rising
  <2> QED
    BY <1>1, <1>2, <1>3, <1>4, <2>1, AddedLast DEF Log
<1> HIDE DEF c, log, seen
<1>6. r.tracked # <<>> /\ r.tracked[Len(r.tracked)] = c
  <2>1. Tracked(seen, c) # <<>> /\ Tracked(seen, c)[Len(Tracked(seen, c))] = c
    BY <1>1, <1>3, NewestTracked
  <2> QED
    BY <1>2, <2>1
<1>7. \A x \in ToSet(r.log), y \in ToSet(r.inbox) : x <= y
  BY <1>3, <1>5 DEF IInv, InboxAfterLog
<1> QED
  BY <1>3, <1>5, <1>6, <1>7, PageMoves DEF Rising

LEMMA AppliedTyped ==
    ASSUME IInv, NEW v \in Views, NEW at \in {"publishing", "submitting"}, HasNext(v)
    PROVE  Applied(v, at) \in Pages
<1> DEFINE c == Head(page[v].inbox)
           t == Tail(page[v].inbox)
           a == page[v].seq + 1
           l == Append(page[v].log, c)
           m == Tracked(page[v].tracked, c)
           u == page[v].unsent \union {c}
<1>1. /\ page[v] \in Pages /\ page[v].inbox \in Seq(Nat) /\ page[v].inbox # <<>>
      /\ page[v].log \in Seq(Nat) /\ page[v].tracked \in Seq(Nat)
      /\ page[v].seq \in Nat /\ page[v].unsent \subseteq Nat
  BY DEF IInv, Typed, Pages, HasNext
<1>2. c \in Nat /\ t \in Seq(Nat)
  BY <1>1, FirstTaken, SetOf
<1>3. a \in Nat /\ l \in Seq(Nat) /\ m \in Seq(Nat) /\ u \in SUBSET Nat
  BY <1>1, <1>2, AddedLast, NewestTracked
<1>4. Applied(v, at) = [page[v] EXCEPT !.at = at, !.cur = c, !.await = a, !.inbox = t, !.log = l,
                                       !.tracked = m, !.unsent = u]
  BY DEF Applied
<1> HIDE DEF c, t, a, l, m, u
<1> QED
  BY <1>1, <1>2, <1>3, <1>4 DEF Pages

LEMMA ApplyKeeps == ASSUME IInv, NEW v \in Views, Apply(v) PROVE IInv'
<1>1. /\ HasNext(v) /\ ~IsRedelivery(v) /\ Published(v, Applied(v, "publishing"))
      /\ UNCHANGED <<view, status, target, stream>>
  BY DEF Apply, brokerVars
<1>2. Applied(v, "publishing") \in Pages
  BY <1>1, AppliedTyped
<1>3. /\ net' \in [Views -> SUBSET Publishes]
      /\ \E r \in Pages : SamePart(r, Applied(v, "publishing")) /\ page' = [page EXCEPT ![v] = r]
  BY <1>1, <1>2, PublishedTyped
<1> QED
  BY <1>1, <1>3, ApplyingKeeps

LEMMA ApplyFailsKeeps == ASSUME IInv, NEW v \in Views, ApplyFails(v) PROVE IInv'
<1>1. /\ HasNext(v) /\ ~IsRedelivery(v) /\ page' = [page EXCEPT ![v] = Applied(v, "submitting")]
      /\ UNCHANGED <<view, status, target, stream, net>>
  BY DEF ApplyFails, brokerVars
<1>2. Applied(v, "submitting") \in Pages /\ SamePart(Applied(v, "submitting"), Applied(v, "submitting"))
  BY <1>1, AppliedTyped DEF SamePart
<1>3. net' \in [Views -> SUBSET Publishes]
  BY <1>1 DEF IInv, Typed
<1> QED
  BY <1>1, <1>2, <1>3, ApplyingKeeps

LEMMA ReplayKeeps == ASSUME IInv, NEW v \in Views, Replay(v) PROVE IInv'
<1> DEFINE c == Head(page[v].inbox)
           t == Tail(page[v].inbox)
           a == IF c \in page[v].unsent THEN "submitting" ELSE page[v].at
           r == [page[v] EXCEPT !.inbox = t, !.at = a, !.cur = c]
<1>1. /\ page[v] \in Pages /\ page[v].inbox \in Seq(Nat) /\ page[v].inbox # <<>>
      /\ page[v].at \in {"idle", "publishing", "submitting"}
  BY DEF IInv, Typed, Pages, Replay, HasNext
<1>2. page' = [page EXCEPT ![v] = r] /\ UNCHANGED <<view, status, target, stream, net>>
  BY DEF Replay, brokerVars
<1>3. /\ c \in Nat /\ t \in Seq(Nat) /\ a \in {"idle", "publishing", "submitting"}
      /\ ToSet(t) \subseteq Inbox(v) /\ Sorted(t)
  BY <1>1, FirstTaken, SetOf DEF IInv, InboxSorted, Inbox
<1> HIDE DEF c, t, a
<1>4. r \in Pages /\ r.inbox = t /\ r.log = page[v].log /\ r.tracked = page[v].tracked
  BY <1>1, <1>3 DEF Pages
<1> HIDE DEF r
<1>5. \A x \in ToSet(r.log), y \in ToSet(r.inbox) : x <= y
  BY <1>3, <1>4 DEF IInv, InboxAfterLog, Log
<1>6. /\ \A i, j \in DOMAIN r.log : i < j => r.log[i] < r.log[j]
      /\ r.log # <<>> => r.tracked # <<>> /\ r.tracked[Len(r.tracked)] = r.log[Len(r.log)]
  BY <1>4 DEF IInv, LastTracked, AppliedInOrder
<1>7. ToSet(r.inbox) \union ToSet(r.log) \subseteq Inbox(v) \union Log(v)
  BY <1>3, <1>4 DEF Log
<1>8. net' \in [Views -> SUBSET Publishes]
  BY <1>2 DEF IInv, Typed
<1> QED
  BY <1>2, <1>3, <1>4, <1>5, <1>6, <1>7, <1>8, PageMoves

\* A call comes after every other.
LEMMA NextIsNew == ASSUME IInv PROVE NextID \in Nat /\ \A x \in Issued : x < NextID /\ x \in Nat
<1>1. PICK n \in Nat : Issued = 1 .. n
  BY DEF IInv, Numbered
<1>2. Cardinality(1 .. n) = n
  <2>1. Cardinality(1 .. n) = IF 1 > n THEN 0 ELSE n - 1 + 1
    BY FS_Interval
  <2> QED
    BY <2>1
<1>3. NextID = 1 + n
  BY <1>1, <1>2 DEF NextID, Issued
<1> QED
  BY <1>1, <1>3

LEMMA CallKeeps == ASSUME IInv, NEW c \in Calls, NEW v \in Views, Call(c, v) PROVE IInv'
<1> DEFINE q == Pruned[v].queue
           b == [Pruned[v] EXCEPT !.queue = Append(q, c)]
<1>1. /\ c = NextID /\ status' = [status EXCEPT ![c] = "pending"]
      /\ target' = [target EXCEPT ![c] = v] /\ stream' = Detached /\ UNCHANGED <<page, net>>
      /\ view' = [Pruned EXCEPT ![v] = b]
  BY DEF Call
<1>2. c \in Nat /\ c \notin Issued /\ \A x \in Issued : x < c /\ x \in Nat
  BY <1>1, NextIsNew
<1>3. /\ Pruned \in [Views -> BrokerViews]
      /\ \A w \in Views : Pruned[w].queue \in {view[w].queue, <<>>}
  BY PrunedTyped DEF IInv
<1>4. \A w \in Views : /\ Rising(Pruned[w].queue) /\ ToSet(Pruned[w].queue) \subseteq Queue(w)
                       /\ Pruned[w].queue \in Seq(Nat)
  <2>1. Rising(<<>>) /\ ToSet(<<>>) = {}
    BY DEF Rising, ToSet
  <2> QED
    BY <1>3, <2>1 DEF IInv, QueueRises, Queue, BrokerViews
<1>5. /\ Append(q, c) \in Seq(Nat) /\ Rising(Append(q, c))
      /\ ToSet(Append(q, c)) \subseteq Queue(v) \union {c}
  <2>1. \A x \in ToSet(q) : x < c
    BY <1>2, <1>4 DEF IInv, KnownCalls
  <2> QED
    BY <1>2, <1>4, <2>1, AddedLast
<1> DEFINE a == Append(q, c)
<1> HIDE DEF a
<1>6. b \in BrokerViews /\ b.queue = a
  <2>1. Pruned[v] \in BrokerViews
    BY <1>3
  <2>2. [Pruned[v] EXCEPT !.queue = a] \in BrokerViews /\ [Pruned[v] EXCEPT !.queue = a].queue = a
    BY <1>5, <2>1 DEF BrokerViews, a
  <2> QED
    BY <2>2 DEF a
<1> HIDE DEF b
<1>7. /\ view' \in [Views -> BrokerViews]
      /\ \A w \in Views : view'[w].queue = IF w = v THEN a ELSE Pruned[w].queue
  BY <1>1, <1>3, <1>6
<1>8. /\ \A w \in Views : Rising(view'[w].queue) /\ Queue(w)' \subseteq Queue(w) \union {c}
      /\ \A w \in Views : Inbox(w)' = Inbox(w) /\ Log(w)' = Log(w)
  BY <1>1, <1>4, <1>5, <1>7 DEF Queue, Inbox, Log, a
<1>9. /\ Issued' = Issued \union {c}
      /\ status' \in [Calls -> {"new", "pending", "answered", "ended"}]
  BY <1>1 DEF IInv, Typed, Issued
<1>10. target' \in [Calls -> Views]
  BY <1>1 DEF IInv, Typed
<1>11. Typed'
  BY <1>1, <1>7, <1>9, <1>10, DetachedTyped DEF IInv, Typed
<1>12. StreamsKeep
  BY <1>1, DetachingKeeps
<1>13. Numbered'
  <2>1. PICK n \in Nat : Issued = 1 .. n
    BY DEF IInv, Numbered
  <2>2. c = n + 1
    <3>1. Cardinality(1 .. n) = IF 1 > n THEN 0 ELSE n - 1 + 1
      BY FS_Interval
    <3>2. Cardinality(Issued) = n
      BY <2>1, <3>1
    <3> QED
      BY <1>1, <3>2 DEF NextID, Issued
  <2>3. Issued' = 1 .. n + 1
    BY <1>9, <2>1, <2>2
  <2> QED
    BY <2>3 DEF Numbered
<1>14. KnownCalls'
  BY <1>8, <1>9, <1>12 DEF IInv, KnownCalls, StreamsKeep
<1>15. QueueRises' /\ OneConnection'
  BY <1>8, <1>12 DEF IInv, QueueRises, OneConnection, StreamsKeep
<1>16. QueueBehind'
  <2> SUFFICES ASSUME NEW w \in Views, NEW x \in Inbox(w) \union Log(w), NEW y \in Queue(w) \union {c}
               PROVE  x <= y
    BY <1>8 DEF QueueBehind
  <2>1. x \in Issued
    BY DEF IInv, KnownCalls
  <2> QED
    BY <1>2, <2>1 DEF IInv, QueueBehind
<1>17. HeadBetween'
  <2> SUFFICES ASSUME NEW s \in Streams, Writing(s)'
               PROVE  /\ AllUpTo(Inbox(stream[s].view)' \union Log(stream[s].view)', stream'[s].head)
                      /\ \A y \in Queue(stream[s].view)' : stream'[s].head <= y
    BY DEF HeadBetween
  <2>1. /\ Writing(s) /\ stream'[s].view = stream[s].view /\ stream'[s].head = stream[s].head
        /\ stream[s].view \in Views /\ stream[s].head \in Issued
    BY <1>12 DEF StreamsKeep, Writing, IInv, Typed, Handlers, KnownCalls
  <2>2. stream[s].head <= c
    BY <1>2, <2>1
  <2> QED
    BY <1>8, <2>1, <2>2 DEF IInv, HeadBetween, AllUpTo
<1>18. InboxSorted' /\ LastTracked' /\ AppliedInOrder' /\ InboxAfterLog'
  BY <1>1, <1>8 DEF IInv, InboxSorted, LastTracked, AppliedInOrder, InboxAfterLog
<1> QED
  BY <1>11, <1>13, <1>14, <1>15, <1>16, <1>17, <1>18 DEF IInv

-----------------------------------------------------------------------------
(* The invariant *)

LEMMA Start == Init => IInv
<1> SUFFICES ASSUME Init PROVE IInv
  OBVIOUS
<1> DEFINE p == [at |-> "idle", cur |-> 0, seq |-> 0, await |-> 0, inbox |-> <<>>,
                 log |-> <<>>, tracked |-> <<>>, unsent |-> {}]
<1>1. <<>> \in Seq(Nat) /\ Rising(<<>>) /\ Sorted(<<>>) /\ ToSet(<<>>) = {} /\ DOMAIN <<>> = {}
  BY DEF Rising, Sorted, ToSet
<1>2. p \in Pages /\ p.inbox = <<>> /\ p.log = <<>>
  BY <1>1 DEF Pages
<1> HIDE DEF p
<1>3. NoView \in BrokerViews /\ NoView.queue = <<>>
  BY <1>1 DEF NoView, BrokerViews
<1>4. \A v \in Views : view[v] = NoView /\ page[v] = p
  BY DEF Init, p
<1>5. PICK u \in Views : stream = [s \in Streams |-> NoStream(u)]
  BY DEF Init
<1>6. /\ stream \in [Streams -> Handlers]
      /\ \A s \in Streams : ~stream[s].alive /\ stream[s].at # "writing"
  BY <1>5, NoStreamTyped
<1>7. Typed
  <2>1. page \in [Views -> Pages]
    BY <1>2 DEF Init, p
  <2>2. view \in [Views -> BrokerViews] /\ net \in [Views -> SUBSET Publishes]
    BY <1>3 DEF Init
  <2>3. status \in [Calls -> {"new", "pending", "answered", "ended"}]
    BY DEF Init
  <2>4. target \in [Calls -> Views]
    BY DEF Init
  <2> QED
    BY <1>6, <2>1, <2>2, <2>3, <2>4 DEF Typed
<1>8. \A v \in Views : Inbox(v) = {} /\ Log(v) = {} /\ Queue(v) = {}
  BY <1>1, <1>2, <1>3, <1>4 DEF Inbox, Log, Queue
<1>9. Numbered
  <2>1. Issued = {}
    BY DEF Init, Issued
  <2> QED
    BY <2>1 DEF Numbered
<1>10. KnownCalls
  BY <1>6, <1>8 DEF KnownCalls
<1>11. QueueBehind /\ InboxAfterLog
  BY <1>8 DEF QueueBehind, InboxAfterLog
<1>12. QueueRises /\ InboxSorted
  BY <1>1, <1>2, <1>3, <1>4 DEF QueueRises, InboxSorted
<1>13. OneConnection /\ HeadBetween
  BY <1>6 DEF OneConnection, HeadBetween, Writing
<1>14. LastTracked /\ AppliedInOrder
  BY <1>1, <1>2, <1>4 DEF LastTracked, AppliedInOrder
<1> QED
  BY <1>7, <1>9, <1>10, <1>11, <1>12, <1>13, <1>14 DEF IInv

LEMMA Step == IInv /\ [Next]_vars => IInv'
<1> SUFFICES ASSUME IInv, [Next]_vars PROVE IInv'
  OBVIOUS
<1>1. ASSUME NEW c \in Calls, Abandon(c) \/ \E v \in Views : Call(c, v) PROVE IInv'
  BY <1>1, AbandonKeeps, CallKeeps
<1>2. CASE Look \/ Close
  BY <1>2, LookKeeps, CloseKeeps
<1>3. ASSUME NEW v \in Views, Heartbeat(v) \/ GoesStale(v) \/ PublishAgain(v) \/ SubmitUnanswered(v)
      PROVE  IInv'
  BY <1>3, HeartbeatKeeps, GoesStaleKeeps, PublishAgainKeeps, SubmitUnansweredKeeps
<1>4. ASSUME NEW v \in Views, Hook(v) PROVE IInv'
  BY <1>4, ApplyKeeps, ApplyFailsKeeps, ReplayKeeps, SubmitKeeps, GivingUpKeeps DEF Hook
<1>5. ASSUME NEW v \in Views, NEW m \in net[v], HandleView(v, m) PROVE IInv'
  BY <1>5, HandleViewKeeps
<1>6. ASSUME NEW v \in Views, NEW s \in Streams, Open(s, v) PROVE IInv'
  BY <1>6, OpenKeeps
<1>7. ASSUME NEW s \in Streams, Handler(s) \/ Tick(s) \/ Break(s) PROVE IInv'
  BY <1>7, PeekKeeps, WriteKeeps, WaitingStepKeeps, BreakKeeps DEF Handler
<1>8. CASE UNCHANGED vars
  <2>1. UNCHANGED <<view, status, target, stream, page, net>>
    BY <1>8 DEF vars, brokerVars
  <2>2. Typed'
    BY <2>1 DEF IInv, Typed
  <2> QED
    BY <2>1, <2>2, QuietKeeps, ViewsStay, PagesStay, StreamsStay, StatusStays
<1> QED
  BY <1>1, <1>2, <1>3, <1>4, <1>5, <1>6, <1>7, <1>8 DEF Next

\* docs/MCP.md's promise on redelivered commands (bridge.go, useMcpBridge.ts):
\* however often streams break, results are lost and views are pruned, a page
\* applies the commands it gets in the order of the calls, and none twice.
THEOREM AppliedInOrderHeld == Spec => []AppliedInOrder
<1>1. IInv => AppliedInOrder
  BY DEF IInv
<1> QED
  BY <1>1, Start, Step, PTL DEF Spec

-----------------------------------------------------------------------------
(* Who waits is in the queue *)

\* A rising queue holds a command once, so the sets tell everything.
QueueIsPending == \A v \in Views : Queue(v) = Pending(v)

LEMMA RisingOnce == ASSUME IInv, QueueIsPending PROVE WaitingIsQueued
<1> SUFFICES ASSUME NEW v \in Views PROVE IsInjective(view[v].queue)
  BY DEF QueueIsPending, WaitingIsQueued, Queue
<1> DEFINE q == view[v].queue
<1>1. q \in Seq(Nat) /\ Rising(q)
  BY DEF IInv, Typed, QueueRises, BrokerViews
<1> HIDE DEF q
<1>2. ASSUME NEW i \in DOMAIN q, NEW j \in DOMAIN q, q[i] = q[j] PROVE i = j
  <2>1. i \in Nat /\ j \in Nat /\ q[i] \in Nat
    BY <1>1, SetOf
  <2>2. ~(i < j) /\ ~(j < i)
    BY <1>1, <1>2, <2>1 DEF Rising
  <2> QED
    BY <2>1, <2>2
<1> QED
  BY <1>2 DEF IsInjective, q

\* A view that goes has nobody waiting, and so nothing in its queue.
LEMMA PrunedWaiting ==
    ASSUME IInv, QueueIsPending, \A v \in Views : view'[v].queue = Pruned[v].queue,
           UNCHANGED <<status, target>>
    PROVE  QueueIsPending'
<1> SUFFICES ASSUME NEW v \in Views PROVE ToSet(view'[v].queue) = Pending(v)
  BY DEF QueueIsPending, Queue, Pending
<1>1. CASE Prunable(v)
  <2>1. view'[v].queue = <<>> /\ Pending(v) = {}
    BY <1>1 DEF Pruned, NoView, Prunable
  <2> QED
    BY <2>1 DEF ToSet
<1>2. CASE ~Prunable(v)
  BY <1>2 DEF Pruned, QueueIsPending, Queue
<1> QED
  BY <1>1, <1>2

LEMMA LeftWaiting ==
    ASSUME IInv, QueueIsPending, NEW c \in Calls, status[c] = "pending", Leaves(c),
           NEW r \in {"answered", "ended"}, status' = [status EXCEPT ![c] = r], UNCHANGED target
    PROVE  QueueIsPending'
<1> DEFINE v == target[c]
<1>1. /\ v \in Views /\ view \in [Views -> BrokerViews] /\ view[v] \in BrokerViews
      /\ view[v].queue \in Seq(Nat) /\ Rising(view[v].queue)
  BY DEF IInv, Typed, QueueRises, BrokerViews
<1>2. view' = [view EXCEPT ![v].queue = Without(view[v].queue, c)]
  BY DEF Leaves
<1>3. view'[v].queue = Without(view[v].queue, c)
  BY <1>1, <1>2 DEF BrokerViews
<1>4. \A w \in Views : Queue(w)' = IF w = v THEN Queue(w) \ {c} ELSE Queue(w)
  BY <1>1, <1>2, <1>3, Thinned DEF Queue
<1>5. \A w \in Views : Pending(w)' = IF w = v THEN Pending(w) \ {c} ELSE Pending(w)
  BY DEF IInv, Typed, Pending
<1> QED
  BY <1>4, <1>5 DEF QueueIsPending

LEMMA ResultWaiting ==
    ASSUME IInv, QueueIsPending, NEW v \in Views, HandleResult(v)
    PROVE  QueueIsPending'
<1> DEFINE c == page[v].cur
<1>1. CASE c \in Pending(v)
  <2>1. c \in Calls /\ status[c] = "pending"
    BY <1>1 DEF Pending
  <2>2. status' = [status EXCEPT ![c] = "answered"] /\ Leaves(c) /\ target' = target
    BY <1>1 DEF HandleResult
  <2> HIDE DEF c
  <2> QED
    BY <2>1, <2>2, LeftWaiting
<1>2. CASE c \notin Pending(v)
  BY <1>2 DEF HandleResult, brokerVars, QueueIsPending, Queue, Pending
<1> QED
  BY <1>1, <1>2

LEMMA CallWaiting ==
    ASSUME IInv, QueueIsPending, NEW c \in Calls, NEW v \in Views, Call(c, v)
    PROVE  QueueIsPending'
<1>1. /\ c = NextID /\ status' = [status EXCEPT ![c] = "pending"] /\ target' = [target EXCEPT ![c] = v]
      /\ view' = [Pruned EXCEPT ![v].queue = Append(Pruned[v].queue, c)]
  BY DEF Call
<1>2. c \in Nat /\ status[c] = "new"
  <2>1. c \in Nat /\ c \notin Issued
    BY <1>1, NextIsNew
  <2> QED
    BY <2>1 DEF Issued
<1>3. /\ Pruned \in [Views -> BrokerViews]
      /\ \A w \in Views : Pruned[w].queue \in Seq(Nat) /\ ToSet(Pruned[w].queue) = Pending(w)
  <2>1. Pruned \in [Views -> BrokerViews]
    BY PrunedTyped DEF IInv
  <2>2. ASSUME NEW w \in Views PROVE ToSet(Pruned[w].queue) = Pending(w)
    <3>1. CASE Prunable(w)
      <4>1. Pruned[w].queue = <<>> /\ Pending(w) = {}
        BY <3>1 DEF Pruned, NoView, Prunable
      <4> QED
        BY <4>1 DEF ToSet
    <3>2. CASE ~Prunable(w)
      BY <3>2 DEF Pruned, QueueIsPending, Queue
    <3> QED
      BY <3>1, <3>2
  <2> QED
    BY <2>1, <2>2 DEF BrokerViews
<1>4. \A w \in Views : view'[w].queue = IF w = v THEN Append(Pruned[v].queue, c) ELSE Pruned[w].queue
  BY <1>1, <1>3 DEF BrokerViews
<1>5. \A w \in Views : Queue(w)' = IF w = v THEN Pending(w) \union {c} ELSE Pending(w)
  <2>1. ToSet(Append(Pruned[v].queue, c)) = ToSet(Pruned[v].queue) \union {c}
    BY <1>2, <1>3, AddedLast
  <2> QED
    BY <1>3, <1>4, <2>1 DEF Queue
<1>6. \A w \in Views : Pending(w)' = IF w = v THEN Pending(w) \union {c} ELSE Pending(w)
  BY <1>1, <1>2 DEF IInv, Typed, Pending
<1> QED
  BY <1>5, <1>6 DEF QueueIsPending

LEMMA WaitingStep == IInv /\ QueueIsPending /\ [Next]_vars => QueueIsPending'
<1> SUFFICES ASSUME IInv, QueueIsPending, [Next]_vars PROVE QueueIsPending'
  OBVIOUS
<1>1. ASSUME UNCHANGED <<view, status, target>> PROVE QueueIsPending'
  BY <1>1 DEF QueueIsPending, Queue, Pending
<1>2. ASSUME NEW c \in Calls, Abandon(c) \/ \E v \in Views : Call(c, v) PROVE QueueIsPending'
  BY <1>2, LeftWaiting, CallWaiting DEF Abandon
<1>3. CASE Look
  BY <1>3, PrunedWaiting DEF Look
<1>4. CASE Close
  <2>1. \A v \in Views : view'[v].queue = <<>>
    BY <1>4 DEF Close, NoView
  <2>2. \A v \in Views : Pending(v)' = {}
    BY <1>4 DEF Close, Pending
  <2> QED
    BY <2>1, <2>2 DEF QueueIsPending, Queue, ToSet
<1>5. ASSUME NEW v \in Views, GoesStale(v) PROVE QueueIsPending'
  <2>1. \A w \in Views : view'[w].queue = view[w].queue
    BY <1>5 DEF GoesStale, IInv, Typed, BrokerViews
  <2> QED
    BY <1>5, <2>1 DEF GoesStale, QueueIsPending, Queue, Pending
<1>6. ASSUME NEW v \in Views, Submit(v) \/ SubmitUnanswered(v) PROVE QueueIsPending'
  BY <1>6, ResultWaiting DEF Submit, SubmitUnanswered
<1>7. ASSUME NEW v \in Views, NEW m \in net[v], HandleView(v, m) PROVE QueueIsPending'
  <2>1. UNCHANGED <<status, target>>
    BY <1>7 DEF HandleView
  <2> QED
    BY <1>7, <2>1, HandleViewQueues, PrunedWaiting
<1>8. ASSUME NEW v \in Views, \/ Heartbeat(v) \/ PublishAgain(v) \/ Apply(v) \/ ApplyFails(v) \/ Replay(v)
                              \/ SubmitGivesUp(v) \/ PublishGivesUp(v)
                              \/ \E s \in Streams : Open(s, v)
      PROVE  QueueIsPending'
  BY <1>1, <1>8 DEF Heartbeat, PublishAgain, Apply, ApplyFails, Replay, SubmitGivesUp, PublishGivesUp,
                    Open, brokerVars
<1>9. ASSUME NEW s \in Streams, Handler(s) \/ Tick(s) \/ Break(s) PROVE QueueIsPending'
  BY <1>1, <1>9 DEF Handler, Peek, Write, Wake, Gone, Tick, Break, StreamStep, brokerVars
<1>10. CASE UNCHANGED vars
  BY <1>1, <1>10 DEF vars, brokerVars
<1> QED
  BY <1>2, <1>3, <1>4, <1>5, <1>6, <1>7, <1>8, <1>9, <1>10 DEF Next, Hook

\* bridge.go, Call, removePending and pruneViewsLocked: whoever waits for an
\* answer has its command, once, in the queue of a view that the broker still
\* keeps, and the queue holds nothing that nobody waits for.
THEOREM WaitingIsQueuedHeld == Spec => []WaitingIsQueued
<1>1. Init => QueueIsPending
  <2>1. Init => \A v \in Views : view[v].queue = <<>> /\ Pending(v) = {}
    BY DEF Init, NoView, Pending
  <2> QED
    BY <2>1 DEF QueueIsPending, Queue, ToSet
<1> QED
  BY <1>1, Start, Step, WaitingStep, RisingOnce, PTL DEF Spec

-----------------------------------------------------------------------------
(* A sleeping handler has been woken *)

\* What a handler of a view has sent last, or is about to send.
Sent(s) == IF stream[s].at = "waiting" THEN stream[s].delivered ELSE stream[s].head

\* A handler past its look at the queue that has yet to deliver the head of it.
Behind(s) == LET q == view[stream[s].view].queue IN
             /\ stream[s].own /\ stream[s].at \in {"waiting", "writing"}
             /\ q # <<>> /\ Head(q) # Sent(s)

\* With a handler alone on its view, nobody takes the wake-up that it needs.
AloneIsWoken == /\ token \in [Views -> BOOLEAN]
                /\ \A s \in Streams : Streams = {s} /\ Behind(s) => token[stream[s].view]

\* Steps of the broker: the handler stays where it is, unless it loses its view.
LEMMA BrokerWakes ==
    ASSUME IInv, AloneIsWoken, token' \in [Views -> BOOLEAN],
           \A s \in Streams : /\ stream'[s].view = stream[s].view /\ stream'[s].at = stream[s].at
                              /\ stream'[s].head = stream[s].head
                              /\ stream'[s].delivered = stream[s].delivered
                              /\ stream'[s].own => stream[s].own
                              /\ stream'[s].own /\ ~token'[stream[s].view] =>
                                    /\ view'[stream[s].view].queue = view[stream[s].view].queue
                                    /\ ~token[stream[s].view]
    PROVE  AloneIsWoken'
<1> SUFFICES ASSUME NEW s \in Streams, Streams = {s}, Behind(s)', ~token'[stream[s].view]
             PROVE  FALSE
  BY DEF AloneIsWoken
<1>1. Sent(s)' = Sent(s)
  BY DEF Sent
<1>2. Behind(s) /\ ~token[stream[s].view]
  BY <1>1 DEF Behind
<1> QED
  BY <1>2 DEF AloneIsWoken

\* What stays of a handler when its view is looked at.
LEMMA DetachedStays ==
    ASSUME IInv, NEW s \in Streams
    PROVE  /\ Detached[s].view = stream[s].view /\ Detached[s].at = stream[s].at
           /\ Detached[s].head = stream[s].head /\ Detached[s].delivered = stream[s].delivered
           /\ Detached[s].own => stream[s].own /\ ~Prunable(stream[s].view)
<1>1. stream[s] \in Handlers
  BY DEF IInv, Typed
<1> DEFINE b == stream[s].own /\ ~Prunable(stream[s].view)
<1>2. Detached[s] = [stream[s] EXCEPT !.own = b]
  BY DEF Detached
<1> HIDE DEF b
<1>3. /\ Detached[s].view = stream[s].view /\ Detached[s].at = stream[s].at
      /\ Detached[s].head = stream[s].head /\ Detached[s].delivered = stream[s].delivered
      /\ Detached[s].own = b
  BY <1>1, <1>2 DEF Handlers
<1> QED
  BY <1>3 DEF b

\* Whoever keeps its view across a look at the views keeps its wake-up.
LEMMA LookWakes ==
    ASSUME IInv, AloneIsWoken, stream' = Detached, token' = PrunedTokens,
           \A v \in Views : view'[v].queue = Pruned[v].queue
    PROVE  AloneIsWoken'
<1>1. token' \in [Views -> BOOLEAN]
  BY DEF PrunedTokens, AloneIsWoken
<1>2. ASSUME NEW s \in Streams, stream'[s].own, ~token'[stream[s].view]
      PROVE  /\ view'[stream[s].view].queue = view[stream[s].view].queue
             /\ ~token[stream[s].view]
  <2>1. stream[s].view \in Views /\ ~Prunable(stream[s].view)
    BY <1>2, DetachedStays DEF IInv, Typed, Handlers
  <2> QED
    BY <1>2, <2>1 DEF PrunedTokens, Pruned
<1> QED
  BY <1>1, <1>2, DetachedStays, BrokerWakes

LEMMA CallWakes ==
    ASSUME IInv, AloneIsWoken, NEW c \in Calls, NEW v \in Views, Call(c, v)
    PROVE  AloneIsWoken'
<1>1. /\ stream' = Detached /\ token' = [PrunedTokens EXCEPT ![v] = TRUE]
      /\ view' = [Pruned EXCEPT ![v].queue = Append(@, c)]
  BY DEF Call
<1>2. PrunedTokens \in [Views -> BOOLEAN] /\ token' \in [Views -> BOOLEAN]
  BY <1>1 DEF PrunedTokens, AloneIsWoken
<1>3. ASSUME NEW s \in Streams, stream'[s].own, ~token'[stream[s].view]
      PROVE  /\ view'[stream[s].view].queue = view[stream[s].view].queue
             /\ ~token[stream[s].view]
  <2>1. stream[s].view \in Views /\ ~Prunable(stream[s].view)
    BY <1>1, <1>3, DetachedStays DEF IInv, Typed, Handlers
  <2>2. stream[s].view # v
    BY <1>1, <1>2, <1>3
  <2>3. token'[stream[s].view] = PrunedTokens[stream[s].view]
    BY <1>1, <1>2, <2>1, <2>2
  <2>4. view'[stream[s].view] = view[stream[s].view]
    BY <1>1, <2>1, <2>2 DEF Pruned
  <2> QED
    BY <1>3, <2>1, <2>3, <2>4 DEF PrunedTokens
<1> QED
  BY <1>1, <1>2, <1>3, DetachedStays, BrokerWakes

LEMMA LeavingWakes ==
    ASSUME IInv, AloneIsWoken, NEW c \in Calls, Leaves(c), UNCHANGED stream
    PROVE  AloneIsWoken'
<1> DEFINE v == target[c]
<1>1. /\ v \in Views /\ token' = [token EXCEPT ![v] = TRUE]
      /\ view' = [view EXCEPT ![v].queue = Without(@, c)]
  BY DEF Leaves, IInv, Typed
<1>2. token' \in [Views -> BOOLEAN] /\ \A w \in Views : ~token'[w] => w # v /\ ~token[w]
  BY <1>1 DEF AloneIsWoken
<1>3. \A w \in Views : w # v => view'[w] = view[w]
  BY <1>1 DEF IInv, Typed
<1>4. \A s \in Streams : stream[s].view \in Views
  BY DEF IInv, Typed, Handlers
<1> QED
  BY <1>2, <1>3, <1>4, BrokerWakes

LEMMA ResultWakes ==
    ASSUME IInv, AloneIsWoken, NEW v \in Views, HandleResult(v), UNCHANGED stream
    PROVE  AloneIsWoken'
<1>1. CASE page[v].cur \in Pending(v)
  BY <1>1, LeavingWakes DEF HandleResult, Pending
<1>2. CASE page[v].cur \notin Pending(v)
  BY <1>2, BrokerWakes DEF HandleResult, brokerVars, AloneIsWoken
<1> QED
  BY <1>1, <1>2

LEMMA CloseWakes == ASSUME IInv, AloneIsWoken, Close PROVE AloneIsWoken'
<1>1. /\ token' = [v \in Views |-> FALSE]
      /\ stream' = [s \in Streams |-> [stream[s] EXCEPT !.own = FALSE]]
  BY DEF Close
<1>2. \A s \in Streams : ~stream'[s].own
  BY <1>1 DEF IInv, Typed, Handlers
<1> QED
  BY <1>1, <1>2 DEF AloneIsWoken, Behind

\* A handler that goes on as r.
LEMMA HandlerWakes ==
    ASSUME IInv, AloneIsWoken, NEW s \in Streams, NEW r \in Handlers, stream' = [stream EXCEPT ![s] = r],
           token' \in [Views -> BOOLEAN], UNCHANGED view,
           Streams = {s} /\ Behind(s)' => token'[r.view]
    PROVE  AloneIsWoken'
<1>1. stream'[s] = r
  BY DEF IInv, Typed
<1> SUFFICES ASSUME NEW t \in Streams, Streams = {t}, Behind(t)' PROVE token'[stream'[t].view]
  BY DEF AloneIsWoken
<1>2. t = s
  OBVIOUS
<1> QED
  BY <1>1, <1>2

LEMMA PeekWakes == ASSUME IInv, AloneIsWoken, NEW s \in Streams, Peek(s) PROVE AloneIsWoken'
<1> DEFINE v == stream[s].view
           q == view[v].queue
<1>1. stream \in [Streams -> Handlers] /\ stream[s] \in Handlers /\ v \in Views
  BY DEF IInv, Typed, Handlers
<1>2. UNCHANGED <<view, token>> /\ token' \in [Views -> BOOLEAN]
  BY DEF Peek, StreamStep, brokerVars, AloneIsWoken
<1>3. CASE stream' = [stream EXCEPT ![s] = NoStream(v)]
  <2> DEFINE r == NoStream(v)
  <2>1. r \in Handlers /\ ~r.own
    BY <1>1, NoStreamTyped DEF NoStream
  <2>2. stream'[s] = r
    BY <1>1, <1>3
  <2>3. ~Behind(s)'
    BY <2>1, <2>2 DEF Behind
  <2> QED
    BY <1>2, <1>3, <2>1, <2>3, HandlerWakes
<1>4. CASE /\ ~(q # <<>> /\ Head(q) # stream[s].delivered)
           /\ stream' = [stream EXCEPT ![s] = [stream[s] EXCEPT !.at = "waiting"]]
  <2> DEFINE r == [stream[s] EXCEPT !.at = "waiting"]
  <2>1. r \in Handlers /\ r.view = v /\ r.at = "waiting" /\ r.delivered = stream[s].delivered
    BY <1>1 DEF Handlers
  <2>2. stream'[s] = r /\ stream' = [stream EXCEPT ![s] = r]
    BY <1>1, <1>4
  <2> HIDE DEF r
  <2>3. Sent(s)' = stream[s].delivered
    BY <2>1, <2>2 DEF Sent
  <2>4. ~Behind(s)'
    BY <1>2, <1>4, <2>1, <2>2, <2>3 DEF Behind
  <2> QED
    BY <1>2, <2>1, <2>2, <2>4, HandlerWakes
<1>5. CASE /\ q # <<>>
           /\ stream' = [stream EXCEPT ![s] = [stream[s] EXCEPT !.at = "writing", !.head = Head(q)]]
  <2> DEFINE h == Head(q)
             r == [stream[s] EXCEPT !.at = "writing", !.head = h]
  <2>1. h \in Nat
    BY <1>1, <1>5, FirstTaken, SetOf DEF IInv, Typed, BrokerViews
  <2> HIDE DEF h
  <2>2. r \in Handlers /\ r.view = v /\ r.at = "writing" /\ r.head = h
    BY <1>1, <2>1 DEF Handlers
  <2>3. stream'[s] = r /\ stream' = [stream EXCEPT ![s] = r]
    BY <1>1, <1>5 DEF h
  <2> HIDE DEF r
  <2>4. Sent(s)' = h
    BY <2>2, <2>3 DEF Sent
  <2>5. ~Behind(s)'
    BY <1>2, <2>2, <2>3, <2>4 DEF Behind, h
  <2> QED
    BY <1>2, <2>2, <2>3, <2>5, HandlerWakes
<1> QED
  BY <1>3, <1>4, <1>5 DEF Peek, StreamStep

LEMMA WriteWakes == ASSUME IInv, AloneIsWoken, NEW s \in Streams, Write(s) PROVE AloneIsWoken'
<1> DEFINE h == stream[s].head
           r == [stream[s] EXCEPT !.at = "waiting", !.delivered = h]
<1>1. stream \in [Streams -> Handlers] /\ stream[s] \in Handlers
  BY DEF IInv, Typed
<1>2. /\ UNCHANGED <<view, token>> /\ token' \in [Views -> BOOLEAN] /\ stream[s].at = "writing"
      /\ stream' = [stream EXCEPT ![s] = r]
  BY DEF Write, StreamStep, brokerVars, AloneIsWoken
<1>3. /\ r \in Handlers /\ r.view = stream[s].view /\ r.at = "waiting" /\ r.delivered = h
      /\ r.own = stream[s].own
  BY <1>1 DEF Handlers
<1>4. stream'[s] = r
  BY <1>1, <1>2
<1> HIDE DEF r
<1>5. Sent(s)' = h /\ Sent(s) = h
  BY <1>2, <1>3, <1>4 DEF Sent
<1>6. Behind(s)' => Behind(s)
  BY <1>2, <1>3, <1>4, <1>5 DEF Behind
<1> QED
  BY <1>2, <1>3, <1>4, <1>6, HandlerWakes DEF AloneIsWoken

\* A handler that looks again, or is gone, is owed nothing.
LEMMA ReadingWakes ==
    ASSUME IInv, AloneIsWoken, NEW s \in Streams, Wake(s) \/ Tick(s) \/ Gone(s) \/ \E v \in Views : Open(s, v)
    PROVE  AloneIsWoken'
<1>1. stream \in [Streams -> Handlers] /\ stream[s] \in Handlers /\ stream[s].view \in Views
  BY DEF IInv, Typed, Handlers
<1>2. UNCHANGED view /\ token' \in [Views -> BOOLEAN]
  <2>1. token' = token \/ token' = [token EXCEPT ![stream[s].view] = FALSE]
    BY DEF Wake, Tick, Gone, Open, StreamStep, brokerVars
  <2> QED
    BY <1>1, <2>1 DEF Wake, Tick, Gone, Open, StreamStep, brokerVars, AloneIsWoken
<1>3. PICK r \in Handlers : stream' = [stream EXCEPT ![s] = r] /\ r.at \in {"reading", "closed"}
  <2>1. CASE Wake(s) \/ Tick(s)
    <3>1. [stream[s] EXCEPT !.at = "reading"] \in Handlers /\ [stream[s] EXCEPT !.at = "reading"].at = "reading"
      BY <1>1 DEF Handlers
    <3>2. stream' = [stream EXCEPT ![s] = [stream[s] EXCEPT !.at = "reading"]]
      BY <2>1 DEF Wake, Tick, StreamStep
    <3> QED
      BY <3>1, <3>2
  <2>2. CASE Gone(s)
    <3>1. NoStream(stream[s].view) \in Handlers /\ NoStream(stream[s].view).at = "closed"
      BY <1>1, NoStreamTyped DEF NoStream
    <3> QED
      BY <2>2, <3>1 DEF Gone, StreamStep
  <2>3. ASSUME NEW v \in Views, Open(s, v)
        PROVE  \E r \in Handlers : stream' = [stream EXCEPT ![s] = r] /\ r.at \in {"reading", "closed"}
    <3> DEFINE n == NoStream(v)
               r == [n EXCEPT !.at = "reading", !.own = TRUE, !.alive = TRUE]
    <3>1. n \in Handlers
      BY NoStreamTyped
    <3>2. stream' = [stream EXCEPT ![s] = r]
      BY <2>3 DEF Open
    <3> HIDE DEF n
    <3>3. r \in Handlers /\ r.at = "reading"
      BY <3>1 DEF Handlers
    <3> QED
      BY <3>2, <3>3
  <2> QED
    BY <2>1, <2>2, <2>3
<1>4. ~Behind(s)'
  <2>1. stream'[s] = r
    BY <1>1, <1>3
  <2> QED
    BY <1>3, <2>1 DEF Behind
<1> QED
  BY <1>2, <1>3, <1>4, HandlerWakes

LEMMA BreakWakes == ASSUME IInv, AloneIsWoken, NEW s \in Streams, Break(s) PROVE AloneIsWoken'
<1>1. /\ UNCHANGED <<view, token>> /\ stream' = [stream EXCEPT ![s].alive = FALSE]
  BY DEF Break, brokerVars
<1>2. ASSUME NEW t \in Streams
      PROVE  /\ stream'[t].view = stream[t].view /\ stream'[t].at = stream[t].at
             /\ stream'[t].head = stream[t].head /\ stream'[t].delivered = stream[t].delivered
             /\ stream'[t].own = stream[t].own
  <2>1. stream[t] \in Handlers
        /\ stream'[t] = IF t = s THEN [stream[t] EXCEPT !.alive = FALSE] ELSE stream[t]
    BY <1>1 DEF IInv, Typed
  <2> QED
    BY <2>1 DEF Handlers
<1> QED
  BY <1>1, <1>2, BrokerWakes DEF AloneIsWoken

LEMMA WokenStep == IInv /\ AloneIsWoken /\ [Next]_vars => AloneIsWoken'
<1> SUFFICES ASSUME IInv, AloneIsWoken, [Next]_vars PROVE AloneIsWoken'
  OBVIOUS
<1>1. ASSUME UNCHANGED <<view, token, stream>> PROVE AloneIsWoken'
  BY <1>1, BrokerWakes DEF AloneIsWoken
<1>2. ASSUME NEW c \in Calls, Abandon(c) \/ \E v \in Views : Call(c, v) PROVE AloneIsWoken'
  BY <1>2, LeavingWakes, CallWakes DEF Abandon
<1>3. CASE Look \/ Close
  BY <1>3, LookWakes, CloseWakes DEF Look
<1>4. ASSUME NEW v \in Views, GoesStale(v) PROVE AloneIsWoken'
  <2>1. \A w \in Views : view'[w].queue = view[w].queue
    BY <1>4 DEF GoesStale, IInv, Typed, BrokerViews
  <2>2. UNCHANGED <<token, stream>> /\ \A s \in Streams : stream[s].view \in Views
    BY <1>4 DEF GoesStale, IInv, Typed, Handlers
  <2> QED
    BY <2>1, <2>2, BrokerWakes DEF AloneIsWoken
<1>5. ASSUME NEW v \in Views, Submit(v) \/ SubmitUnanswered(v) PROVE AloneIsWoken'
  BY <1>5, ResultWakes DEF Submit, SubmitUnanswered
<1>6. ASSUME NEW v \in Views, NEW m \in net[v], HandleView(v, m) PROVE AloneIsWoken'
  <2>1. stream' = Detached /\ token' = PrunedTokens
    BY <1>6 DEF HandleView
  <2> QED
    BY <1>6, <2>1, HandleViewQueues, LookWakes
<1>7. ASSUME NEW v \in Views, \/ Heartbeat(v) \/ PublishAgain(v) \/ Apply(v) \/ ApplyFails(v) \/ Replay(v)
                              \/ SubmitGivesUp(v) \/ PublishGivesUp(v)
      PROVE  AloneIsWoken'
  BY <1>1, <1>7 DEF Heartbeat, PublishAgain, Apply, ApplyFails, Replay, SubmitGivesUp, PublishGivesUp,
                    brokerVars
<1>8. ASSUME NEW s \in Streams, Handler(s) \/ Tick(s) \/ Break(s) \/ \E v \in Views : Open(s, v)
      PROVE  AloneIsWoken'
  BY <1>8, PeekWakes, WriteWakes, ReadingWakes, BreakWakes DEF Handler
<1>9. CASE UNCHANGED vars
  BY <1>1, <1>9 DEF vars, brokerVars
<1> QED
  BY <1>2, <1>3, <1>4, <1>5, <1>6, <1>7, <1>8, <1>9 DEF Next, Hook

\* bridge.go, handleEvents, wakeView and removePending: a handler that still
\* listens to the channel of a view that exists, and is alone to do so, never
\* sleeps over a command that it has yet to deliver without a wake-up on its way.
THEOREM WakeReachesOwnStreamHeld == Spec => []WakeReachesOwnStream
<1>1. Init => AloneIsWoken
  <2> SUFFICES ASSUME Init PROVE AloneIsWoken
    OBVIOUS
  <2>1. \A s \in Streams : ~stream[s].own
    BY DEF Init, NoStream
  <2> QED
    BY <2>1 DEF Init, AloneIsWoken, Behind
<1>2. AloneIsWoken => WakeReachesOwnStream
  <2> SUFFICES ASSUME AloneIsWoken, Cardinality(Streams) = 1, NEW s \in Streams, stream[s].own
               PROVE  Delivering(s)
    BY DEF WakeReachesOwnStream
  <2>1. Streams = {s}
    BY McpBridgeAssumption, FS_Singleton
  <2>2. stream[s].at = "waiting" => Sent(s) = stream[s].delivered
    BY DEF Sent
  <2> QED
    BY <2>1, <2>2 DEF Delivering, Behind, AloneIsWoken
<1> QED
  BY <1>1, <1>2, Start, Step, WokenStep, PTL DEF Spec

-----------------------------------------------------------------------------
(* An agent reads its own write *)

\* Publishes go out in the order of what they show.
InOrder(v) == \A m \in net[v] :
                 /\ 1 <= m.seq /\ m.seq <= page[v].seq /\ m.snap <= Len(page[v].log)
                 /\ \A n \in net[v] : m.seq <= n.seq => m.snap <= n.snap

\* What the broker holds is between what is on its way.
HeldInOrder(v) == /\ view[v].seq <= page[v].seq /\ view[v].snap <= Len(page[v].log)
                  /\ \A m \in net[v] : /\ m.seq <= view[v].seq => m.snap <= view[v].snap
                                       /\ view[v].seq <= m.seq => view[v].snap <= m.snap

\* The publish that the page waits for, and every later one, shows all it did.
AwaitedShows(v) == page[v].at = "publishing" =>
                      /\ 1 <= page[v].await
                      /\ \A m \in net[v] : page[v].await <= m.seq => Len(page[v].log) <= m.snap
                      /\ page[v].await <= view[v].seq => Len(page[v].log) <= view[v].snap

\* A result is about a command that the page applied.
ResultOfApplied(v) == /\ ToSet(page[v].tracked) \subseteq Log(v)
                      /\ page[v].at # "idle" => page[v].cur \in Log(v)

\* Everybody who waits for an applied command can read its effect, unless the
\* page still publishes it, or never will.
Shown(v) == \A i \in DOMAIN page[v].log :
               LET c == page[v].log[i] IN
               c \in Pending(v) /\ c \notin unseen /\ ~(page[v].at = "publishing" /\ page[v].cur = c)
               => i <= view[v].snap

\* A view that calls go to has been published.
ServesPublished(v) == view[v].fresh \/ Pending(v) # {} => view[v].seq # 0

Reads(v) == /\ InOrder(v) /\ HeldInOrder(v) /\ AwaitedShows(v) /\ ResultOfApplied(v)
            /\ Shown(v) /\ ServesPublished(v)

AllRead == \A v \in Views : Reads(v)

LEMMA ReadTypes ==
    ASSUME IInv, NEW v \in Views
    PROVE  /\ view[v].seq \in Nat /\ view[v].snap \in Nat /\ view[v].fresh \in BOOLEAN
           /\ page[v].seq \in Nat /\ page[v].await \in Nat /\ page[v].log \in Seq(Nat)
           /\ page[v].tracked \in Seq(Nat) /\ page[v] \in Pages
           /\ DOMAIN page[v].log = 1 .. Len(page[v].log) /\ Len(page[v].log) \in Nat
           /\ net[v] \subseteq Publishes /\ \A m \in net[v] : m.seq \in Nat /\ m.snap \in Nat
<1>1. view[v] \in BrokerViews /\ page[v] \in Pages /\ net[v] \subseteq Publishes
  BY DEF IInv, Typed
<1>2. /\ page[v].seq \in Nat /\ page[v].await \in Nat /\ page[v].log \in Seq(Nat)
      /\ page[v].tracked \in Seq(Nat)
  BY <1>1 DEF Pages
<1>3. view[v].seq \in Nat /\ view[v].snap \in Nat /\ view[v].fresh \in BOOLEAN
  BY <1>1 DEF BrokerViews
<1>4. \A m \in net[v] : m.seq \in Nat /\ m.snap \in Nat
  BY <1>1 DEF Publishes
<1>5. DOMAIN page[v].log = 1 .. Len(page[v].log) /\ Len(page[v].log) \in Nat
  BY <1>2
<1> QED
  BY <1>1, <1>2, <1>3, <1>4, <1>5

\* The page sends nothing out and applies nothing.
PageRests(v) ==
    /\ page'[v].log = page[v].log /\ page'[v].seq = page[v].seq
    /\ page'[v].await = page[v].await /\ page'[v].tracked = page[v].tracked
    /\ net'[v] \subseteq net[v]
    /\ page'[v].at = "publishing" => page[v].at = "publishing" /\ page'[v].cur = page[v].cur
    /\ page[v].at = "publishing" /\ page'[v].at # "publishing" => page[v].cur \in unseen'
    /\ page'[v].at # "idle" => page'[v].cur \in Log(v)
    /\ unseen \subseteq unseen'

\* The broker keeps what it has of a view, or forgets it all while nobody waits.
BrokerRests(v) ==
    \/ /\ view'[v].seq = view[v].seq /\ view'[v].snap = view[v].snap
       /\ view'[v].fresh => view[v].fresh
       /\ \A c \in Pending(v)' : c \in Pending(v) \/ (c \notin Log(v) /\ view[v].fresh)
    \/ view'[v].seq = 0 /\ view'[v].snap = 0 /\ ~view'[v].fresh /\ Pending(v)' = {}

LEMMA RestReads ==
    ASSUME IInv, IInv', NEW v \in Views, Reads(v), PageRests(v), BrokerRests(v)
    PROVE  Reads(v)'
<1> USE DEF Reads
<1>1. /\ view[v].seq \in Nat /\ view[v].snap \in Nat /\ page[v].seq \in Nat /\ page[v].await \in Nat
      /\ DOMAIN page[v].log = 1 .. Len(page[v].log) /\ Len(page[v].log) \in Nat
      /\ \A m \in net[v] : m.seq \in Nat /\ m.snap \in Nat
      /\ \A i \in 1 .. Len(page[v].log) : page[v].log[i] \in Log(v)
  BY ReadTypes, SetOf DEF Log
<1>2. Log(v)' = Log(v)
  BY DEF PageRests, Log
<1>3. InOrder(v)'
  BY DEF InOrder, PageRests
<1>4. ResultOfApplied(v)'
  BY <1>2 DEF ResultOfApplied, PageRests
<1>5. CASE /\ view'[v].seq = view[v].seq /\ view'[v].snap = view[v].snap
           /\ view'[v].fresh => view[v].fresh
           /\ \A c \in Pending(v)' : c \in Pending(v) \/ (c \notin Log(v) /\ view[v].fresh)
  <2>1. HeldInOrder(v)'
    BY <1>5 DEF HeldInOrder, PageRests
  <2>2. AwaitedShows(v)'
    BY <1>5 DEF AwaitedShows, PageRests
  <2>3. Shown(v)'
    <3> SUFFICES ASSUME NEW i \in DOMAIN page[v].log,
                        page[v].log[i] \in Pending(v)', page[v].log[i] \notin unseen',
                        ~(page'[v].at = "publishing" /\ page'[v].cur = page[v].log[i])
                 PROVE  i <= view'[v].snap
      BY DEF Shown, PageRests
    <3>1. page[v].log[i] \in Pending(v) /\ page[v].log[i] \notin unseen
      BY <1>1, <1>5 DEF PageRests
    <3>2. ~(page[v].at = "publishing" /\ page[v].cur = page[v].log[i])
      BY DEF PageRests
    <3> QED
      BY <1>5, <3>1, <3>2 DEF Shown
  <2>4. ServesPublished(v)'
    BY <1>5 DEF ServesPublished
  <2> QED
    BY <1>3, <1>4, <2>1, <2>2, <2>3, <2>4
<1>6. CASE view'[v].seq = 0 /\ view'[v].snap = 0 /\ ~view'[v].fresh /\ Pending(v)' = {}
  <2>1. HeldInOrder(v)'
    <3>1. \A m \in net[v] : 1 <= m.seq
      BY DEF InOrder
    <3> QED
      BY <1>1, <1>6, <3>1 DEF HeldInOrder, PageRests
  <2>2. AwaitedShows(v)'
    BY <1>1, <1>6 DEF AwaitedShows, PageRests
  <2>3. Shown(v)' /\ ServesPublished(v)'
    BY <1>6 DEF Shown, ServesPublished
  <2> QED
    BY <1>3, <1>4, <2>1, <2>2, <2>3
<1> QED
  BY <1>5, <1>6 DEF BrokerRests

\* The page sends its state out, after a command or without one.
PageSends(v) ==
    LET n == page[v].seq + 1
        done == page'[v].log
        log == page[v].log
    IN  /\ page'[v].seq = n /\ net'[v] = net[v] \union {[seq |-> n, snap |-> Len(done)]}
        /\ \/ done = log
           \/ done = Append(log, page'[v].cur) /\ page'[v].at = "publishing" /\ page'[v].await = n
        /\ ToSet(page'[v].tracked) \subseteq Log(v)'
        /\ page[v].at = "publishing" => page'[v].at = "publishing" /\ page'[v].cur = page[v].cur
        /\ page'[v].at # "idle" => page'[v].cur \in Log(v)'
        /\ page'[v].at = "publishing" => \/ page'[v].await = n
                                         \/ done = log /\ page[v].at = "publishing" /\ page'[v].await = page[v].await

LEMMA AtMost == \A a, b, c \in Nat : a <= b /\ b <= c => a <= c
OBVIOUS

LEMMA SendingReads ==
    ASSUME IInv, IInv', NEW v \in Views, Reads(v), PageSends(v), UNCHANGED <<view, status, target, unseen>>
    PROVE  Reads(v)'
<1> DEFINE n == page[v].seq + 1
           log == page[v].log
           done == page'[v].log
           s == [seq |-> n, snap |-> Len(done)]
<1>1. /\ view[v].seq \in Nat /\ view[v].snap \in Nat /\ page[v].seq \in Nat /\ page[v].await \in Nat
      /\ page'[v].await \in Nat /\ log \in Seq(Nat) /\ DOMAIN log = 1 .. Len(log) /\ Len(log) \in Nat
      /\ \A m \in net[v] : m.seq \in Nat /\ m.snap \in Nat
      /\ done \in Seq(Nat) /\ DOMAIN done = 1 .. Len(done)
  <2>1. page'[v] \in Pages
    BY DEF IInv, Typed
  <2>2. page'[v].await \in Nat /\ done \in Seq(Nat)
    BY <2>1 DEF Pages
  <2>3. DOMAIN done = 1 .. Len(done)
    BY <2>2
  <2> QED
    BY <2>2, <2>3, ReadTypes
<1>2. /\ page'[v].seq = n /\ net'[v] = net[v] \union {s} /\ s.seq = n /\ s.snap = Len(done)
      /\ Len(log) <= Len(done) /\ Len(done) \in Nat
      /\ \A i \in 1 .. Len(done) : \/ i \in 1 .. Len(log) /\ done[i] = log[i]
                                   \/ (i = Len(done) /\ done[i] = page'[v].cur /\ page'[v].at = "publishing")
  <2>1. done = log \/ (done = Append(log, page'[v].cur) /\ page'[v].at = "publishing")
    BY DEF PageSends
  <2>2. ASSUME NEW c, done = Append(log, c)
        PROVE  /\ Len(done) = Len(log) + 1 /\ done[Len(log) + 1] = c
               /\ \A i \in 1 .. Len(log) : done[i] = log[i]
    BY <1>1, <2>2
  <2>3. Len(done) \in Nat
    BY <1>1
  <2>4. Len(log) <= Len(done)
    BY <1>1, <2>1, <2>2, <2>3
  <2>5. ASSUME NEW i \in 1 .. Len(done)
        PROVE  \/ i \in 1 .. Len(log) /\ done[i] = log[i]
               \/ i = Len(done) /\ done[i] = page'[v].cur /\ page'[v].at = "publishing"
    <3>1. CASE done = log
      BY <3>1
    <3>2. CASE done = Append(log, page'[v].cur) /\ page'[v].at = "publishing"
      <4>1. Len(done) = Len(log) + 1 /\ done[Len(log) + 1] = page'[v].cur
            /\ \A j \in 1 .. Len(log) : done[j] = log[j]
        BY <2>2, <3>2
      <4>2. i \in 1 .. Len(log) \/ i = Len(log) + 1
        BY <1>1, <4>1
      <4> QED
        BY <3>2, <4>1, <4>2
    <3> QED
      BY <2>1, <3>1, <3>2
  <2>6. page'[v].seq = n /\ net'[v] = net[v] \union {s}
    BY DEF PageSends
  <2>7. s.seq = n /\ s.snap = Len(done)
    OBVIOUS
  <2> QED
    BY <2>3, <2>4, <2>5, <2>6, <2>7
<1> HIDE DEF s, done
<1>3. /\ \A m \in net[v] : /\ 1 <= m.seq /\ m.seq < n /\ m.snap <= Len(log)
                           /\ \A k \in net[v] : m.seq <= k.seq => m.snap <= k.snap
      /\ view[v].seq < n /\ view[v].snap <= Len(log)
  BY <1>1 DEF Reads, InOrder, HeldInOrder
<1>9. /\ \A m \in net[v] : 1 <= m.seq /\ m.seq <= n /\ ~(n <= m.seq) /\ m.snap <= Len(done)
      /\ view[v].seq <= n /\ view[v].snap <= Len(done) /\ 1 <= n /\ n <= n /\ Len(done) <= Len(done)
  <2>2. \A x \in Nat : x < n => x <= n /\ ~(n <= x)
    BY <1>1
  <2>3. Len(log) \in Nat /\ Len(done) \in Nat /\ Len(log) <= Len(done)
    BY <1>1, <1>2
  <2>4. \A x \in Nat : x <= Len(log) => x <= Len(done)
    BY <2>3, AtMost
  <2>5. 1 <= n /\ n <= n /\ Len(done) <= Len(done)
    BY <1>1, <2>3
  <2> HIDE DEF n
  <2> QED
    BY <1>1, <1>3, <2>2, <2>4, <2>5, Zenon
<1>4. InOrder(v)'
  <2>1. \A m \in net'[v] : 1 <= m.seq /\ m.seq <= n /\ m.snap <= Len(done)
    <3> HIDE DEF n
    <3> QED
      BY <1>2, <1>9, Zenon
  <2>2. ASSUME NEW m \in net[v] PROVE m.seq <= s.seq /\ m.snap <= s.snap /\ ~(s.seq <= m.seq)
    <3> HIDE DEF n
    <3> QED
      BY <1>2, <1>9, Zenon
  <2>3. s.snap <= s.snap
    BY <1>2
  <2>4. \A m, k \in net[v] : m.seq <= k.seq => m.snap <= k.snap
    BY <1>3
  <2>5. \A m, k \in net'[v] : m.seq <= k.seq => m.snap <= k.snap
    <3> HIDE DEF n
    <3> QED
      BY <1>2, <2>2, <2>3, <2>4, Zenon
  <2> QED
    BY <1>2, <2>1, <2>5 DEF InOrder, done
<1>5. HeldInOrder(v)'
  <2> SUFFICES ASSUME NEW m \in net'[v]
               PROVE  /\ m.seq <= view[v].seq => m.snap <= view[v].snap
                      /\ view[v].seq <= m.seq => view[v].snap <= m.snap
    <3>1. page'[v].seq = n /\ view[v].seq <= n /\ view[v].snap <= Len(done)
      BY <1>2, <1>9
    <3> QED
      BY <3>1 DEF HeldInOrder, done
  <2>1. CASE m \in net[v]
    BY <2>1 DEF Reads, HeldInOrder
  <2>2. CASE m = s
    BY <1>1, <1>2, <1>3, <2>2
  <2> QED
    BY <1>2, <2>1, <2>2
<1>6. AwaitedShows(v)'
  <2> SUFFICES ASSUME page'[v].at = "publishing"
               PROVE  /\ 1 <= page'[v].await
                      /\ \A m \in net'[v] : page'[v].await <= m.seq => Len(done) <= m.snap
                      /\ page'[v].await <= view[v].seq => Len(done) <= view[v].snap
    BY DEF AwaitedShows, done
  <2>1. CASE page'[v].await = n
    <3>1. 1 <= n /\ ~(n <= view[v].seq) /\ \A m \in net[v] : ~(n <= m.seq)
      BY <1>1, <1>3
    <3>2. Len(done) <= s.snap
      BY <1>2
    <3> QED
      BY <1>2, <2>1, <3>1, <3>2
  <2>2. CASE done = log /\ page[v].at = "publishing" /\ page'[v].await = page[v].await
    <3>1. /\ 1 <= page[v].await
          /\ \A m \in net[v] : page[v].await <= m.seq => Len(log) <= m.snap
          /\ page[v].await <= view[v].seq => Len(log) <= view[v].snap
      BY <2>2 DEF Reads, AwaitedShows
    <3> QED
      BY <1>1, <1>2, <2>2, <3>1
  <2> QED
    BY <2>1, <2>2 DEF PageSends, done
<1>7. ResultOfApplied(v)'
  BY DEF ResultOfApplied, PageSends
<1>8. Shown(v)' /\ ServesPublished(v)'
  <2>1. Pending(v)' = Pending(v)
    BY DEF Pending
  <2>2. ASSUME NEW i \in 1 .. Len(done), done[i] \in Pending(v), done[i] \notin unseen,
               ~(page'[v].at = "publishing" /\ page'[v].cur = done[i])
        PROVE  i <= view[v].snap
    <3>1. i \in 1 .. Len(log) /\ done[i] = log[i]
      BY <1>2, <2>2
    <3>2. ~(page[v].at = "publishing" /\ page[v].cur = log[i])
      BY <2>2, <3>1 DEF PageSends
    <3> QED
      BY <1>1, <2>2, <3>1, <3>2 DEF Reads, Shown
  <2>3. Shown(v)'
    BY <1>1, <2>1, <2>2 DEF Shown, done
  <2> QED
    BY <2>1, <2>3 DEF Reads, ServesPublished
<1> QED
  BY <1>4, <1>5, <1>6, <1>7, <1>8 DEF Reads

LEMMA FailingReads ==
    ASSUME IInv, IInv', NEW v \in Views, Reads(v), NEW c,
           page[v].at = "idle", page'[v].at = "submitting", page'[v].cur = c,
           page'[v].log = Append(page[v].log, c), ToSet(page'[v].tracked) \subseteq Log(v)',
           c \in Log(v)', page'[v].seq = page[v].seq, unseen' = unseen \union {c},
           UNCHANGED <<view, status, target, net>>
    PROVE  Reads(v)'
<1> DEFINE log == page[v].log
<1>1. /\ view[v].snap \in Nat /\ log \in Seq(Nat) /\ DOMAIN log = 1 .. Len(log) /\ Len(log) \in Nat
      /\ \A m \in net[v] : m.snap \in Nat
  BY ReadTypes
<1>2. /\ Len(Append(log, c)) = Len(log) + 1 /\ Append(log, c)[Len(log) + 1] = c
      /\ DOMAIN Append(log, c) = 1 .. Len(log) + 1
      /\ \A i \in 1 .. Len(log) : Append(log, c)[i] = log[i]
  BY <1>1
<1>3. \A x \in Nat : x <= Len(log) => x <= Len(page'[v].log)
  BY <1>1, <1>2
<1> HIDE DEF log
<1>4. InOrder(v)' /\ HeldInOrder(v)'
  BY <1>1, <1>3 DEF Reads, InOrder, HeldInOrder, log
<1>5. AwaitedShows(v)' /\ ResultOfApplied(v)'
  BY DEF AwaitedShows, ResultOfApplied
<1>6. Pending(v)' = Pending(v)
  BY DEF Pending
<1>7. Shown(v)'
  <2> SUFFICES ASSUME NEW i \in 1 .. Len(log) + 1, Append(log, c)[i] \in Pending(v),
                      Append(log, c)[i] \notin unseen, Append(log, c)[i] # c
               PROVE  i <= view[v].snap
    BY <1>2, <1>6 DEF Shown, log
  <2>1. i \in 1 .. Len(log)
    BY <1>1, <1>2
  <2>2. log[i] \in Pending(v) /\ log[i] \notin unseen
    BY <1>2, <2>1
  <2> QED
    BY <1>1, <2>1, <2>2 DEF Reads, Shown, log
<1>8. ServesPublished(v)'
  BY <1>6 DEF Reads, ServesPublished
<1> QED
  BY <1>4, <1>5, <1>7, <1>8 DEF Reads

\* A publish is taken: the broker holds what it shows, or something newer, and
\* the page that waits for it goes on.
LEMMA TakenReads ==
    ASSUME IInv, IInv', NEW v \in Views, Reads(v), NEW m \in net[v], net'[v] = net[v] \ {m},
           \/ /\ view[v].seq < m.seq \/ Pending(v) = {}
              /\ view'[v].seq = m.seq /\ view'[v].snap = m.snap
           \/ /\ m.seq <= view[v].seq
              /\ view'[v].seq = view[v].seq /\ view'[v].snap = view[v].snap
              /\ view'[v].fresh => view[v].fresh,
           page'[v].log = page[v].log, page'[v].seq = page[v].seq, page'[v].cur = page[v].cur,
           page'[v].await = page[v].await, page'[v].tracked = page[v].tracked,
           \/ page'[v].at = page[v].at
           \/ page[v].at = "publishing" /\ page[v].await = m.seq /\ page'[v].at = "submitting",
           UNCHANGED <<status, target, unseen>>
    PROVE  Reads(v)'
<1> DEFINE log == page[v].log
<1>1. /\ view[v].seq \in Nat /\ view[v].snap \in Nat /\ page[v].seq \in Nat /\ page[v].await \in Nat
      /\ DOMAIN log = 1 .. Len(log) /\ Len(log) \in Nat
      /\ \A n \in net[v] : n.seq \in Nat /\ n.snap \in Nat
  BY ReadTypes
<1>2. Log(v)' = Log(v) /\ Pending(v)' = Pending(v)
  BY DEF Log, Pending
<1>3. InOrder(v)'
  BY DEF Reads, InOrder
<1>4. HeldInOrder(v)'
  BY DEF Reads, InOrder, HeldInOrder
<1>5. AwaitedShows(v)'
  BY DEF Reads, AwaitedShows
<1>6. ResultOfApplied(v)'
  BY <1>2 DEF Reads, ResultOfApplied
<1>7. Shown(v)'
  <2> SUFFICES ASSUME NEW i \in 1 .. Len(log), log[i] \in Pending(v), log[i] \notin unseen,
                      ~(page'[v].at = "publishing" /\ page[v].cur = log[i])
               PROVE  i <= view'[v].snap
    BY <1>1, <1>2 DEF Shown
  <2>1. view[v].snap <= view'[v].snap /\ view'[v].snap \in Nat
    BY <1>1 DEF Reads, HeldInOrder
  <2>2. CASE ~(page[v].at = "publishing" /\ page[v].cur = log[i])
    <3>1. i <= view[v].snap
      BY <1>1, <2>2 DEF Reads, Shown
    <3> QED
      BY <1>1, <2>1, <3>1
  <2>3. CASE page[v].at = "publishing" /\ page[v].cur = log[i]
    <3>1. page[v].await = m.seq
      BY <2>3
    <3>2. m.seq <= m.seq
      BY <1>1
    <3>3. Len(log) <= view'[v].snap
      BY <2>3, <3>1, <3>2 DEF Reads, AwaitedShows
    <3> QED
      BY <1>1, <2>1, <3>3
  <2> QED
    BY <2>2, <2>3
<1>8. ServesPublished(v)'
  BY <1>1, <1>2 DEF Reads, InOrder, ServesPublished
<1> QED
  BY <1>3, <1>4, <1>5, <1>6, <1>7, <1>8 DEF Reads

-----------------------------------------------------------------------------
(* What each action leaves as it is *)

LEMMA PageUntouched ==
    ASSUME NEW v \in Views, Reads(v), page'[v] = page[v], net'[v] \subseteq net[v],
           unseen \subseteq unseen'
    PROVE  PageRests(v)
BY DEF PageRests, Reads, ResultOfApplied

LEMMA BrokerUntouched ==
    ASSUME NEW v \in Views, UNCHANGED <<view, status, target>>
    PROVE  BrokerRests(v)
BY DEF BrokerRests, Pending

\* A view that the broker does not hold, or is about to forget, has nobody waiting.
LEMMA UnheldUnwaited ==
    ASSUME NEW v \in Views, Reads(v), Pruned[v] = NoView
    PROVE  Pending(v) = {}
<1>1. CASE Prunable(v)
  BY <1>1 DEF Prunable
<1>2. CASE ~Prunable(v)
  <2>1. view[v].seq = 0
    BY <1>2 DEF Pruned, NoView
  <2> QED
    BY <2>1 DEF Reads, ServesPublished
<1> QED
  BY <1>1, <1>2

LEMMA PrunedRests ==
    ASSUME NEW v \in Views, Reads(v), view'[v] = Pruned[v], Pending(v)' = Pending(v)
    PROVE  BrokerRests(v)
<1>1. CASE Prunable(v)
  <2>1. view'[v] = NoView /\ Pending(v) = {}
    BY <1>1 DEF Pruned, Prunable
  <2> QED
    BY <2>1 DEF BrokerRests, NoView
<1>2. CASE ~Prunable(v)
  BY <1>2 DEF BrokerRests, Pruned
<1> QED
  BY <1>1, <1>2

LEMMA LookReads == ASSUME IInv, AllRead, IInv', Look PROVE AllRead'
<1> SUFFICES ASSUME NEW v \in Views PROVE Reads(v)'
  BY DEF AllRead
<1>1. Reads(v)
  BY DEF AllRead
<1>2. view'[v] = Pruned[v] /\ Pending(v)' = Pending(v) /\ UNCHANGED <<page, net, unseen>>
  BY DEF Look, Pending
<1> QED
  BY <1>1, <1>2, PageUntouched, PrunedRests, RestReads

LEMMA CallReads == ASSUME IInv, AllRead, IInv', NEW c \in Calls, NEW u \in Views, Call(c, u) PROVE AllRead'
<1> SUFFICES ASSUME NEW v \in Views PROVE Reads(v)'
  BY DEF AllRead
<1>1. Reads(v) /\ PageRests(v)
  BY PageUntouched DEF AllRead, Call
<1>2. /\ c = NextID /\ view[u].fresh /\ status' = [status EXCEPT ![c] = "pending"]
      /\ target' = [target EXCEPT ![c] = u]
      /\ view' = [Pruned EXCEPT ![u].queue = Append(@, c)]
  BY DEF Call
<1>3. \A w \in Views : \A x \in Pending(w)' : x \in Pending(w) \/ (x = c /\ w = u)
  BY <1>2 DEF IInv, Typed, Pending
<1>4. c \notin Log(v) /\ status[c] = "new"
  <2>1. c \notin Issued
    BY <1>2, NextIsNew
  <2> QED
    BY <2>1 DEF IInv, KnownCalls, Issued
<1>5. CASE v # u
  <2>1. view'[v] = Pruned[v]
    BY <1>2, <1>5 DEF Pruned
  <2>2. Pending(v)' = Pending(v)
    BY <1>2, <1>4, <1>5 DEF IInv, Typed, Pending
  <2> QED
    BY <1>1, <2>1, <2>2, PrunedRests, RestReads
<1>6. CASE v = u
  <2>1. Pruned \in [Views -> BrokerViews] /\ Pruned[v] = view[v]
    BY <1>2, <1>6, PrunedTyped DEF IInv, Pruned, Prunable
  <2> DEFINE q == Append(view[v].queue, c)
  <2>2. view'[v] = [view[v] EXCEPT !.queue = q] /\ view[v] \in BrokerViews
    BY <1>2, <1>6, <2>1
  <2> HIDE DEF q
  <2>3. /\ view'[v].seq = view[v].seq /\ view'[v].snap = view[v].snap
        /\ view'[v].fresh = view[v].fresh
    BY <2>2 DEF BrokerViews
  <2>4. BrokerRests(v)
    BY <1>2, <1>3, <1>4, <1>6, <2>3 DEF BrokerRests
  <2> QED
    BY <1>1, <2>4, RestReads
<1> QED
  BY <1>5, <1>6

\* A call ends: fewer wait.
LEMMA EndingRests ==
    ASSUME IInv, NEW c \in Calls, NEW r \in {"answered", "ended"}, status' = [status EXCEPT ![c] = r],
           Leaves(c), UNCHANGED target, NEW v \in Views
    PROVE  BrokerRests(v)
<1>1. Pending(v)' \subseteq Pending(v)
  BY DEF IInv, Typed, Pending
<1> DEFINE q == Without(view[target[c]].queue, c)
<1>2. view' = [view EXCEPT ![target[c]] = [view[target[c]] EXCEPT !.queue = q]]
  BY DEF Leaves
<1>3. view \in [Views -> BrokerViews] /\ view[v] \in BrokerViews
  BY DEF IInv, Typed
<1> HIDE DEF q
<1>4. view'[v] = view[v] \/ view'[v] = [view[v] EXCEPT !.queue = q]
  BY <1>2, <1>3
<1>5. view'[v].seq = view[v].seq /\ view'[v].snap = view[v].snap /\ view'[v].fresh = view[v].fresh
  BY <1>3, <1>4 DEF BrokerViews
<1> QED
  BY <1>1, <1>5 DEF BrokerRests

LEMMA ResultRests ==
    ASSUME IInv, NEW u \in Views, HandleResult(u), NEW v \in Views
    PROVE  BrokerRests(v)
<1>1. CASE page[u].cur \in Pending(u)
  <2>1. page[u].cur \in Calls
    BY <1>1 DEF Pending
  <2> QED
    BY <1>1, <2>1, EndingRests DEF HandleResult
<1>2. CASE page[u].cur \notin Pending(u)
  BY <1>2, BrokerUntouched DEF HandleResult, brokerVars
<1> QED
  BY <1>1, <1>2

LEMMA CloseRests == ASSUME Close, NEW v \in Views PROVE BrokerRests(v)
<1>1. view'[v] = NoView
  BY DEF Close
<1>2. Pending(v)' = {}
  BY DEF Close, Pending
<1> QED
  BY <1>1, <1>2 DEF BrokerRests, NoView

LEMMA GoesStaleRests == ASSUME IInv, NEW u \in Views, GoesStale(u), NEW v \in Views PROVE BrokerRests(v)
<1>1. view[v] \in BrokerViews /\ (view'[v] = view[v] \/ view'[v] = [view[v] EXCEPT !.fresh = FALSE])
  BY DEF GoesStale, IInv, Typed
<1>2. /\ view'[v].seq = view[v].seq /\ view'[v].snap = view[v].snap
      /\ view'[v].fresh => view[v].fresh
  BY <1>1 DEF BrokerViews
<1>3. Pending(v)' = Pending(v)
  BY DEF GoesStale, Pending
<1> QED
  BY <1>2, <1>3 DEF BrokerRests

-----------------------------------------------------------------------------
(* The page's steps *)

\* A page that goes on as p, with nothing new for the broker.
LEMMA RestingStep ==
    ASSUME IInv, AllRead, IInv', NEW u \in Views, NEW p \in Pages, page' = [page EXCEPT ![u] = p],
           p.log = page[u].log, p.seq = page[u].seq, p.await = page[u].await,
           p.tracked = page[u].tracked,
           p.at = "publishing" => page[u].at = "publishing" /\ p.cur = page[u].cur,
           page[u].at = "publishing" /\ p.at # "publishing" => page[u].cur \in unseen',
           p.at # "idle" => p.cur \in Log(u), unseen \subseteq unseen', UNCHANGED net,
           \A v \in Views : BrokerRests(v)
    PROVE  AllRead'
<1> SUFFICES ASSUME NEW v \in Views PROVE Reads(v)'
  BY DEF AllRead
<1>1. Reads(v)
  BY DEF AllRead
<1>2. page'[v] = IF v = u THEN p ELSE page[v]
  BY DEF IInv, Typed
<1>3. PageRests(v)
  <2>1. CASE v = u
    BY <1>2, <2>1 DEF PageRests
  <2>2. CASE v # u
    BY <1>1, <1>2, <2>2, PageUntouched
  <2> QED
    BY <2>1, <2>2
<1> QED
  BY <1>1, <1>3, RestReads

LEMMA ReplayReads == ASSUME IInv, AllRead, IInv', NEW v \in Views, Replay(v) PROVE AllRead'
<1> DEFINE c == Head(page[v].inbox)
           t == Tail(page[v].inbox)
           a == IF c \in page[v].unsent THEN "submitting" ELSE page[v].at
           p == [page[v] EXCEPT !.inbox = t, !.at = a, !.cur = c]
<1>1. /\ page[v] \in Pages /\ page[v].inbox \in Seq(Nat) /\ page[v].inbox # <<>>
      /\ page[v].at = "idle"
  BY DEF IInv, Typed, Pages, Replay, HasNext
<1>2. page' = [page EXCEPT ![v] = p] /\ UNCHANGED <<view, status, target, net, unseen>>
  BY DEF Replay, brokerVars
<1>3. c \in Nat /\ t \in Seq(Nat) /\ a \in {"idle", "submitting"}
  BY <1>1, FirstTaken, SetOf
<1>4. c \in Log(v)
  BY DEF Replay, IsRedelivery, AllRead, Reads, ResultOfApplied
<1> HIDE DEF c, t, a
<1>5. /\ p \in Pages /\ p.log = page[v].log /\ p.seq = page[v].seq /\ p.await = page[v].await
      /\ p.tracked = page[v].tracked /\ p.at = a /\ p.cur = c
  BY <1>1, <1>3 DEF Pages
<1> HIDE DEF p
<1> QED
  BY <1>1, <1>2, <1>3, <1>4, <1>5, BrokerUntouched, RestingStep

LEMMA SubmitReads == ASSUME IInv, AllRead, IInv', NEW v \in Views, Submit(v) PROVE AllRead'
<1> DEFINE p == [page[v] EXCEPT !.at = "idle", !.unsent = page[v].unsent \ {page[v].cur}]
<1>1. page[v] \in Pages /\ page[v].at = "submitting"
  BY DEF IInv, Typed, Submit
<1>2. page' = [page EXCEPT ![v] = p] /\ HandleResult(v) /\ UNCHANGED <<net, unseen>>
  BY DEF Submit
<1>3. /\ p \in Pages /\ p.log = page[v].log /\ p.seq = page[v].seq /\ p.await = page[v].await
      /\ p.tracked = page[v].tracked /\ p.at = "idle"
  BY <1>1 DEF Pages
<1> HIDE DEF p
<1> QED
  BY <1>1, <1>2, <1>3, ResultRests, RestingStep

LEMMA GivingUpReads ==
    ASSUME IInv, AllRead, IInv', NEW v \in Views, PublishGivesUp(v) \/ SubmitGivesUp(v)
    PROVE  AllRead'
<1>1. page[v] \in Pages
  BY DEF IInv, Typed
<1>2. PICK a \in {"submitting", "idle"} :
         /\ page' = [page EXCEPT ![v] = [page[v] EXCEPT !.at = a]]
         /\ a = "submitting" => page[v].at = "publishing"
         /\ page[v].at = "publishing" => page[v].cur \in unseen'
         /\ unseen \subseteq unseen'
  BY DEF PublishGivesUp, SubmitGivesUp
<1>3. UNCHANGED <<view, status, target, net>>
  BY DEF PublishGivesUp, SubmitGivesUp, brokerVars
<1> DEFINE p == [page[v] EXCEPT !.at = a]
<1>4. /\ p \in Pages /\ p.log = page[v].log /\ p.seq = page[v].seq /\ p.await = page[v].await
      /\ p.tracked = page[v].tracked /\ p.at = a /\ p.cur = page[v].cur
  BY <1>1 DEF Pages
<1>5. page' = [page EXCEPT ![v] = p]
  BY <1>2
<1>6. page[v].at = "publishing" => page[v].cur \in Log(v)
  BY DEF AllRead, Reads, ResultOfApplied
<1> HIDE DEF p
<1> QED
  BY <1>2, <1>3, <1>4, <1>5, <1>6, BrokerUntouched, RestingStep

\* What goes out, and the page that sent it.
LEMMA SentParts ==
    ASSUME IInv, NEW v \in Views, NEW p \in Pages, Published(v, p)
    PROVE  LET n == page[v].seq + 1 IN
           /\ page'[v].seq = n /\ net'[v] = net[v] \union {[seq |-> n, snap |-> Len(p.log)]}
           /\ page'[v].at = p.at /\ page'[v].cur = p.cur /\ page'[v].await = p.await
           /\ page'[v].log = p.log /\ page'[v].tracked = p.tracked
           /\ \A w \in Views \ {v} : page'[w] = page[w] /\ net'[w] = net[w]
<1> DEFINE n == page[v].seq + 1
           r == [p EXCEPT !.seq = n]
<1>1. n \in Nat
  BY ReadTypes
<1>2. page' = [page EXCEPT ![v] = r] /\ net' = [net EXCEPT ![v] = @ \union {[seq |-> n, snap |-> Len(p.log)]}]
  BY DEF Published
<1>3. page'[v] = r /\ net'[v] = net[v] \union {[seq |-> n, snap |-> Len(p.log)]}
      /\ \A w \in Views \ {v} : page'[w] = page[w] /\ net'[w] = net[w]
  BY <1>2 DEF IInv, Typed
<1> HIDE DEF n
<1>4. /\ r.seq = n /\ r.at = p.at /\ r.cur = p.cur /\ r.await = p.await
      /\ r.log = p.log /\ r.tracked = p.tracked
  BY <1>1 DEF Pages
<1> QED
  BY <1>3, <1>4 DEF n

LEMMA SendingStep ==
    ASSUME IInv, AllRead, IInv', NEW u \in Views, PageSends(u),
           \A w \in Views \ {u} : page'[w] = page[w] /\ net'[w] = net[w],
           UNCHANGED <<view, status, target, unseen>>
    PROVE  AllRead'
<1> SUFFICES ASSUME NEW v \in Views PROVE Reads(v)'
  BY DEF AllRead
<1>1. Reads(v) /\ BrokerRests(v)
  BY BrokerUntouched DEF AllRead
<1>2. CASE v = u
  BY <1>1, <1>2, SendingReads
<1>3. CASE v # u
  BY <1>1, <1>3, PageUntouched, RestReads
<1> QED
  BY <1>2, <1>3

LEMMA HeartbeatReads == ASSUME IInv, AllRead, IInv', NEW v \in Views, Heartbeat(v) PROVE AllRead'
<1>1. page[v] \in Pages /\ Published(v, page[v]) /\ UNCHANGED <<view, status, target, unseen>>
  BY DEF Heartbeat, IInv, Typed, brokerVars
<1>2. ResultOfApplied(v)
  BY DEF AllRead, Reads
<1>3. Log(v)' = Log(v)
  BY <1>1, SentParts DEF Log
<1>4. PageSends(v)
  BY <1>1, <1>2, <1>3, SentParts DEF PageSends, ResultOfApplied
<1> QED
  BY <1>1, <1>4, SentParts, SendingStep

LEMMA PublishAgainReads == ASSUME IInv, AllRead, IInv', NEW v \in Views, PublishAgain(v) PROVE AllRead'
<1> DEFINE n == page[v].seq + 1
           p == [page[v] EXCEPT !.await = n]
<1>1. /\ page[v] \in Pages /\ n \in Nat /\ Published(v, p) /\ page[v].at = "publishing"
      /\ UNCHANGED <<view, status, target, unseen>>
  BY ReadTypes DEF PublishAgain, brokerVars
<1> HIDE DEF n
<1>2. /\ p \in Pages /\ p.at = page[v].at /\ p.cur = page[v].cur /\ p.await = n
      /\ p.log = page[v].log /\ p.tracked = page[v].tracked
  BY <1>1 DEF Pages
<1> HIDE DEF p
<1>3. ResultOfApplied(v)
  BY DEF AllRead, Reads
<1>4. Log(v)' = Log(v)
  BY <1>1, <1>2, SentParts DEF Log
<1>5. PageSends(v)
  BY <1>1, <1>2, <1>3, <1>4, SentParts DEF PageSends, ResultOfApplied, n
<1> QED
  BY <1>1, <1>2, <1>5, SentParts, SendingStep

\* What is remembered of a command that was run.
LEMMA TrackedFrom ==
    ASSUME NEW q \in Seq(Nat), NEW c \in Nat
    PROVE  ToSet(Tracked(q, c)) \subseteq ToSet(q) \union {c}
<1>1. CASE Len(q) < MaxTracked
  BY <1>1, AddedLast DEF Tracked
<1>2. CASE ~(Len(q) < MaxTracked)
  <2>1. q # <<>>
    BY <1>2, McpBridgeAssumption
  <2>2. Tail(q) \in Seq(Nat) /\ ToSet(Tail(q)) \subseteq ToSet(q)
    BY <2>1, FirstTaken
  <2> QED
    BY <1>2, <2>2, AddedLast DEF Tracked
<1> QED
  BY <1>1, <1>2

LEMMA AppliedParts ==
    ASSUME IInv, AllRead, NEW v \in Views, NEW at \in {"publishing", "submitting"}, HasNext(v)
    PROVE  LET p == Applied(v, at)
               c == Head(page[v].inbox)
           IN  /\ p \in Pages /\ p.at = at /\ p.cur = c /\ p.await = page[v].seq + 1
               /\ p.seq = page[v].seq /\ p.log = Append(page[v].log, c)
               /\ ToSet(p.log) = Log(v) \union {c} /\ ToSet(p.tracked) \subseteq ToSet(p.log)
<1> DEFINE c == Head(page[v].inbox)
           p == Applied(v, at)
<1>1. /\ page[v] \in Pages /\ page[v].inbox \in Seq(Nat) /\ page[v].inbox # <<>>
      /\ page[v].log \in Seq(Nat) /\ page[v].tracked \in Seq(Nat)
  BY DEF IInv, Typed, Pages, HasNext
<1>2. c \in Nat
  BY <1>1, FirstTaken, SetOf
<1>3. p \in Pages
  BY AppliedTyped
<1>4. /\ p.at = at /\ p.cur = c /\ p.await = page[v].seq + 1 /\ p.seq = page[v].seq
      /\ p.log = Append(page[v].log, c) /\ p.tracked = Tracked(page[v].tracked, c)
  BY <1>1 DEF Applied, Pages
<1>5. ToSet(p.log) = Log(v) \union {c}
  BY <1>1, <1>2, <1>4, AddedLast DEF Log
<1>6. ToSet(p.tracked) \subseteq ToSet(page[v].tracked) \union {c} /\ ToSet(page[v].tracked) \subseteq Log(v)
  BY <1>1, <1>2, <1>4, TrackedFrom DEF AllRead, Reads, ResultOfApplied
<1> HIDE DEF p
<1> QED
  BY <1>3, <1>4, <1>5, <1>6 DEF p

LEMMA ApplyReads == ASSUME IInv, AllRead, IInv', NEW v \in Views, Apply(v) PROVE AllRead'
<1> DEFINE p == Applied(v, "publishing")
           c == Head(page[v].inbox)
<1>1. /\ HasNext(v) /\ Published(v, p) /\ UNCHANGED <<view, status, target, unseen>>
      /\ page[v].at = "idle"
  BY DEF Apply, brokerVars, HasNext
<1>2. /\ p \in Pages /\ p.at = "publishing" /\ p.cur = c /\ p.await = page[v].seq + 1
      /\ p.log = Append(page[v].log, c) /\ c \in ToSet(p.log) /\ ToSet(p.tracked) \subseteq ToSet(p.log)
  BY <1>1, AppliedParts
<1> HIDE DEF p, c
<1>3. Log(v)' = ToSet(p.log)
  BY <1>1, <1>2, SentParts DEF Log
<1>4. PageSends(v)
  BY <1>1, <1>2, <1>3, SentParts DEF PageSends
<1> QED
  BY <1>1, <1>2, <1>4, SentParts, SendingStep

LEMMA ApplyFailsReads == ASSUME IInv, AllRead, IInv', NEW u \in Views, ApplyFails(u) PROVE AllRead'
<1> DEFINE p == Applied(u, "submitting")
           c == Head(page[u].inbox)
<1>1. /\ HasNext(u) /\ page' = [page EXCEPT ![u] = p] /\ unseen' = unseen \union {c}
      /\ UNCHANGED <<view, status, target, net>> /\ page[u].at = "idle"
  BY DEF ApplyFails, brokerVars, HasNext
<1>2. /\ p \in Pages /\ p.at = "submitting" /\ p.cur = c /\ p.seq = page[u].seq
      /\ p.log = Append(page[u].log, c) /\ c \in ToSet(p.log) /\ ToSet(p.tracked) \subseteq ToSet(p.log)
  BY <1>1, AppliedParts
<1> HIDE DEF p, c
<1>3. \A w \in Views : page'[w] = IF w = u THEN p ELSE page[w]
  BY <1>1 DEF IInv, Typed
<1> SUFFICES ASSUME NEW v \in Views PROVE Reads(v)'
  BY DEF AllRead
<1>4. Reads(v) /\ BrokerRests(v)
  BY <1>1, BrokerUntouched DEF AllRead
<1>5. CASE v = u
  <2>1. Log(v)' = ToSet(p.log)
    BY <1>3, <1>5 DEF Log
  <2> QED
    BY <1>1, <1>2, <1>3, <1>4, <1>5, <2>1, FailingReads
<1>6. CASE v # u
  BY <1>1, <1>3, <1>4, <1>6, PageUntouched, RestReads
<1> QED
  BY <1>5, <1>6

LEMMA HandleViewReads ==
    ASSUME IInv, AllRead, IInv', NEW u \in Views, NEW m \in net[u], HandleView(u, m)
    PROVE  AllRead'
<1>1. net' = [net EXCEPT ![u] = net[u] \ {m}] /\ UNCHANGED <<status, target, unseen>>
  BY DEF HandleView
<1>2. /\ Pruned \in [Views -> BrokerViews]
      /\ page \in [Views -> Pages] /\ net \in [Views -> SUBSET Publishes]
  BY PrunedTyped DEF IInv, Typed
<1> SUFFICES ASSUME NEW v \in Views PROVE Reads(v)'
  BY DEF AllRead
<1>3. Reads(v) /\ Pending(v)' = Pending(v)
  BY <1>1 DEF AllRead, Pending
<1>4. CASE v # u
  <2>1. view'[v] = Pruned[v]
    BY <1>2, <1>4 DEF HandleView
  <2>2. page'[v] = page[v] /\ net'[v] = net[v]
    BY <1>1, <1>2, <1>4 DEF HandleView, PublishAnswered
  <2> QED
    BY <1>1, <1>3, <2>1, <2>2, PageUntouched, PrunedRests, RestReads
<1>5. CASE v = u
  <2>1. net'[v] = net[v] \ {m} /\ m \in net[v]
    BY <1>1, <1>2, <1>5
  <2>2. CASE Refuses(v)
    <3>1. view'[v] = Pruned[v] /\ page'[v] = page[v]
      BY <1>5, <2>2 DEF HandleView
    <3> QED
      BY <1>1, <1>3, <2>1, <3>1, PageUntouched, PrunedRests, RestReads
  <2>3. CASE ~Refuses(v)
    <3>1. /\ page'[v].log = page[v].log /\ page'[v].seq = page[v].seq /\ page'[v].cur = page[v].cur
          /\ page'[v].await = page[v].await /\ page'[v].tracked = page[v].tracked
          /\ \/ page'[v].at = page[v].at
             \/ page[v].at = "publishing" /\ page[v].await = m.seq /\ page'[v].at = "submitting"
      <4> DEFINE p == [page[v] EXCEPT !.at = "submitting"]
      <4>1. p.log = page[v].log /\ p.seq = page[v].seq /\ p.cur = page[v].cur
            /\ p.await = page[v].await /\ p.tracked = page[v].tracked /\ p.at = "submitting"
        BY <1>2 DEF Pages
      <4>2. \/ page'[v] = page[v]
            \/ page[v].at = "publishing" /\ page[v].await = m.seq /\ page'[v] = p
        BY <1>2, <1>5, <2>3 DEF HandleView, PublishAnswered
      <4> HIDE DEF p
      <4> QED
        BY <4>1, <4>2
    <3>2. CASE Pruned[v] = NoView \/ Newer(v, m)
      <4> DEFINE r == [seq |-> m.seq, snap |-> m.snap, queue |-> Pruned[v].queue, fresh |-> TRUE]
      <4>1. view'[v] = r
        BY <1>2, <1>5, <2>3, <3>2 DEF HandleView
      <4>2. r.seq = m.seq /\ r.snap = m.snap
        OBVIOUS
      <4> HIDE DEF r
      <4>3. view[v].seq < m.seq \/ Pending(v) = {}
        <5>1. CASE Pruned[v] = NoView
          BY <1>3, <5>1, UnheldUnwaited
        <5>2. CASE Newer(v, m)
          BY <2>1, <5>2, ReadTypes DEF Newer
        <5> QED
          BY <3>2, <5>1, <5>2
      <4> QED
        BY <1>1, <1>3, <2>1, <3>1, <4>1, <4>2, <4>3, TakenReads
    <3>3. CASE ~(Pruned[v] = NoView \/ Newer(v, m))
      <4>1. view'[v] = Pruned[v] /\ Pruned[v] = view[v]
        BY <1>5, <2>3, <3>3 DEF HandleView, Pruned
      <4>2. m.seq <= view[v].seq
        BY <2>1, <3>3, ReadTypes DEF Newer
      <4> QED
        BY <1>1, <1>3, <2>1, <3>1, <4>1, <4>2, TakenReads
    <3> QED
      BY <3>2, <3>3
  <2> QED
    BY <2>2, <2>3
<1> QED
  BY <1>4, <1>5

-----------------------------------------------------------------------------
(* The property *)

LEMMA ReadsStep == IInv /\ AllRead /\ [Next]_vars => AllRead'
<1> SUFFICES ASSUME IInv, AllRead, [Next]_vars PROVE AllRead'
  OBVIOUS
<1>1. IInv'
  BY Step
<1>2. ASSUME UNCHANGED <<net, unseen>>, \A v \in Views : PageRests(v) /\ BrokerRests(v) PROVE AllRead'
  BY <1>1, <1>2, RestReads DEF AllRead
<1>3. ASSUME UNCHANGED <<page, net, unseen>>, \A v \in Views : BrokerRests(v) PROVE AllRead'
  BY <1>2, <1>3, PageUntouched DEF AllRead
<1>4. ASSUME NEW c \in Calls, Abandon(c) PROVE AllRead'
  BY <1>3, <1>4, EndingRests DEF Abandon
<1>5. ASSUME NEW c \in Calls, NEW v \in Views, Call(c, v) PROVE AllRead'
  BY <1>1, <1>5, CallReads
<1>6. CASE Look \/ Close
  BY <1>1, <1>3, <1>6, LookReads, CloseRests DEF Close
<1>7. ASSUME NEW v \in Views, GoesStale(v) \/ SubmitUnanswered(v) PROVE AllRead'
  BY <1>3, <1>7, GoesStaleRests, ResultRests DEF GoesStale, SubmitUnanswered
<1>8. ASSUME NEW v \in Views, Heartbeat(v) \/ PublishAgain(v) \/ Hook(v) PROVE AllRead'
  BY <1>1, <1>8, HeartbeatReads, PublishAgainReads, ApplyReads, ApplyFailsReads, ReplayReads, SubmitReads,
     GivingUpReads DEF Hook
<1>9. ASSUME NEW v \in Views, NEW m \in net[v], HandleView(v, m) PROVE AllRead'
  BY <1>1, <1>9, HandleViewReads
<1>10. ASSUME NEW s \in Streams, \/ Peek(s) \/ Wake(s) \/ Gone(s) \/ Tick(s) \/ Break(s)
                                 \/ \E v \in Views : Open(s, v)
       PROVE  AllRead'
  BY <1>3, <1>10, BrokerUntouched DEF Peek, Wake, Gone, Tick, Break, Open, StreamStep, brokerVars
<1>11. ASSUME NEW s \in Streams, Write(s) PROVE AllRead'
  <2> DEFINE u == stream[s].view
             q == Append(page[u].inbox, stream[s].head)
             p == [page[u] EXCEPT !.inbox = q]
  <2>1. UNCHANGED <<view, status, target, net, unseen>> /\ u \in Views /\ page[u] \in Pages
    BY <1>11 DEF Write, StreamStep, brokerVars, IInv, Typed, Handlers
  <2>2. \A v \in Views : BrokerRests(v)
    BY <2>1, BrokerUntouched
  <2>3. CASE page' = page
    BY <1>3, <2>1, <2>2, <2>3
  <2>4. CASE page' = [page EXCEPT ![u] = p]
    <3>1. q \in Seq(Nat)
      BY <2>1 DEF Pages, IInv, Typed, Handlers
    <3> HIDE DEF q
    <3>2. /\ p \in Pages /\ p.log = page[u].log /\ p.seq = page[u].seq /\ p.await = page[u].await
          /\ p.tracked = page[u].tracked /\ p.at = page[u].at /\ p.cur = page[u].cur
      BY <2>1, <3>1 DEF Pages
    <3> HIDE DEF p, u
    <3>3. page[u].at # "idle" => page[u].cur \in Log(u)
      BY <2>1 DEF AllRead, Reads, ResultOfApplied
    <3> QED
      BY <1>1, <2>1, <2>2, <2>4, <3>2, <3>3, RestingStep
  <2> QED
    BY <1>11, <2>3, <2>4 DEF Write
<1>12. CASE UNCHANGED vars
  BY <1>3, <1>12, BrokerUntouched DEF vars, brokerVars
<1> QED
  BY <1>4, <1>5, <1>6, <1>7, <1>8, <1>9, <1>10, <1>11, <1>12 DEF Next, Handler

\* A result that the broker takes is of a command whose effect is published.
LEMMA ResultIsRead ==
    ASSUME IInv, AllRead, NEW v \in Views, page[v].at = "submitting", HandleResult(v),
           NEW c \in Calls, status[c] = "pending", status'[c] = "answered", c \notin unseen
    PROVE  Position(c) <= view[target[c]].snap
<1>1. c = page[v].cur /\ c \in Pending(v) /\ target[c] = v
  BY DEF HandleResult, Pending, brokerVars, IInv, Typed
<1>2. c \in Log(v) /\ Reads(v)
  BY <1>1 DEF AllRead, Reads, ResultOfApplied
<1>3. \E i \in DOMAIN page[v].log : page[v].log[i] = c
  BY <1>2, ReadTypes, SetOf DEF Log
<1>4. Position(c) \in DOMAIN page[v].log /\ page[v].log[Position(c)] = c
  BY <1>1, <1>3 DEF Position
<1> QED
  BY <1>1, <1>2, <1>4 DEF Reads, Shown

\* useMcpBridge.ts, publishSnapshot and submitResult, with bridge.go, handleView
\* and handleResult: whatever is lost, repeated or out of order between them,
\* the snapshot that an agent reads after its call has the call's effect, unless
\* the page gave up publishing it.
THEOREM ReadsOwnWriteHeld == Spec => ReadsOwnWrite
<1>1. Init => AllRead
  <2> SUFFICES ASSUME Init, NEW v \in Views PROVE Reads(v)
    BY DEF AllRead
  <2>1. /\ view[v].seq = 0 /\ view[v].snap = 0 /\ ~view[v].fresh /\ net[v] = {}
        /\ page[v].at = "idle" /\ page[v].seq = 0 /\ page[v].log = <<>> /\ page[v].tracked = <<>>
    BY DEF Init, NoView
  <2>2. Pending(v) = {}
    BY DEF Init, Pending
  <2>3. ToSet(<<>>) = {} /\ Len(<<>>) = 0 /\ DOMAIN <<>> = {}
    BY DEF ToSet
  <2>4. InOrder(v) /\ HeldInOrder(v) /\ AwaitedShows(v)
    BY <2>1, <2>3 DEF InOrder, HeldInOrder, AwaitedShows
  <2>5. ResultOfApplied(v) /\ Shown(v) /\ ServesPublished(v)
    BY <2>1, <2>2, <2>3 DEF ResultOfApplied, Shown, ServesPublished
  <2> QED
    BY <2>4, <2>5 DEF Reads
<1>2. IInv /\ AllRead /\ [Next]_vars =>
      [\A c \in Calls : status[c] = "pending" /\ status'[c] = "answered" /\ c \notin unseen
                        => Position(c) <= view[target[c]].snap]_vars
  <2> SUFFICES ASSUME IInv, AllRead, Next, NEW c \in Calls, status[c] = "pending",
                      status'[c] = "answered", c \notin unseen
               PROVE  Position(c) <= view[target[c]].snap
    OBVIOUS
  <2>1. \E v \in Views : page[v].at = "submitting" /\ HandleResult(v)
    <3>1. status' # status
      OBVIOUS
    <3>2. ASSUME NEW d \in Calls, Abandon(d) \/ \E v \in Views : Call(d, v) PROVE FALSE
      BY <3>2 DEF Abandon, Call, IInv, Typed
    <3>3. ~Look /\ ~Close
      BY <3>1 DEF Look, Close
    <3>4. ASSUME NEW v \in Views, \/ Heartbeat(v) \/ GoesStale(v) \/ PublishAgain(v) \/ Apply(v) \/ ApplyFails(v)
                                  \/ Replay(v) \/ SubmitGivesUp(v) \/ PublishGivesUp(v)
                                  \/ (\E m \in net[v] : HandleView(v, m)) \/ \E s \in Streams : Open(s, v)
          PROVE  FALSE
      BY <3>1, <3>4 DEF Heartbeat, GoesStale, PublishAgain, Apply, ApplyFails, Replay, SubmitGivesUp,
                        PublishGivesUp, HandleView, Open, brokerVars
    <3>5. ASSUME NEW s \in Streams, Handler(s) \/ Tick(s) \/ Break(s) PROVE FALSE
      BY <3>1, <3>5 DEF Handler, Peek, Write, Wake, Gone, Tick, Break, StreamStep, brokerVars
    <3> QED
      BY <3>2, <3>3, <3>4, <3>5 DEF Next, Hook, Submit, SubmitUnanswered
  <2> QED
    BY <2>1, ResultIsRead
<1> QED
  BY <1>1, <1>2, Start, Step, ReadsStep, PTL DEF Spec, ReadsOwnWrite
=============================================================================
