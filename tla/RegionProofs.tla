----------------------------- MODULE RegionProofs -----------------------------
(***************************************************************************)
(* That the parts and the packs of a region cover it, and that a region    *)
(* that is shown as downloaded is.                                         *)
(***************************************************************************)
EXTENDS Library, FiniteSetTheorems, SequenceTheorems, WellFoundedInduction, TLAPS

-----------------------------------------------------------------------------
(* What the proofs below need of finite sets and numbers, and induction over     *)
(* them: the least counterexample of a finite set of numbers.  Recursion is      *)
(* that a recursive function over an interval exists, step by step.             *)
LEMMA SmallestPart ==
    ASSUME NEW S, IsFiniteSet(S), NEW B, B \subseteq SUBSET S, B # {}
    PROVE  \E T \in B : \A U \in B : U \subseteq T => U = T
<1>1. IsWellFoundedOn(StrictSubsetOrdering(S), SUBSET S)
  BY FS_StrictSubsetOrderingWellFounded, FS_FiniteSubsetsOfFinite
<1>2. \E T \in B : \A U \in B : <<U, T>> \notin StrictSubsetOrdering(S)
  BY <1>1, WFMin
<1>3. PICK T \in B : \A U \in B : <<U, T>> \notin StrictSubsetOrdering(S)
  BY <1>2
<1>4. ASSUME NEW U \in B, U \subseteq T, U # T
      PROVE  FALSE
  <2>1. <<U, T>> \in StrictSubsetOrdering(S)
    BY <1>4 DEF StrictSubsetOrdering
  <2> QED
    BY <2>1, <1>3
<1> QED
  BY <1>4

LEMMA Least ==
    ASSUME NEW S, S \subseteq Nat, S # {}
    PROVE  \E m \in S : \A k \in S : m <= k
<1>1. PICK top \in S : top \in Nat
  OBVIOUS
<1> DEFINE T == S \cap (0 .. top)
           B == {0 .. k : k \in T}
           R == 0 .. top
<1>2. top \in T
  BY <1>1
<1>3. B # {} /\ B \subseteq SUBSET R
  BY <1>1, <1>2
<1>4. IsFiniteSet(R)
  BY <1>1, FS_Interval
<1>5. PICK U \in B : \A W \in B : W \subseteq U => W = U
  <2> HIDE DEF B, R
  <2> QED
    BY <1>3, <1>4, SmallestPart
<1>6. PICK m \in T : U = 0 .. m
  BY <1>5
<1>7. ASSUME NEW k \in S, k < m PROVE FALSE
  <2>1. k \in T /\ 0 .. k \subseteq 0 .. m
    BY <1>1, <1>6, <1>7
  <2>2. m \in 0 .. m /\ m \notin 0 .. k
    BY <1>1, <1>6, <1>7
  <2> QED
    BY <1>5, <1>6, <2>1, <2>2
<1> QED
  BY <1>1, <1>6, <1>7

LEMMA Induction ==
    ASSUME NEW lo \in Nat, NEW hi \in Nat, NEW S, lo \in S,
           \A i \in lo .. hi : i # lo /\ i - 1 \in S => i \in S
    PROVE  \A i \in lo .. hi : i \in S
<1> DEFINE bad == {i \in lo .. hi : i \notin S}
<1> SUFFICES ASSUME bad # {} PROVE FALSE
  OBVIOUS
<1>1. bad \subseteq Nat
  OBVIOUS
<1>2. PICK m \in bad : \A k \in bad : m <= k
  <2> HIDE DEF bad
  <2> QED
    BY <1>1, Least
<1>3. m \in lo .. hi /\ m # lo /\ m - 1 \in lo .. hi
  BY <1>2
<1>4. m - 1 \notin bad
  BY <1>2, <1>3
<1> QED
  BY <1>2, <1>3, <1>4

Recurses(f, lo, hi, base, step) ==
    \A i \in lo .. hi : f[i] = IF i = lo THEN base ELSE step[<<i, f[i - 1]>>]

LEMMA Recursion ==
    ASSUME NEW lo \in Nat, NEW hi \in Nat, lo <= hi,
           NEW V, NEW base \in V, NEW step \in [(lo .. hi) \X V -> V]
    PROVE  \E f \in [lo .. hi -> V] : Recurses(f, lo, hi, base, step)
<1> DEFINE Upto(k, f) == \A i \in lo .. k : f[i] = IF i = lo THEN base ELSE step[<<i, f[i - 1]>>]
           good == {k \in lo .. hi : \E f \in [lo .. k -> V] : Upto(k, f)}
<1>1. lo \in good
  <2> DEFINE f == [i \in lo .. lo |-> base]
  <2>1. f \in [lo .. lo -> V] /\ Upto(lo, f)
    OBVIOUS
  <2>2. lo \in lo .. hi
    OBVIOUS
  <2> HIDE DEF f, Upto
  <2> QED
    BY <2>1, <2>2
<1>2. ASSUME NEW m \in lo .. hi, m # lo, m - 1 \in good
      PROVE  m \in good
  <2>1. PICK g \in [lo .. m - 1 -> V] : Upto(m - 1, g)
    BY <1>2
  <2> DEFINE f == [i \in lo .. m |-> IF i = m THEN step[<<m, g[m - 1]>>] ELSE g[i]]
  <2>2. f \in [lo .. m -> V]
    BY <1>2, <2>1
  <2>3. ASSUME NEW i \in lo .. m PROVE f[i] = IF i = lo THEN base ELSE step[<<i, f[i - 1]>>]
    <3>0. i # lo => i - 1 \in lo .. m /\ i - 1 # m /\ f[i - 1] = g[i - 1]
      OBVIOUS
    <3>1. CASE i = m
      <4>1. f[i] = step[<<m, g[m - 1]>>]
        BY <3>1
      <4> HIDE DEF f
      <4> QED
        BY <4>1, <1>2, <3>0, <3>1
    <3>2. CASE i # m
      <4>1. i \in lo .. m - 1 /\ f[i] = g[i]
        BY <3>2
      <4> HIDE DEF f
      <4> QED
        BY <4>1, <3>0, <2>1
    <3> QED
      BY <3>1, <3>2
  <2>4. Upto(m, f)
    <3> HIDE DEF f
    <3> QED
      BY <2>3
  <2> HIDE DEF f, Upto
  <2> QED
    BY <2>2, <2>4
<1>3. hi \in good
  <2>1. hi \in lo .. hi
    OBVIOUS
  <2> HIDE DEF good
  <2> QED
    BY <1>1, <1>2, <2>1, Induction
<1> QED
  BY <1>3 DEF Recurses

LEMMA Greatest ==
    ASSUME NEW S, S \subseteq Int, IsFiniteSet(S), S # {}
    PROVE  \E m \in S : \A k \in S : k <= m
<1> DEFINE Above(m) == {k \in S : k > m}
           B == {Above(m) : m \in S}
           R == S
<1>1. B # {} /\ B \subseteq SUBSET R /\ IsFiniteSet(R)
  OBVIOUS
<1>2. PICK U \in B : \A W \in B : W \subseteq U => W = U
  <2> HIDE DEF B, R
  <2> QED
    BY <1>1, SmallestPart
<1>3. PICK m \in S : U = Above(m)
  BY <1>2
<1>4. ASSUME NEW k \in S, k > m PROVE FALSE
  <2>1. k \in Above(m) /\ k \notin Above(k)
    BY <1>4
  <2>2. ASSUME NEW i \in Above(k) PROVE i \in Above(m)
    BY <1>4
  <2>3. Above(k) \in B /\ Above(k) \subseteq U
    <3> HIDE DEF Above
    <3> QED
      BY <1>3, <2>2
  <2> QED
    BY <1>2, <1>3, <2>1, <2>3
<1> QED
  BY <1>4

LEMMA FiniteImage ==
    ASSUME NEW S, IsFiniteSet(S), NEW f, DOMAIN f = S
    PROVE  IsFiniteSet({f[k] : k \in S})
<1> DEFINE T == {f[k] : k \in S}
           g == [k \in S |-> f[k]]
<1>1. g \in Surjection(S, T)
  BY DEF Surjection
<1> QED
  BY <1>1, FS_Surjection


LEMMA DivLe ==
    ASSUME NEW d \in Nat \ {0}, NEW a \in Int, NEW b \in Int, a <= b
    PROVE  a \div d <= b \div d
OBVIOUS

-----------------------------------------------------------------------------
(* Boxes on the circle of longitudes *)
LEMMA RegionConstants ==
    /\ Half \in Nat \ {0} /\ PartMapTiles \in Nat \ {0} /\ PartTerrainTiles \in Nat \ {0} /\ MaxGridParts \in Nat \ {0}
    /\ SplitDepth \in Nat /\ MaxNesting \in Nat
    /\ MaxZoom \in Nat /\ MinZoom \in 0 .. MaxZoom /\ TerrainZoom \in 0 .. MaxZoom
    /\ Plans!Circle = 2 * Half /\ Plans!Circle \in Nat \ {0}
BY LibraryAssumption DEF Plans!Circle

LEMMA BoxFields ==
    ASSUME NEW b \in Plans!Boxes
    PROVE  /\ b.south \in 0 .. Plans!Circle /\ b.north \in 0 .. Plans!Circle /\ b.south <= b.north
           /\ b.west \in -Half .. Half - 1 /\ b.east \in -Half .. Half - 1
           /\ b = [south |-> b.south, west |-> b.west, north |-> b.north, east |-> b.east]
BY DEF Plans!Boxes

LEMMA BoxIs ==
    ASSUME NEW south \in 0 .. Plans!Circle, NEW north \in 0 .. Plans!Circle, south <= north,
           NEW west \in -Half .. Half - 1, NEW east \in -Half .. Half - 1
    PROVE  [south |-> south, north |-> north, west |-> west, east |-> east] \in Plans!Boxes
BY DEF Plans!Boxes

LEMMA ModSmall ==
    ASSUME NEW d \in Nat \ {0}, NEW a \in Int
    PROVE  /\ 0 <= a /\ a < d => a % d = a
           /\ d <= a /\ a < 2 * d => a % d = a - d
OBVIOUS

LEMMA Wraps ==
    ASSUME NEW x \in Int, -Half <= x, x < Half + Plans!Circle
    PROVE  /\ Plans!WrapLongitude(x) \in -Half .. Half - 1
           /\ ((x + Half) % Plans!Circle) - Half = Plans!WrapLongitude(x)
           /\ Plans!WrapLongitude(x) = x \/ Plans!WrapLongitude(x) = x - Plans!Circle
<1>1. Half \in Nat \ {0} /\ Plans!Circle = 2 * Half /\ Plans!Circle \in Nat \ {0}
  BY RegionConstants
<1>2. x + Half \in Int /\ 0 <= x + Half /\ x + Half < 2 * Plans!Circle
  BY <1>1
<1> DEFINE a == x + Half
           d == Plans!Circle
<1>3. CASE x < Half
  <2>1. a \in Int /\ d \in Nat \ {0} /\ 0 <= a /\ a < d
    BY <1>1, <1>2, <1>3
  <2>2. a % d = a
    <3> HIDE DEF a, d
    <3> QED
      BY <2>1, ModSmall
  <2>3. Plans!WrapLongitude(x) = x
    BY <1>1, <1>3 DEF Plans!WrapLongitude
  <2> QED
    BY <1>1, <1>3, <2>2, <2>3
<1>4. CASE x >= Half
  <2>1. a \in Int /\ d \in Nat \ {0} /\ d <= a /\ a < 2 * d
    BY <1>1, <1>2, <1>4
  <2>2. a % d = a - d
    <3> HIDE DEF a, d
    <3> QED
      BY <2>1, ModSmall
  <2>3. Plans!WrapLongitude(x) = x - d
    BY <1>1, <1>4 DEF Plans!WrapLongitude
  <2> QED
    BY <1>1, <1>2, <1>4, <2>2, <2>3
<1>5. x < Half \/ x >= Half
  BY <1>1
<1> QED
  BY <1>3, <1>4, <1>5

LEMMA WrapsOnce ==
    ASSUME NEW x \in Int, NEW k \in Nat, -Half <= x, x + k < Half + Plans!Circle
    PROVE  Plans!WrapLongitude(Plans!WrapLongitude(x) + k) = Plans!WrapLongitude(x + k)
BY RegionConstants DEF Plans!WrapLongitude

LEMMA WrapsApart ==
    ASSUME NEW x \in Int, NEW y \in Int, x < y, y < x + Plans!Circle, -Half <= x, y < Half + Plans!Circle
    PROVE  Plans!WrapLongitude(x) # Plans!WrapLongitude(y)
BY RegionConstants DEF Plans!WrapLongitude

LEMMA SpanOf ==
    ASSUME NEW b \in Plans!Boxes
    PROVE  /\ Plans!LongitudeSpan(b) \in 0 .. Plans!Circle - 1
           /\ Plans!WrapLongitude(b.west + Plans!LongitudeSpan(b)) = b.east
           /\ Plans!WrapLongitude(b.west) = b.west
BY RegionConstants, BoxFields DEF Plans!LongitudeSpan, Plans!WrapLongitude

-----------------------------------------------------------------------------
(* A window into a box: some of its longitudes, counted from its western edge,    *)
(* and some of its latitudes.                                                   *)
Window(b, from, to, south, north) ==
    [south |-> south, north |-> north,
     west |-> Plans!WrapLongitude(b.west + from), east |-> Plans!WrapLongitude(b.west + to)]

FitsBox(b, from, to, south, north) ==
    /\ from \in Nat /\ to \in Nat /\ from <= to /\ to <= Plans!LongitudeSpan(b)
    /\ south \in Nat /\ north \in Nat /\ b.south <= south /\ south <= north /\ north <= b.north

LEMMA WindowIsBox ==
    ASSUME NEW b \in Plans!Boxes, NEW from, NEW to, NEW south, NEW north, FitsBox(b, from, to, south, north)
    PROVE  /\ Window(b, from, to, south, north) \in Plans!Boxes
           /\ Plans!LongitudeSpan(Window(b, from, to, south, north)) = to - from
<1> DEFINE W == Window(b, from, to, south, north)
<1>1. /\ Half \in Nat \ {0} /\ Plans!Circle = 2 * Half
      /\ b.west \in -Half .. Half - 1 /\ b.north \in 0 .. Plans!Circle /\ b.south \in 0 .. Plans!Circle
  BY RegionConstants, BoxFields
<1>2. Plans!LongitudeSpan(b) \in 0 .. Plans!Circle - 1
  BY SpanOf
<1>3. /\ from \in Nat /\ to \in Nat /\ from <= to /\ to < Plans!Circle
      /\ south \in 0 .. Plans!Circle /\ north \in 0 .. Plans!Circle /\ south <= north
  BY <1>1, <1>2 DEF FitsBox
<1>4. Plans!WrapLongitude(b.west + from) \in -Half .. Half - 1 /\ Plans!WrapLongitude(b.west + to) \in -Half .. Half - 1
  BY <1>1, <1>3 DEF Plans!WrapLongitude
<1>5. W \in Plans!Boxes
  BY <1>3, <1>4, BoxIs DEF Window
<1>6. Plans!LongitudeSpan(W) = to - from
  BY <1>1, <1>3 DEF Window, Plans!LongitudeSpan, Plans!WrapLongitude
<1> QED
  BY <1>5, <1>6

Spot(b, k, y) == <<Plans!WrapLongitude(b.west + k), y>>

LEMMA WindowSquares ==
    ASSUME NEW b \in Plans!Boxes, NEW from, NEW to, NEW south, NEW north, FitsBox(b, from, to, south, north)
    PROVE  Plans!Squares(Window(b, from, to, south, north))
               = {Spot(b, k, y) : k \in from .. to - 1, y \in south .. north - 1}
<1> DEFINE W == Window(b, from, to, south, north)
           left == Plans!WrapLongitude(b.west + from)
<1>1. /\ Half \in Nat \ {0} /\ Plans!Circle = 2 * Half /\ b.west \in -Half .. Half - 1
  BY RegionConstants, BoxFields
<1>2. from \in Nat /\ to \in Nat /\ from <= to /\ to < Plans!Circle
  BY <1>1, SpanOf DEF FitsBox
<1>3. Plans!Squares(W) = {<<((left + j + Half) % Plans!Circle) - Half, y>> : j \in 0 .. (to - from) - 1, y \in south .. north - 1}
  <2>1. Plans!LongitudeSpan(W) = to - from /\ W.west = left /\ W.south = south /\ W.north = north
    BY WindowIsBox DEF Window
  <2> HIDE DEF W, left
  <2> QED
    BY <2>1 DEF Plans!Squares
<1>4. ASSUME NEW j \in 0 .. (to - from) - 1
      PROVE  /\ from + j \in from .. to - 1
             /\ ((left + j + Half) % Plans!Circle) - Half = Plans!WrapLongitude(b.west + (from + j))
  <2>1. j \in Nat /\ b.west + from \in Int /\ -Half <= b.west + from /\ (b.west + from) + j < Half + Plans!Circle
    BY <1>1, <1>2
  <2>2. Plans!WrapLongitude(left + j) = Plans!WrapLongitude((b.west + from) + j)
    BY <2>1, WrapsOnce
  <2>3. left \in -Half .. Half - 1
    BY <1>1, <1>2 DEF Plans!WrapLongitude
  <2>4. left + j \in Int /\ -Half <= left + j /\ left + j < Half + Plans!Circle
    BY <1>1, <1>2, <2>3
  <2>5. ((left + j + Half) % Plans!Circle) - Half = Plans!WrapLongitude(left + j)
    <3> HIDE DEF left
    <3> QED
      BY <2>4, Wraps
  <2>6. (b.west + from) + j = b.west + (from + j)
    BY <1>1, <1>2
  <2> QED
    BY <1>2, <2>2, <2>5, <2>6
<1>5. ASSUME NEW k \in from .. to - 1
      PROVE  k - from \in 0 .. (to - from) - 1 /\ from + (k - from) = k
  BY <1>2, <1>5
<1> HIDE DEF W, left
<1>6. ASSUME NEW j \in 0 .. (to - from) - 1, NEW y \in south .. north - 1
      PROVE  <<((left + j + Half) % Plans!Circle) - Half, y>> \in {Spot(b, k, z) : k \in from .. to - 1, z \in south .. north - 1}
  BY <1>4 DEF Spot
<1>7. ASSUME NEW k \in from .. to - 1, NEW y \in south .. north - 1
      PROVE  Spot(b, k, y) \in Plans!Squares(W)
  <2>1. Spot(b, k, y) = <<((left + (k - from) + Half) % Plans!Circle) - Half, y>>
    BY <1>4, <1>5, Zenon DEF Spot
  <2> QED
    BY <1>3, <1>5, <2>1
<1> DEFINE T == {Spot(b, k, y) : k \in from .. to - 1, y \in south .. north - 1}
<1>8. ASSUME NEW s \in Plans!Squares(W) PROVE s \in T
  <2>1. PICK j \in 0 .. (to - from) - 1, y \in south .. north - 1 :
            s = <<((left + j + Half) % Plans!Circle) - Half, y>>
    BY <1>3
  <2> QED
    BY <1>6, <2>1
<1>9. ASSUME NEW s \in T PROVE s \in Plans!Squares(W)
  BY <1>7
<1>10. Plans!Squares(W) = T
  <2> HIDE DEF T
  <2> QED
    BY <1>8, <1>9
<1> QED
  BY <1>10 DEF W

LEMMA SpotsApart ==
    ASSUME NEW b \in Plans!Boxes, NEW j \in Nat, NEW k \in Nat,
           j < Plans!LongitudeSpan(b), k < Plans!LongitudeSpan(b), NEW y, NEW z, Spot(b, j, y) = Spot(b, k, z)
    PROVE  j = k /\ y = z
<1>1. /\ Half \in Nat \ {0} /\ Plans!Circle = 2 * Half /\ b.west \in -Half .. Half - 1
      /\ Plans!LongitudeSpan(b) \in 0 .. Plans!Circle - 1
  BY RegionConstants, BoxFields, SpanOf
<1>2. y = z /\ Plans!WrapLongitude(b.west + j) = Plans!WrapLongitude(b.west + k)
  BY DEF Spot
<1>3. b.west + j \in Int /\ b.west + k \in Int /\ b.west + j < Half + Plans!Circle /\ b.west + k < Half + Plans!Circle
  BY <1>1
<1>4. ~(j < k)
  BY <1>1, <1>2, <1>3, WrapsApart
<1>5. ~(k < j)
  BY <1>1, <1>2, <1>3, WrapsApart
<1> QED
  BY <1>2, <1>4, <1>5

LEMMA WholeWindow ==
    ASSUME NEW b \in Plans!Boxes
    PROVE  /\ Window(b, 0, Plans!LongitudeSpan(b), b.south, b.north) = b
           /\ FitsBox(b, 0, Plans!LongitudeSpan(b), b.south, b.north)
<1>1. b.west + 0 = b.west /\ b.south \in Nat /\ b.north \in Nat /\ Plans!LongitudeSpan(b) \in Nat /\ b.south <= b.north
  BY RegionConstants, BoxFields, SpanOf
<1>2. b = [south |-> b.south, west |-> b.west, north |-> b.north, east |-> b.east]
  BY BoxFields
<1> QED
  BY <1>1, <1>2, SpanOf DEF Window, FitsBox

-----------------------------------------------------------------------------
(* A stretch of whole units cut into pieces by rounding down *)
Marks(size, pieces) == [c \in 0 .. pieces |-> (size * c) \div pieces]

LEMMA TimesLe ==
    ASSUME NEW s \in Nat, NEW c \in Nat, NEW d \in Nat, c <= d
    PROVE  s * c <= s * d /\ s * c \in Nat /\ s * d \in Nat
OBVIOUS

LEMMA TimesMore ==
    ASSUME NEW c \in Nat, NEW x \in Int, NEW y \in Int, x <= y
    PROVE  x * c <= y * c /\ x * c \in Int /\ y * c \in Int
OBVIOUS

LEMMA DivWhole ==
    ASSUME NEW s \in Nat, NEW n \in Nat \ {0}
    PROVE  (s * n) \div n = s /\ (s * 0) \div n = 0
<1>1. s * n \in Nat /\ s * 0 = 0
  OBVIOUS
<1>2. (s * n) \div n = s
  OBVIOUS
<1>3. 0 \div n = 0
  OBVIOUS
<1> QED
  BY <1>1, <1>2, <1>3

LEMMA StepsRise ==
    ASSUME NEW s \in Nat, NEW n \in Nat \ {0}
    PROVE  /\ Marks(s, n)[0] = 0 /\ Marks(s, n)[n] = s
           /\ \A c \in 0 .. n : Marks(s, n)[c] \in 0 .. s
           /\ \A c, d \in 0 .. n : c <= d => Marks(s, n)[c] <= Marks(s, n)[d]
<1>1. ASSUME NEW c \in 0 .. n PROVE Marks(s, n)[c] = (s * c) \div n /\ Marks(s, n)[c] \in Int
  <2>1. s * c \in Int
    OBVIOUS
  <2>2. (s * c) \div n \in Int
    BY <2>1
  <2> QED
    BY <2>2 DEF Marks
<1>2. 0 \in 0 .. n /\ n \in 0 .. n
  OBVIOUS
<1>3. Marks(s, n)[0] = 0 /\ Marks(s, n)[n] = s
  BY <1>1, <1>2, DivWhole
<1>4. ASSUME NEW c \in 0 .. n, NEW d \in 0 .. n, c <= d
      PROVE  Marks(s, n)[c] <= Marks(s, n)[d]
  <2>1. s * c <= s * d /\ s * c \in Int /\ s * d \in Int
    BY <1>4, TimesLe
  <2> DEFINE a == s * c
             e == s * d
  <2>2. a \div n <= e \div n
    <3> HIDE DEF a, e
    <3> QED
      BY <2>1, DivLe DEF a, e
  <2> QED
    BY <1>1, <2>2
<1>5. ASSUME NEW c \in 0 .. n PROVE Marks(s, n)[c] \in 0 .. s
  <2>1. Marks(s, n)[0] <= Marks(s, n)[c] /\ Marks(s, n)[c] <= Marks(s, n)[n]
    BY <1>2, <1>4
  <2> QED
    BY <1>1, <1>3, <2>1
<1> QED
  BY <1>3, <1>4, <1>5

LEMMA StepAt ==
    ASSUME NEW s \in Nat, NEW n \in Nat \ {0}, NEW k \in Nat, k < s
    PROVE  \E c \in 0 .. n - 1 : Marks(s, n)[c] <= k /\ k < Marks(s, n)[c + 1]
<1> DEFINE f == Marks(s, n)
           late == {c \in 0 .. n : k < f[c]}
<1>1. f[0] = 0 /\ f[n] = s /\ \A c \in 0 .. n : f[c] \in 0 .. s
  BY StepsRise
<1>2. n \in late /\ late \subseteq Nat
  BY <1>1
<1>3. PICK m \in late : \A c \in late : m <= c
  <2> HIDE DEF late
  <2> QED
    BY <1>2, Least
<1>4. m \in 0 .. n /\ m # 0 /\ m - 1 \in 0 .. n - 1 /\ m - 1 \in 0 .. n /\ (m - 1) + 1 = m
  BY <1>1, <1>3
<1>5. m - 1 \notin late
  BY <1>3, <1>4
<1>6. f[m - 1] <= k
  BY <1>1, <1>4, <1>5
<1> QED
  BY <1>3, <1>4, <1>6

\* Two pieces have nothing in common.
LEMMA StepsApart ==
    ASSUME NEW s \in Nat, NEW n \in Nat \ {0}, NEW c \in 0 .. n - 1, NEW d \in 0 .. n - 1, NEW k \in Int,
           Marks(s, n)[c] <= k, k < Marks(s, n)[c + 1], Marks(s, n)[d] <= k, k < Marks(s, n)[d + 1]
    PROVE  c = d
<1>1. /\ c \in 0 .. n /\ d \in 0 .. n /\ c + 1 \in 0 .. n /\ d + 1 \in 0 .. n
      /\ c \in Int /\ d \in Int
  OBVIOUS
<1>2. \A i \in 0 .. n : Marks(s, n)[i] \in Int
  BY StepsRise
<1>3. \A i, j \in 0 .. n : i <= j => Marks(s, n)[i] <= Marks(s, n)[j]
  BY StepsRise
<1>4. ~(c + 1 <= d)
  BY <1>1, <1>2, <1>3
<1>5. ~(d + 1 <= c)
  BY <1>1, <1>2, <1>3
<1> QED
  BY <1>1, <1>4, <1>5

LEMMA DivBelow ==
    ASSUME NEW d \in Nat \ {0}, NEW m \in Nat, NEW a \in Int, 0 <= a, a < d * m
    PROVE  a \div d \in 0 .. m - 1
OBVIOUS

\* A grid is counted row by row.
RowOf(columns, k) == (k - 1) \div columns

ColumnOf(columns, k) == (k - 1) % columns

LEMMA GridIndex ==
    ASSUME NEW rows \in Nat \ {0}, NEW columns \in Nat \ {0}, NEW k \in 1 .. rows * columns
    PROVE  /\ RowOf(columns, k) \in 0 .. rows - 1 /\ ColumnOf(columns, k) \in 0 .. columns - 1
           /\ k = columns * RowOf(columns, k) + ColumnOf(columns, k) + 1
<1> DEFINE a == k - 1
<1>1. rows * columns \in Nat /\ columns * rows = rows * columns
  OBVIOUS
<1>2. a \in Int /\ 0 <= a /\ a < columns * rows /\ k = a + 1
  BY <1>1
<1>3. a \div columns \in Int /\ a % columns \in 0 .. columns - 1 /\ a = columns * (a \div columns) + (a % columns)
  BY <1>2
<1>4. a \div columns \in 0 .. rows - 1
  <2> HIDE DEF a
  <2> QED
    BY <1>2, DivBelow
<1>5. columns * (a \div columns) \in Int
  BY <1>3
<1> QED
  BY <1>2, <1>3, <1>4, <1>5 DEF RowOf, ColumnOf

GridSlots(rows, columns) == 1 .. rows * columns

LEMMA GridPlace ==
    ASSUME NEW rows \in Nat \ {0}, NEW columns \in Nat \ {0}, NEW row \in 0 .. rows - 1, NEW column \in 0 .. columns - 1
    PROVE  \E k \in GridSlots(rows, columns) : RowOf(columns, k) = row /\ ColumnOf(columns, k) = column
<1> DEFINE a == columns * row + column
<1>1. columns * row \in Nat /\ columns * row <= columns * (rows - 1) /\ columns * (rows - 1) = rows * columns - columns
  BY TimesLe
<1>2. a \in Nat /\ a < rows * columns /\ rows * columns \in Nat
  BY <1>1
<1>3. a \div columns = row /\ a % columns = column
  BY <1>1
<1>4. a + 1 \in 1 .. rows * columns /\ (a + 1) - 1 = a
  BY <1>2
<1> QED
  BY <1>3, <1>4 DEF RowOf, ColumnOf, GridSlots

-----------------------------------------------------------------------------
(* The grid of a box *)
LEMMA PairMax ==
    ASSUME NEW x \in Int, NEW y \in Int
    PROVE  Plans!Max({x, y}) \in {x, y} /\ x <= Plans!Max({x, y}) /\ y <= Plans!Max({x, y})
<1>1. \E m \in {x, y} : \A z \in {x, y} : m >= z
  <2>1. CASE x >= y
    BY <2>1
  <2>2. CASE y >= x
    BY <2>2
  <2> QED
    BY <2>1, <2>2
<1>2. Plans!Max({x, y}) \in {x, y} /\ \A z \in {x, y} : Plans!Max({x, y}) >= z
  BY <1>1 DEF Plans!Max
<1> QED
  BY <1>2

LEMMA PairMin ==
    ASSUME NEW x \in Int, NEW y \in Int
    PROVE  Plans!Min({x, y}) \in {x, y} /\ Plans!Min({x, y}) <= x /\ Plans!Min({x, y}) <= y
<1>1. \E m \in {x, y} : \A z \in {x, y} : m <= z
  <2>1. CASE x <= y
    BY <2>1
  <2>2. CASE y <= x
    BY <2>2
  <2> QED
    BY <2>1, <2>2
<1>2. Plans!Min({x, y}) \in {x, y} /\ \A z \in {x, y} : Plans!Min({x, y}) <= z
  BY <1>1 DEF Plans!Min
<1> QED
  BY <1>2

CellOf(b, rows, columns, k) == Plans!GridCell(b, rows, columns, (k - 1) \div columns, (k - 1) % columns)

LEMMA CellIsWindow ==
    ASSUME NEW b \in Plans!Boxes, NEW rows \in Nat \ {0}, NEW columns \in Nat \ {0},
           NEW row \in 0 .. rows - 1, NEW column \in 0 .. columns - 1,
           NEW across, across = Marks(Plans!LongitudeSpan(b), columns), NEW down, down = Marks(b.north - b.south, rows)
    PROVE  /\ Plans!GridCell(b, rows, columns, row, column)
                  = Window(b, across[column], across[column + 1], b.north - down[row + 1], b.north - down[row])
           /\ FitsBox(b, across[column], across[column + 1], b.north - down[row + 1], b.north - down[row])
           /\ across[column] \in Nat /\ across[column + 1] \in Nat /\ down[row] \in Nat /\ down[row + 1] \in Nat
<1> DEFINE span == Plans!LongitudeSpan(b)
           height == b.north - b.south
<1>1. span \in Nat /\ height \in Nat /\ b.north \in Nat /\ b.south \in Nat /\ b.west \in Int
  BY RegionConstants, BoxFields, SpanOf
<1>2. column \in 0 .. columns /\ column + 1 \in 0 .. columns /\ row \in 0 .. rows /\ row + 1 \in 0 .. rows
      /\ (row = rows - 1 <=> row + 1 = rows) /\ (column = columns - 1 <=> column + 1 = columns)
  OBVIOUS
<1>3. /\ across[column] = (span * column) \div columns /\ across[column + 1] = (span * (column + 1)) \div columns
      /\ down[row] = (height * row) \div rows /\ down[row + 1] = (height * (row + 1)) \div rows
  BY <1>2 DEF Marks
<1>4. /\ across[columns] = span /\ across[column] \in 0 .. span /\ across[column + 1] \in 0 .. span
      /\ across[column] <= across[column + 1]
  <2> HIDE DEF span
  <2> QED
    BY <1>1, <1>2, StepsRise DEF span
<1>5. /\ down[rows] = height /\ down[row] \in 0 .. height /\ down[row + 1] \in 0 .. height /\ down[row] <= down[row + 1]
  <2> HIDE DEF height
  <2> QED
    BY <1>1, <1>2, StepsRise DEF height
<1>6. column = columns - 1 => Plans!WrapLongitude(b.west + across[column + 1]) = b.east
  BY <1>2, <1>4, SpanOf
<1>7. row = rows - 1 => b.north - down[row + 1] = b.south
  BY <1>1, <1>2, <1>5
<1>8. Plans!GridCell(b, rows, columns, row, column)
          = [south |-> IF row = rows - 1 THEN b.south ELSE b.north - down[row + 1],
             north |-> b.north - down[row],
             west |-> Plans!WrapLongitude(b.west + across[column]),
             east |-> IF column = columns - 1 THEN b.east ELSE Plans!WrapLongitude(b.west + across[column + 1])]
  BY <1>3, Zenon DEF Plans!GridCell
<1>9. Plans!GridCell(b, rows, columns, row, column)
          = Window(b, across[column], across[column + 1], b.north - down[row + 1], b.north - down[row])
  BY <1>6, <1>7, <1>8 DEF Window
<1>10. FitsBox(b, across[column], across[column + 1], b.north - down[row + 1], b.north - down[row])
  BY <1>1, <1>4, <1>5 DEF FitsBox
<1> QED
  BY <1>1, <1>4, <1>5, <1>9, <1>10

\* Boxes, at the indices of a set, that cover a box without overlap.
Tiled(boxes, I, b) ==
    /\ \A i \in I : boxes[i] \in Plans!Boxes /\ Plans!Squares(boxes[i]) \subseteq Plans!Squares(b)
    /\ \A s \in Plans!Squares(b) : \E i \in I : s \in Plans!Squares(boxes[i])
    /\ \A i, j \in I : i # j => Plans!Squares(boxes[i]) \cap Plans!Squares(boxes[j]) = {}

Cells(b, rows, columns) == [k \in 1 .. rows * columns |-> CellOf(b, rows, columns, k)]

InCell(b, across, down, row, column, k, y) ==
    /\ across[column] <= k /\ k < across[column + 1]
    /\ b.north - down[row + 1] <= y /\ y < b.north - down[row]

\* The squares of a cell, by their place in the box.
CellHolds(cell, b, across, down, row, column) ==
    /\ cell \in Plans!Boxes
    /\ \A s : s \in Plans!Squares(cell) <=>
              \E k, y \in Int : s = Spot(b, k, y) /\ InCell(b, across, down, row, column, k, y)

LEMMA CellSquares ==
    ASSUME NEW b \in Plans!Boxes, NEW rows \in Nat \ {0}, NEW columns \in Nat \ {0},
           NEW row \in 0 .. rows - 1, NEW column \in 0 .. columns - 1,
           NEW across, across = Marks(Plans!LongitudeSpan(b), columns), NEW down, down = Marks(b.north - b.south, rows)
    PROVE  CellHolds(Plans!GridCell(b, rows, columns, row, column), b, across, down, row, column)
<1> DEFINE from == across[column]
           to == across[column + 1]
           south == b.north - down[row + 1]
           north == b.north - down[row]
           cell == Plans!GridCell(b, rows, columns, row, column)
<1>1. cell = Window(b, from, to, south, north) /\ FitsBox(b, from, to, south, north)
  BY CellIsWindow
<1>2. from \in Nat /\ to \in Nat /\ south \in Nat /\ north \in Nat
  BY <1>1 DEF FitsBox
<1>3. \A k, y \in Int : InCell(b, across, down, row, column, k, y) <=> k \in from .. to - 1 /\ y \in south .. north - 1
  <2> HIDE DEF from, to, south, north
  <2>1. \A k, y \in Int : InCell(b, across, down, row, column, k, y) <=> from <= k /\ k < to /\ south <= y /\ y < north
    BY DEF InCell, from, to, south, north
  <2> QED
    BY <1>2, <2>1
<1> HIDE DEF from, to, south, north, cell
<1>4. cell \in Plans!Boxes /\ Plans!Squares(cell) = {Spot(b, k, y) : k \in from .. to - 1, y \in south .. north - 1}
  BY <1>1, WindowIsBox, WindowSquares
<1>5. from .. to - 1 \subseteq Int /\ south .. north - 1 \subseteq Int
  BY <1>2
<1>6. \A s : s \in Plans!Squares(cell) <=> \E k, y \in Int : s = Spot(b, k, y) /\ InCell(b, across, down, row, column, k, y)
  BY <1>3, <1>4, <1>5
<1> QED
  BY <1>4, <1>6 DEF cell, CellHolds

LEMMA BoxSquares ==
    ASSUME NEW b \in Plans!Boxes
    PROVE  \A s : s \in Plans!Squares(b) <=>
                  \E k, y \in Int : /\ s = Spot(b, k, y)
                                    /\ 0 <= k /\ k < Plans!LongitudeSpan(b) /\ b.south <= y /\ y < b.north
<1>1. Plans!Squares(b) = {Spot(b, k, y) : k \in 0 .. Plans!LongitudeSpan(b) - 1, y \in b.south .. b.north - 1}
  BY WholeWindow, WindowSquares
<1>2. Plans!LongitudeSpan(b) \in Int /\ b.south \in Int /\ b.north \in Int
  BY BoxFields, SpanOf
<1> QED
  BY <1>1, <1>2

LEMMA GridTiled ==
    ASSUME NEW b \in Plans!Boxes, NEW rows \in Nat \ {0}, NEW columns \in Nat \ {0}
    PROVE  Tiled(Cells(b, rows, columns), 1 .. rows * columns, b)
<1> DEFINE I == 1 .. rows * columns
           boxes == Cells(b, rows, columns)
           span == Plans!LongitudeSpan(b)
           height == b.north - b.south
           across == Marks(span, columns)
           down == Marks(height, rows)
           Row(i) == RowOf(columns, i)
           Column(i) == ColumnOf(columns, i)
<1>1. /\ span \in Nat /\ height \in Nat /\ b.north \in Nat /\ b.south \in Nat /\ b.south <= b.north
  BY RegionConstants, BoxFields, SpanOf
<1>2. ASSUME NEW i \in I
      PROVE  /\ Row(i) \in 0 .. rows - 1 /\ Column(i) \in 0 .. columns - 1 /\ i = columns * Row(i) + Column(i) + 1
             /\ boxes[i] = Plans!GridCell(b, rows, columns, Row(i), Column(i))
  <2>1. Row(i) \in 0 .. rows - 1 /\ Column(i) \in 0 .. columns - 1 /\ i = columns * Row(i) + Column(i) + 1
    BY GridIndex
  <2>2. boxes[i] = CellOf(b, rows, columns, i)
    BY DEF Cells
  <2> QED
    BY <2>1, <2>2 DEF CellOf, RowOf, ColumnOf
<1>3. /\ \A c \in 0 .. columns : across[c] \in 0 .. span
      /\ \A r \in 0 .. rows : down[r] \in 0 .. height
  <2> HIDE DEF span, height
  <2> QED
    BY <1>1, StepsRise
<1> HIDE DEF I, boxes, Row, Column
<1>4. ASSUME NEW i \in I
      PROVE  /\ boxes[i] \in Plans!Boxes
             /\ \A s : s \in Plans!Squares(boxes[i]) <=>
                       \E k, y \in Int : s = Spot(b, k, y) /\ InCell(b, across, down, Row(i), Column(i), k, y)
  <2> HIDE DEF across, down
  <2>1. across = Marks(Plans!LongitudeSpan(b), columns) /\ down = Marks(b.north - b.south, rows)
    BY DEF across, down
  <2> DEFINE cell == Plans!GridCell(b, rows, columns, Row(i), Column(i))
  <2>2. CellHolds(cell, b, across, down, Row(i), Column(i))
    BY <1>2, <2>1, CellSquares
  <2>3. boxes[i] = cell
    BY <1>2
  <2> HIDE DEF cell
  <2> QED
    BY <2>2, <2>3 DEF CellHolds
<1>5. ASSUME NEW i \in I, NEW k \in Int, NEW y \in Int, InCell(b, across, down, Row(i), Column(i), k, y)
      PROVE  0 <= k /\ k < span /\ b.south <= y /\ y < b.north
  <2>1. /\ Column(i) \in 0 .. columns /\ Column(i) + 1 \in 0 .. columns
        /\ Row(i) \in 0 .. rows /\ Row(i) + 1 \in 0 .. rows
    BY <1>2
  <2>2. /\ across[Column(i)] \in 0 .. span /\ across[Column(i) + 1] \in 0 .. span
        /\ down[Row(i)] \in 0 .. height /\ down[Row(i) + 1] \in 0 .. height
    BY <1>3, <2>1
  <2> HIDE DEF across, down, span
  <2> QED
    BY <1>1, <1>5, <2>2 DEF InCell
<1>6. ASSUME NEW i \in I, NEW s \in Plans!Squares(boxes[i])
      PROVE  s \in Plans!Squares(b)
  <2>1. PICK k \in Int, y \in Int : s = Spot(b, k, y) /\ InCell(b, across, down, Row(i), Column(i), k, y)
    BY <1>4, <1>6
  <2> QED
    BY <1>5, <2>1, BoxSquares
<1>7. ASSUME NEW s \in Plans!Squares(b)
      PROVE  \E i \in I : s \in Plans!Squares(boxes[i])
  <2>1. PICK k \in Int, y \in Int : s = Spot(b, k, y) /\ 0 <= k /\ k < span /\ b.south <= y /\ y < b.north
    BY <1>7, BoxSquares
  <2>2. PICK column \in 0 .. columns - 1 : across[column] <= k /\ k < across[column + 1]
    <3>1. k \in Nat
      BY <2>1
    <3> HIDE DEF span
    <3> QED
      BY <1>1, <2>1, <3>1, StepAt
  <2> DEFINE h == b.north - 1 - y
  <2>3. h \in Nat /\ h < height
    BY <1>1, <2>1
  <2>4. PICK row \in 0 .. rows - 1 : down[row] <= h /\ h < down[row + 1]
    <3> HIDE DEF height, h
    <3> QED
      BY <1>1, <2>3, StepAt
  <2>5. down[row] \in Int /\ down[row + 1] \in Int
    <3>1. row \in 0 .. rows /\ row + 1 \in 0 .. rows
      OBVIOUS
    <3> HIDE DEF down
    <3> QED
      BY <1>1, <1>3, <3>1
  <2>6. InCell(b, across, down, row, column, k, y)
    <3> HIDE DEF across, down
    <3> QED
      BY <1>1, <2>1, <2>2, <2>4, <2>5 DEF InCell
  <2>7. PICK i \in I : Row(i) = row /\ Column(i) = column
    <3>1. \E i \in GridSlots(rows, columns) : RowOf(columns, i) = row /\ ColumnOf(columns, i) = column
      BY GridPlace
    <3> QED
      BY <3>1 DEF I, Row, Column, GridSlots
  <2>8. s \in Plans!Squares(boxes[i])
    <3> HIDE DEF across, down
    <3> QED
      BY <1>4, <2>1, <2>6, <2>7
  <2> QED
    BY <2>8
<1>8. ASSUME NEW i \in I, NEW j \in I, NEW s \in Plans!Squares(boxes[i]), s \in Plans!Squares(boxes[j])
      PROVE  i = j
  <2>1. PICK k \in Int, y \in Int : s = Spot(b, k, y) /\ InCell(b, across, down, Row(i), Column(i), k, y)
    BY <1>4, <1>8
  <2>2. PICK l \in Int, z \in Int : s = Spot(b, l, z) /\ InCell(b, across, down, Row(j), Column(j), l, z)
    BY <1>4, <1>8
  <2>3. 0 <= k /\ k < span /\ 0 <= l /\ l < span
    BY <1>5, <2>1, <2>2
  <2>4. k = l /\ y = z
    <3>1. k \in Nat /\ l \in Nat /\ Spot(b, k, y) = Spot(b, l, z)
      BY <2>1, <2>2, <2>3
    <3> QED
      BY <2>3, <3>1, SpotsApart
  <2>5. Column(i) = Column(j)
    <3>1. /\ across[Column(i)] <= k /\ k < across[Column(i) + 1]
          /\ across[Column(j)] <= k /\ k < across[Column(j) + 1]
      BY <2>1, <2>2, <2>4 DEF InCell
    <3> HIDE DEF span
    <3> QED
      BY <1>1, <1>2, <3>1, StepsApart
  <2>6. Row(i) = Row(j)
    <3> DEFINE h == b.north - 1 - y
    <3>1. /\ b.north - down[Row(i) + 1] <= y /\ y < b.north - down[Row(i)]
          /\ b.north - down[Row(j) + 1] <= y /\ y < b.north - down[Row(j)]
      BY <2>1, <2>2, <2>4 DEF InCell
    <3>2. /\ down[Row(i)] \in Int /\ down[Row(i) + 1] \in Int
          /\ down[Row(j)] \in Int /\ down[Row(j) + 1] \in Int
      <4>1. Row(i) \in 0 .. rows /\ Row(i) + 1 \in 0 .. rows /\ Row(j) \in 0 .. rows /\ Row(j) + 1 \in 0 .. rows
        BY <1>2
      <4> HIDE DEF down
      <4> QED
        BY <1>1, <1>3, <4>1
    <3>3. /\ h \in Int /\ down[Row(i)] <= h /\ h < down[Row(i) + 1]
          /\ down[Row(j)] <= h /\ h < down[Row(j) + 1]
      <4> HIDE DEF down
      <4> QED
        BY <1>1, <3>1, <3>2
    <3> HIDE DEF height, h
    <3> QED
      BY <1>1, <1>2, <3>3, StepsApart
  <2> QED
    BY <1>2, <2>5, <2>6
<1>9. Tiled(boxes, I, b)
  <2>1. ASSUME NEW i \in I, NEW j \in I, i # j
        PROVE  Plans!Squares(boxes[i]) \cap Plans!Squares(boxes[j]) = {}
    BY <1>8, <2>1
  <2> QED
    BY <1>4, <1>6, <1>7, <2>1 DEF Tiled
<1> QED
  BY <1>9 DEF boxes, I

-----------------------------------------------------------------------------
(* How many tiles a box touches, and into how many parts it is cut *)
LEMMA SidesAreWide ==
    ASSUME NEW z \in 0 .. MaxZoom
    PROVE  Plans!Side[z] \in Nat \ {0}
<1> DEFINE n == MaxZoom
           V == Nat \ {0}
           step == [s \in (0 .. n) \X V |-> 2 * s[2]]
           Fixed(f) == f = [i \in 0 .. n |-> IF i = 0 THEN 1 ELSE 2 * f[i - 1]]
           sides == CHOOSE f : Fixed(f)
           good == {i \in 0 .. n : sides[i] \in V}
<1>1. n \in Nat /\ 0 \in Nat /\ 1 \in V /\ 0 \in 0 .. n /\ 0 <= n
  BY RegionConstants
<1>2. \E f : Fixed(f)
  <2>1. step \in [(0 .. n) \X V -> V]
    OBVIOUS
  <2>2. PICK f \in [0 .. n -> V] : Recurses(f, 0, n, 1, step)
    <3> HIDE DEF step, V, n
    <3> QED
      BY <1>1, <2>1, Recursion
  <2>3. ASSUME NEW i \in 0 .. n PROVE f[i] = IF i = 0 THEN 1 ELSE 2 * f[i - 1]
    <3>1. i # 0 => i - 1 \in 0 .. n
      BY <1>1
    <3>2. i # 0 => <<i, f[i - 1]>> \in (0 .. n) \X V
      BY <2>2, <3>1
    <3> QED
      BY <2>2, <3>1, <3>2 DEF Recurses
  <2>4. Fixed(f)
    BY <2>3
  <2> HIDE DEF Fixed
  <2> QED
    BY <2>4
<1>3. Fixed(sides)
  BY <1>2
<1> HIDE DEF sides
<1>4. 0 \in good
  BY <1>1, <1>3
<1>5. ASSUME NEW i \in 0 .. n, i # 0, i - 1 \in good
      PROVE  i \in good
  BY <1>3, <1>5
<1>6. z \in good
  <2> HIDE DEF good
  <2> QED
    BY <1>1, <1>4, <1>5, Induction
<1>7. Plans!Side[z] = sides[z]
  BY DEF Plans!Side, sides
<1> QED
  BY <1>6, <1>7

LEMMA PlaceOnSide ==
    ASSUME NEW d \in Nat \ {0}, NEW n \in Nat \ {0}, NEW a \in Int
    PROVE  (a * n) \div d \in Int
OBVIOUS

LEMMA TilesAreInt ==
    ASSUME NEW b \in Plans!Boxes, NEW z \in 0 .. MaxZoom
    PROVE  Plans!TilesAt(b, z) \in Int
<1> DEFINE n == Plans!Side[z]
           Column(lon) == Plans!Min({n - 1, ((lon + Half) * n) \div Plans!Circle})
           Row(lat) == ((Plans!Circle - lat) * n) \div Plans!Circle
           last == Plans!Min({n - 1, Row(b.south)})
           columns == IF b.east >= b.west THEN Column(b.east) - Column(b.west) + 1
                      ELSE n - Column(b.west) + Column(b.east) + 1
           rows == last - Row(b.north) + 1
<1>1. n \in Nat \ {0} /\ Plans!Circle \in Nat \ {0} /\ Half \in Int
  BY SidesAreWide, RegionConstants
<1>2. b.west \in Int /\ b.east \in Int /\ b.south \in Int /\ b.north \in Int
  BY BoxFields
<1> HIDE DEF n
<1>3. ASSUME NEW a \in Int PROVE Plans!Min({n - 1, (a * n) \div Plans!Circle}) \in Int
  <2> DEFINE place == (a * n) \div Plans!Circle
  <2>1. place \in Int /\ n - 1 \in Int
    BY <1>1, PlaceOnSide
  <2> HIDE DEF place
  <2>2. Plans!Min({n - 1, place}) \in {n - 1, place}
    BY <2>1, PairMin
  <2>3. Plans!Min({n - 1, place}) \in Int
    BY <2>1, <2>2
  <2> QED
    BY <2>3 DEF place
<1>4. b.east + Half \in Int /\ b.west + Half \in Int /\ Plans!Circle - b.south \in Int /\ Plans!Circle - b.north \in Int
  BY <1>1, <1>2
<1>5. Column(b.east) \in Int /\ Column(b.west) \in Int /\ last \in Int /\ Row(b.north) \in Int
  BY <1>1, <1>3, <1>4, PlaceOnSide
<1> HIDE DEF Column, Row, last
<1>6. columns \in Int /\ rows \in Int
  BY <1>1, <1>2, <1>5
<1>7. Plans!TilesAt(b, z) = columns * rows
  BY Zenon DEF Plans!TilesAt, Column, Row, last, n
<1> HIDE DEF columns, rows
<1> QED
  BY <1>6, <1>7

LEMMA CountIsInt ==
    ASSUME NEW b \in Plans!Boxes
    PROVE  Plans!TileCount(b) \in Int
<1> DEFINE T(z) == Plans!TilesAt(b, z)
           base == T(MinZoom)
           step == [s \in (MinZoom .. MaxZoom) \X Int |-> s[2] + T(s[1])]
           Fixed(f) == f = [z \in MinZoom .. MaxZoom |-> IF z = MinZoom THEN T(z) ELSE f[z - 1] + T(z)]
           upto == CHOOSE f : Fixed(f)
           good == {z \in MinZoom .. MaxZoom : upto[z] \in Int}
<1>1. MinZoom \in Nat /\ MaxZoom \in Nat /\ MinZoom <= MaxZoom /\ MinZoom \in MinZoom .. MaxZoom /\ MaxZoom \in MinZoom .. MaxZoom
  BY RegionConstants
<1>2. \A z \in MinZoom .. MaxZoom : T(z) \in Int
  BY <1>1, TilesAreInt
<1> HIDE DEF T
<1>3. \E f : Fixed(f)
  <2>1. base \in Int /\ step \in [(MinZoom .. MaxZoom) \X Int -> Int]
    BY <1>1, <1>2
  <2>2. PICK f \in [MinZoom .. MaxZoom -> Int] : Recurses(f, MinZoom, MaxZoom, base, step)
    <3> HIDE DEF step, base
    <3> QED
      BY <1>1, <2>1, Recursion
  <2>3. ASSUME NEW z \in MinZoom .. MaxZoom PROVE f[z] = IF z = MinZoom THEN T(z) ELSE f[z - 1] + T(z)
    <3>1. z # MinZoom => z - 1 \in MinZoom .. MaxZoom
      BY <1>1
    <3>2. z # MinZoom => <<z, f[z - 1]>> \in (MinZoom .. MaxZoom) \X Int
      BY <2>2, <3>1
    <3> QED
      BY <2>2, <3>1, <3>2 DEF Recurses
  <2>4. Fixed(f)
    BY <2>3
  <2> HIDE DEF Fixed
  <2> QED
    BY <2>4
<1>4. Fixed(upto)
  BY <1>3
<1> HIDE DEF upto
<1>5. MinZoom \in good
  BY <1>1, <1>2, <1>4
<1>6. ASSUME NEW z \in MinZoom .. MaxZoom, z # MinZoom, z - 1 \in good
      PROVE  z \in good
  BY <1>2, <1>4, <1>6
<1>7. MaxZoom \in good
  <2> HIDE DEF good
  <2> QED
    BY <1>1, <1>5, <1>6, Induction
<1>8. Plans!TileCount(b) = upto[MaxZoom]
  BY Zenon DEF Plans!TileCount, upto, T
<1> QED
  BY <1>7, <1>8

LEMMA ColumnsAre ==
    ASSUME NEW count \in Nat, NEW span \in Nat, NEW height \in Nat
    PROVE  Plans!Columns(count, span, height) \in Nat \ {0}
<1> DEFINE most == count * span
           some == {c \in 1 .. most : (2 * c - 1) * (2 * c - 1) * height <= 4 * count * span}
           S == {1} \union some
<1>1. most \in Nat
  OBVIOUS
<1>2. IsFiniteSet(1 .. most)
  <2> HIDE DEF most
  <2> QED
    BY <1>1, FS_Interval
<1>3. some \subseteq 1 .. most
  OBVIOUS
<1> HIDE DEF most, some
<1>4. IsFiniteSet(some)
  BY <1>2, <1>3, FS_Subset
<1>5. IsFiniteSet({1})
  BY FS_Singleton
<1>6. IsFiniteSet(S)
  BY <1>4, <1>5, FS_Union
<1>7. S \subseteq Nat \ {0} /\ S # {} /\ S \subseteq Int
  BY <1>1, <1>3
<1> HIDE DEF S
<1>8. \E m \in S : \A k \in S : k <= m
  BY <1>6, <1>7, Greatest
<1>9. PICK m \in S : \A k \in S : k <= m
  BY <1>8
<1>10. \A k \in S : m >= k
  BY <1>7, <1>9
<1>11. Plans!Max(S) \in S
  BY <1>10 DEF Plans!Max
<1>12. Plans!Columns(count, span, height) = Plans!Max(S)
  BY DEF Plans!Columns, S, some, most
<1> QED
  BY <1>7, <1>11, <1>12

LEMMA CeilDivIs ==
    ASSUME NEW a \in Int, NEW d \in Nat \ {0}
    PROVE  /\ Plans!CeilDiv(a, d) \in Int /\ a <= Plans!CeilDiv(a, d) * d
           /\ a >= 1 => Plans!CeilDiv(a, d) >= 1
<1> DEFINE e == a + d - 1
           q == e \div d
<1>1. e \in Int /\ q \in Int /\ e % d \in 0 .. d - 1 /\ e = d * q + (e % d)
  OBVIOUS
<1>2. a <= q * d
  BY <1>1
<1>3. a >= 1 => q >= 1
  <2> SUFFICES ASSUME a >= 1, ~(q >= 1) PROVE FALSE
    OBVIOUS
  <2>1. q <= 0
    BY <1>1
  <2>2. d * q <= 0
    BY <1>1, <2>1
  <2> QED
    BY <1>1, <2>2
<1>4. Plans!CeilDiv(a, d) = q
  BY DEF Plans!CeilDiv
<1> HIDE DEF q, e
<1> QED
  BY <1>1, <1>2, <1>3, <1>4

LEMMA GridIs ==
    ASSUME NEW b \in Plans!Boxes, NEW count \in Nat
    PROVE  \E rows, columns \in Nat \ {0} : /\ Plans!Grid(b, count) = Cells(b, rows, columns)
                                            /\ count <= rows * columns
<1> DEFINE span == Plans!LongitudeSpan(b)
           height == b.north - b.south
           columns == Plans!Columns(count, span, height)
           least == Plans!CeilDiv(count, columns)
           rows == Plans!Max({1, least})
<1>1. span \in Nat /\ height \in Nat
  BY RegionConstants, BoxFields, SpanOf
<1>2. columns \in Nat \ {0}
  <2> HIDE DEF span, height
  <2> QED
    BY <1>1, ColumnsAre
<1> HIDE DEF span, height, columns
<1>3. least \in Int /\ count <= least * columns
  BY <1>2, CeilDivIs
<1> HIDE DEF least
<1>4. rows \in {1, least} /\ 1 <= rows /\ least <= rows
  <2>1. least \in Int /\ 1 \in Int
    BY <1>3
  <2> QED
    BY <2>1, PairMax
<1> HIDE DEF rows
<1>5. rows \in Nat \ {0}
  BY <1>3, <1>4
<1>6. least * columns <= rows * columns /\ least * columns \in Int /\ rows * columns \in Int
  BY <1>2, <1>3, <1>4, <1>5, TimesMore
<1>7. count <= rows * columns
  BY <1>3, <1>6
<1>8. Plans!Grid(b, count) = [k \in 1 .. rows * columns |->
                                  Plans!GridCell(b, rows, columns, (k - 1) \div columns, (k - 1) % columns)]
  BY Zenon DEF Plans!Grid, rows, least, columns, span, height
<1>9. Plans!Grid(b, count) = Cells(b, rows, columns)
  BY <1>8, Zenon DEF Cells, CellOf
<1> QED
  BY <1>2, <1>5, <1>7, <1>9

LEMMA SameInterval ==
    ASSUME NEW m \in Nat, NEW n \in Nat, 1 .. m = 1 .. n
    PROVE  m = n
<1>1. ~(m < n)
  <2> SUFFICES ASSUME m < n PROVE FALSE
    OBVIOUS
  <2>1. n \in 1 .. n /\ n \notin 1 .. m
    OBVIOUS
  <2> QED
    BY <2>1
<1>2. ~(n < m)
  <2> SUFFICES ASSUME n < m PROVE FALSE
    OBVIOUS
  <2>1. m \in 1 .. m /\ m \notin 1 .. n
    OBVIOUS
  <2> QED
    BY <2>1
<1> QED
  BY <1>1, <1>2

LEMMA CellsLength ==
    ASSUME NEW b, NEW rows \in Nat \ {0}, NEW columns \in Nat \ {0}
    PROVE  /\ DOMAIN Cells(b, rows, columns) = 1 .. rows * columns
           /\ rows * columns \in Nat /\ Len(Cells(b, rows, columns)) = rows * columns
<1>1. DOMAIN Cells(b, rows, columns) = 1 .. rows * columns
  BY DEF Cells
<1>2. rows * columns \in Nat
  OBVIOUS
<1>3. Cells(b, rows, columns) \in Seq({CellOf(b, rows, columns, k) : k \in 1 .. rows * columns})
  <2> DEFINE n == rows * columns
             V == {CellOf(b, rows, columns, k) : k \in 1 .. n}
             f == [k \in 1 .. n |-> CellOf(b, rows, columns, k)]
  <2>1. f \in [1 .. n -> V] /\ n \in Nat
    BY <1>2
  <2>2. f \in Seq(V)
    <3> HIDE DEF f, n, V
    <3> QED
      BY <2>1, IsASeq
  <2> QED
    BY <2>2 DEF Cells
<1>4. Len(Cells(b, rows, columns)) = rows * columns
  <2> DEFINE n == rows * columns
             s == Cells(b, rows, columns)
  <2>1. Len(s) \in Nat /\ DOMAIN s = 1 .. Len(s)
    BY <1>3, LenProperties
  <2>2. 1 .. Len(s) = 1 .. n /\ n \in Nat
    BY <1>1, <1>2, <2>1
  <2> HIDE DEF s, n
  <2>3. Len(s) = n
    BY <2>1, <2>2, SameInterval
  <2> QED
    BY <2>3 DEF s, n
<1> QED
  BY <1>1, <1>2, <1>4

LEMMA CountIs ==
    ASSUME NEW b \in Plans!Boxes, ~Plans!FitsOnePack(b)
    PROVE  Plans!GridCount(b, Plans!FirstParts(b)) \in Nat
<1> DEFINE first == Plans!FirstParts(b)
           x == Plans!CeilDiv(Plans!TileCount(b), PartMapTiles)
           y == Plans!CeilDiv(Plans!TilesAt(b, TerrainZoom), PartTerrainTiles)
           done == {n \in first .. first + MaxGridParts : Plans!GridDone(Plans!Grid(b, n))}
<1>1. /\ PartMapTiles \in Nat \ {0} /\ PartTerrainTiles \in Nat \ {0} /\ MaxGridParts \in Nat \ {0}
      /\ Plans!TileCount(b) \in Int /\ Plans!TilesAt(b, TerrainZoom) \in Int
  BY RegionConstants, CountIsInt, TilesAreInt
<1>2. Plans!TileCount(b) >= 1 \/ Plans!TilesAt(b, TerrainZoom) >= 1
  BY <1>1 DEF Plans!FitsOnePack
<1>3. x \in Int /\ y \in Int /\ (x >= 1 \/ y >= 1)
  BY <1>1, <1>2, CeilDivIs
<1> HIDE DEF x, y
<1>4. first \in Nat
  <2>1. Plans!Max({x, y}) \in {x, y} /\ x <= Plans!Max({x, y}) /\ y <= Plans!Max({x, y})
    BY <1>3, PairMax
  <2>2. first = Plans!Max({x, y})
    BY DEF Plans!FirstParts, x, y
  <2> QED
    BY <1>3, <2>1, <2>2
<1> HIDE DEF first
<1>5. first + MaxGridParts \in done
  <2>1. first + MaxGridParts \in Nat /\ MaxGridParts <= first + MaxGridParts
    BY <1>1, <1>4
  <2>2. PICK rows \in Nat \ {0}, columns \in Nat \ {0} :
            /\ Plans!Grid(b, first + MaxGridParts) = Cells(b, rows, columns)
            /\ first + MaxGridParts <= rows * columns
    BY <2>1, GridIs
  <2>3. Len(Plans!Grid(b, first + MaxGridParts)) = rows * columns /\ rows * columns \in Nat
    BY <2>2, CellsLength
  <2>4. Len(Plans!Grid(b, first + MaxGridParts)) >= MaxGridParts
    <3> DEFINE l == rows * columns
    <3>1. l \in Nat /\ first + MaxGridParts <= l /\ Len(Plans!Grid(b, first + MaxGridParts)) = l
      BY <2>2, <2>3
    <3> HIDE DEF l
    <3> QED
      BY <1>1, <2>1, <3>1
  <2>5. Plans!GridDone(Plans!Grid(b, first + MaxGridParts))
    BY <2>4 DEF Plans!GridDone
  <2> QED
    BY <1>1, <1>4, <2>5
<1>6. done \subseteq Nat /\ done # {}
  BY <1>1, <1>4, <1>5
<1>7. PICK n \in done : \A k \in done : n <= k
  <2> HIDE DEF done
  <2> QED
    BY <1>6, Least
<1>8. \A m \in first .. n - 1 : ~Plans!GridDone(Plans!Grid(b, m))
  <2> SUFFICES ASSUME NEW m \in first .. n - 1, Plans!GridDone(Plans!Grid(b, m)) PROVE FALSE
    OBVIOUS
  <2>1. m \in first .. first + MaxGridParts
    BY <1>1, <1>4, <1>7
  <2>2. m \in done /\ ~(n <= m)
    BY <1>4, <1>7, <2>1
  <2> QED
    BY <1>7, <2>2
<1>9. Plans!GridCount(b, first) \in first .. first + MaxGridParts
  <2>1. n \in first .. first + MaxGridParts /\ Plans!GridDone(Plans!Grid(b, n))
    BY <1>7
  <2> HIDE DEF done
  <2> QED
    BY <1>8, <2>1, Zenon DEF Plans!GridCount
<1> QED
  BY <1>1, <1>4, <1>9 DEF first

LEMMA GridPartsAre ==
    ASSUME NEW b \in Plans!Boxes, ~Plans!FitsOnePack(b)
    PROVE  \E rows, columns \in Nat \ {0} :
               Plans!GridParts(b) = [k \in 1 .. rows * columns |-> Plans!Piece(Cells(b, rows, columns)[k])]
<1> DEFINE grid == Plans!Grid(b, Plans!GridCount(b, Plans!FirstParts(b)))
<1>1. Plans!GridParts(b) = [k \in DOMAIN grid |-> Plans!Piece(grid[k])]
  BY Zenon DEF Plans!GridParts, Plans!Pieces
<1>2. PICK rows \in Nat \ {0}, columns \in Nat \ {0} : grid = Cells(b, rows, columns)
  BY CountIs, GridIs
<1>3. DOMAIN grid = 1 .. rows * columns
  BY <1>2, CellsLength
<1> HIDE DEF grid
<1> QED
  BY <1>1, <1>2, <1>3

-----------------------------------------------------------------------------
(* The parts of an area: pieces that cover it *)
LEMMA PieceIsArea ==
    ASSUME NEW b \in Plans!Boxes
    PROVE  /\ Plans!Piece(b) \in Plans!Areas /\ Plans!Piece(b).bounds = b /\ Plans!Piece(b).parts = <<>>
           /\ Plans!Piece(b) \in [bounds : Plans!Boxes, parts : {<<>>}]
<1> DEFINE V == [bounds : Plans!Boxes, parts : {<<>>}]
<1>1. <<>> \in Seq(V)
  <2> HIDE DEF V
  <2> QED
    BY EmptySeq
<1> QED
  BY <1>1 DEF Plans!Piece, Plans!Areas

Pieces == [bounds : Plans!Boxes, parts : {<<>>}]

LEMMA PiecesAreAreas == Seq(Pieces) \subseteq Seq(Plans!Areas)
<1>1. Pieces \subseteq Plans!Areas
  <2> SUFFICES ASSUME NEW p \in Pieces PROVE p \in Plans!Areas
    OBVIOUS
  <2>1. p.bounds \in Plans!Boxes /\ p.parts = <<>> /\ p = [bounds |-> p.bounds, parts |-> p.parts]
    BY DEF Pieces
  <2>2. p = Plans!Piece(p.bounds)
    BY <2>1 DEF Plans!Piece
  <2> QED
    BY <2>1, <2>2, PieceIsArea
<1> SUFFICES ASSUME NEW s \in Seq(Pieces) PROVE s \in Seq(Plans!Areas)
  OBVIOUS
<1>2. Len(s) \in Nat /\ DOMAIN s = 1 .. Len(s)
  BY LenProperties
<1>3. \A k \in 1 .. Len(s) : s[k] \in Plans!Areas
  BY <1>1, <1>2, ElementOfSeq
<1>4. s = [k \in 1 .. Len(s) |-> s[k]]
  BY LenProperties
<1>5. s \in [1 .. Len(s) -> Plans!Areas]
  BY <1>3, <1>4
<1> DEFINE n == Len(s)
<1>6. n \in Nat /\ s \in [1 .. n -> Plans!Areas]
  BY <1>2, <1>5
<1> HIDE DEF n
<1> QED
  BY <1>6, SeqDef

LEMMA WindowStraight ==
    ASSUME NEW b \in Plans!Boxes, NEW from, NEW to, NEW south, NEW north, FitsBox(b, from, to, south, north), b.west <= b.east
    PROVE  Window(b, from, to, south, north).west <= Window(b, from, to, south, north).east
<1>1. b.west \in Int /\ b.east \in Int /\ b.east < Half /\ Half \in Int
  BY RegionConstants, BoxFields
<1>2. from \in Int /\ to \in Int /\ from <= to /\ b.west + to <= b.east
  BY <1>1 DEF FitsBox, Plans!LongitudeSpan
<1>3. Plans!WrapLongitude(b.west + from) = b.west + from /\ Plans!WrapLongitude(b.west + to) = b.west + to
  BY <1>1, <1>2 DEF Plans!WrapLongitude
<1> QED
  BY <1>1, <1>2, <1>3 DEF Window

LEMMA CellStraight ==
    ASSUME NEW b \in Plans!Boxes, NEW rows \in Nat \ {0}, NEW columns \in Nat \ {0}, NEW k \in 1 .. rows * columns,
           b.west <= b.east
    PROVE  Cells(b, rows, columns)[k].west <= Cells(b, rows, columns)[k].east
<1> DEFINE across == Marks(Plans!LongitudeSpan(b), columns)
           down == Marks(b.north - b.south, rows)
           row == RowOf(columns, k)
           column == ColumnOf(columns, k)
           from == across[column]
           to == across[column + 1]
           south == b.north - down[row + 1]
           north == b.north - down[row]
           cell == Plans!GridCell(b, rows, columns, row, column)
<1>1. row \in 0 .. rows - 1 /\ column \in 0 .. columns - 1
  BY GridIndex
<1>2. cell = Window(b, from, to, south, north) /\ FitsBox(b, from, to, south, north)
  <2> HIDE DEF row, column
  <2> QED
    BY <1>1, CellIsWindow
<1>3. Cells(b, rows, columns)[k] = cell
  BY DEF Cells, CellOf, RowOf, ColumnOf
<1> HIDE DEF cell, from, to, south, north
<1>4. cell.west <= cell.east
  BY <1>2, WindowStraight
<1> QED
  BY <1>3, <1>4

\* What an area is cut into.  No part crosses the date line unless the area does.
Cut(parts, b) ==
    /\ parts \in Seq(Pieces) /\ parts # <<>>
    /\ b.west <= b.east => \A k \in DOMAIN parts : parts[k].bounds.west <= parts[k].bounds.east
    /\ Tiled([k \in DOMAIN parts |-> parts[k].bounds], DOMAIN parts, b)

LEMMA GridCut ==
    ASSUME NEW b \in Plans!Boxes, ~Plans!FitsOnePack(b)
    PROVE  Cut(Plans!GridParts(b), b)
<1> DEFINE parts == Plans!GridParts(b)
<1>1. PICK rows \in Nat \ {0}, columns \in Nat \ {0} :
          parts = [k \in 1 .. rows * columns |-> Plans!Piece(Cells(b, rows, columns)[k])]
  BY GridPartsAre
<1> DEFINE n == rows * columns
           cells == Cells(b, rows, columns)
<1>2. n \in Nat /\ n >= 1
  OBVIOUS
<1>3. Tiled(cells, 1 .. n, b)
  BY GridTiled
<1>4. DOMAIN cells = 1 .. n
  BY CellsLength
<1>5. cells = [k \in 1 .. n |-> cells[k]]
  BY <1>4 DEF Cells
<1>6. parts = [k \in 1 .. n |-> Plans!Piece(cells[k])]
  BY <1>1
<1> HIDE DEF n, cells, parts
<1>7. \A k \in 1 .. n : cells[k] \in Plans!Boxes
  BY <1>3 DEF Tiled
<1>8. \A k \in 1 .. n : parts[k] \in Pieces /\ parts[k].bounds = cells[k]
  BY <1>6, <1>7, PieceIsArea DEF Pieces
<1>9. parts \in Seq(Pieces)
  <2>1. parts \in [1 .. n -> Pieces]
    BY <1>6, <1>8
  <2> QED
    BY <1>2, <2>1, IsASeq
<1>10. DOMAIN parts = 1 .. n
  BY <1>6
<1>11. parts # <<>>
  <2>1. 1 \in DOMAIN parts
    BY <1>2, <1>10
  <2>2. DOMAIN <<>> = {}
    OBVIOUS
  <2> QED
    BY <2>1, <2>2
<1>12. [k \in DOMAIN parts |-> parts[k].bounds] = cells
  BY <1>5, <1>8, <1>10
<1>13. ASSUME b.west <= b.east, NEW k \in DOMAIN parts
       PROVE  parts[k].bounds.west <= parts[k].bounds.east
  <2>1. cells[k].west <= cells[k].east
    BY <1>10, <1>13, CellStraight DEF cells, n
  <2> QED
    BY <1>8, <1>10, <2>1
<1>14. Cut(parts, b)
  BY <1>3, <1>9, <1>10, <1>11, <1>12, <1>13 DEF Cut
<1> QED
  BY <1>14 DEF parts

LEMMA TwoCut ==
    ASSUME NEW b \in Plans!Boxes, NEW c \in Plans!Boxes, NEW d \in Plans!Boxes,
           \A s : s \in Plans!Squares(b) <=> s \in Plans!Squares(c) \/ s \in Plans!Squares(d),
           \A s : ~(s \in Plans!Squares(c) /\ s \in Plans!Squares(d)),
           b.west <= b.east => c.west <= c.east /\ d.west <= d.east
    PROVE  Cut(<<Plans!Piece(c), Plans!Piece(d)>>, b)
<1> DEFINE parts == <<Plans!Piece(c), Plans!Piece(d)>>
           boxes == [k \in DOMAIN parts |-> parts[k].bounds]
<1>1. Plans!Piece(c) \in Pieces /\ Plans!Piece(d) \in Pieces /\ Plans!Piece(c).bounds = c /\ Plans!Piece(d).bounds = d
  BY PieceIsArea DEF Pieces
<1>2. parts \in Seq(Pieces) /\ parts # <<>> /\ DOMAIN parts = {1, 2}
  BY <1>1
<1>3. boxes[1] = c /\ boxes[2] = d /\ parts[1].bounds = c /\ parts[2].bounds = d
  BY <1>1, <1>2
<1> HIDE DEF parts, boxes
<1>4. Tiled(boxes, {1, 2}, b)
  <2>1. \A i \in {1, 2} : boxes[i] \in Plans!Boxes /\ Plans!Squares(boxes[i]) \subseteq Plans!Squares(b)
    BY <1>3
  <2>2. \A s \in Plans!Squares(b) : \E i \in {1, 2} : s \in Plans!Squares(boxes[i])
    BY <1>3
  <2>3. Plans!Squares(c) \cap Plans!Squares(d) = {} /\ Plans!Squares(d) \cap Plans!Squares(c) = {}
    OBVIOUS
  <2>4. \A i, j \in {1, 2} : i # j => Plans!Squares(boxes[i]) \cap Plans!Squares(boxes[j]) = {}
    BY <1>3, <2>3
  <2> QED
    BY <2>1, <2>2, <2>4 DEF Tiled
<1> QED
  BY <1>2, <1>3, <1>4 DEF Cut, parts, boxes

\* A square lies in a window where its place does.
LEMMA InWindow ==
    ASSUME NEW b \in Plans!Boxes, NEW from, NEW to, NEW south, NEW north, FitsBox(b, from, to, south, north)
    PROVE  \A s : s \in Plans!Squares(Window(b, from, to, south, north)) <=>
                  \E k, y \in Int : s = Spot(b, k, y) /\ from <= k /\ k < to /\ south <= y /\ y < north
<1>1. from \in Int /\ to \in Int /\ south \in Int /\ north \in Int
  BY DEF FitsBox
<1>2. Plans!Squares(Window(b, from, to, south, north)) = {Spot(b, k, y) : k \in from .. to - 1, y \in south .. north - 1}
  BY WindowSquares
<1> QED
  BY <1>1, <1>2

LEMMA SplitCut ==
    ASSUME NEW b \in Plans!Boxes
    PROVE  Cut(Plans!SplitArea(b), b)
<1> DEFINE span == Plans!LongitudeSpan(b)
           half == span \div 2
           centre == (b.south + b.north) \div 2
<1>1. /\ span \in Nat /\ b.south \in Nat /\ b.north \in Nat /\ b.south <= b.north
      /\ b = [south |-> b.south, west |-> b.west, north |-> b.north, east |-> b.east]
  BY RegionConstants, BoxFields, SpanOf
<1>2. half \in Nat /\ half <= span /\ centre \in Nat /\ b.south <= centre /\ centre <= b.north
  BY <1>1
<1>3. Plans!WrapLongitude(b.west + 0) = b.west /\ Plans!WrapLongitude(b.west + span) = b.east
  <2>1. b.west + 0 = b.west
    BY BoxFields
  <2> QED
    BY <2>1, SpanOf
<1>4. CASE span >= b.north - b.south
  <2> DEFINE c == Window(b, 0, half, b.south, b.north)
             d == Window(b, half, span, b.south, b.north)
  <2>1. FitsBox(b, 0, half, b.south, b.north) /\ FitsBox(b, half, span, b.south, b.north)
    BY <1>1, <1>2 DEF FitsBox
  <2>2. c \in Plans!Boxes /\ d \in Plans!Boxes
    BY <2>1, WindowIsBox
  <2>3. \A s : s \in Plans!Squares(c) <=>
               \E k, y \in Int : s = Spot(b, k, y) /\ 0 <= k /\ k < half /\ b.south <= y /\ y < b.north
    BY <2>1, InWindow
  <2>4. \A s : s \in Plans!Squares(d) <=>
               \E k, y \in Int : s = Spot(b, k, y) /\ half <= k /\ k < span /\ b.south <= y /\ y < b.north
    BY <2>1, InWindow
  <2>5. \A s : s \in Plans!Squares(b) <=>
               \E k, y \in Int : s = Spot(b, k, y) /\ 0 <= k /\ k < span /\ b.south <= y /\ y < b.north
    BY BoxSquares
  <2>6. Plans!SplitArea(b) = <<Plans!Piece(c), Plans!Piece(d)>>
    <3>1. [b EXCEPT !.east = Plans!WrapLongitude(b.west + half)] = c
      BY <1>1, <1>3 DEF Window
    <3>2. [b EXCEPT !.west = Plans!WrapLongitude(b.west + half)] = d
      BY <1>1, <1>3 DEF Window
    <3> QED
      BY <1>4, <3>1, <3>2, Zenon DEF Plans!SplitArea
  <2> HIDE DEF c, d, half, span
  <2>7. \A s : s \in Plans!Squares(b) <=> s \in Plans!Squares(c) \/ s \in Plans!Squares(d)
    BY <1>1, <1>2, <2>3, <2>4, <2>5
  <2>8. \A s : ~(s \in Plans!Squares(c) /\ s \in Plans!Squares(d))
    <3> SUFFICES ASSUME NEW s \in Plans!Squares(c), s \in Plans!Squares(d) PROVE FALSE
      OBVIOUS
    <3>1. PICK k \in Int, y \in Int : s = Spot(b, k, y) /\ 0 <= k /\ k < half
      BY <2>3
    <3>2. PICK l \in Int, z \in Int : s = Spot(b, l, z) /\ half <= l /\ l < span
      BY <2>4
    <3>3. k \in Nat /\ l \in Nat /\ k < Plans!LongitudeSpan(b) /\ l < Plans!LongitudeSpan(b)
      BY <1>1, <1>2, <3>1, <3>2 DEF span
    <3>4. k = l
      <4>1. Spot(b, k, y) = Spot(b, l, z)
        BY <3>1, <3>2
      <4> QED
        BY <3>3, <4>1, SpotsApart
    <3> QED
      BY <1>2, <3>1, <3>2, <3>4
  <2>9. b.west <= b.east => c.west <= c.east /\ d.west <= d.east
    BY <2>1, WindowStraight DEF c, d
  <2> QED
    BY <2>2, <2>6, <2>7, <2>8, <2>9, TwoCut
<1>5. CASE ~(span >= b.north - b.south)
  <2> DEFINE c == Window(b, 0, span, b.south, centre)
             d == Window(b, 0, span, centre, b.north)
  <2>1. FitsBox(b, 0, span, b.south, centre) /\ FitsBox(b, 0, span, centre, b.north)
    BY <1>1, <1>2 DEF FitsBox
  <2>2. c \in Plans!Boxes /\ d \in Plans!Boxes
    BY <2>1, WindowIsBox
  <2>3. \A s : s \in Plans!Squares(c) <=>
               \E k, y \in Int : s = Spot(b, k, y) /\ 0 <= k /\ k < span /\ b.south <= y /\ y < centre
    BY <2>1, InWindow
  <2>4. \A s : s \in Plans!Squares(d) <=>
               \E k, y \in Int : s = Spot(b, k, y) /\ 0 <= k /\ k < span /\ centre <= y /\ y < b.north
    BY <2>1, InWindow
  <2>5. \A s : s \in Plans!Squares(b) <=>
               \E k, y \in Int : s = Spot(b, k, y) /\ 0 <= k /\ k < span /\ b.south <= y /\ y < b.north
    BY BoxSquares
  <2>6. Plans!SplitArea(b) = <<Plans!Piece(c), Plans!Piece(d)>>
    <3>1. [b EXCEPT !.north = centre] = c
      BY <1>1, <1>3 DEF Window
    <3>2. [b EXCEPT !.south = centre] = d
      BY <1>1, <1>3 DEF Window
    <3> QED
      BY <1>5, <3>1, <3>2, Zenon DEF Plans!SplitArea
  <2> HIDE DEF c, d, centre, span
  <2>7. \A s : s \in Plans!Squares(b) <=> s \in Plans!Squares(c) \/ s \in Plans!Squares(d)
    BY <1>1, <1>2, <2>3, <2>4, <2>5
  <2>8. \A s : ~(s \in Plans!Squares(c) /\ s \in Plans!Squares(d))
    <3> SUFFICES ASSUME NEW s \in Plans!Squares(c), s \in Plans!Squares(d) PROVE FALSE
      OBVIOUS
    <3>1. PICK k \in Int, y \in Int : s = Spot(b, k, y) /\ y < centre
      BY <2>3
    <3>2. PICK l \in Int, z \in Int : s = Spot(b, l, z) /\ centre <= z
      BY <2>4
    <3>3. y = z
      BY <3>1, <3>2 DEF Spot
    <3> QED
      BY <1>2, <3>1, <3>2, <3>3
  <2>9. b.west <= b.east => c.west <= c.east /\ d.west <= d.east
    BY <2>1, WindowStraight DEF c, d
  <2> QED
    BY <2>2, <2>6, <2>7, <2>8, <2>9, TwoCut
<1> QED
  BY <1>4, <1>5

-----------------------------------------------------------------------------
(* The plan of an area, from the plans of its parts *)
PlanSet == [requests : Seq(Plans!Boxes), skipped : Nat]

\* Nothing was skipped: the requests cover the box without overlap.
Good(plan, b) == plan.skipped = 0 => Tiled(plan.requests, DOMAIN plan.requests, b)

\* No two parts overlap.
Apart(parts) ==
    \A i, j \in DOMAIN parts : i # j => Plans!Squares(parts[i].bounds) \cap Plans!Squares(parts[j].bounds) = {}

\* The requests for the first k parts.
PartsPlanned(requests, parts, k) ==
    /\ \A r \in DOMAIN requests : \E j \in 1 .. k : Plans!Squares(requests[r]) \subseteq Plans!Squares(parts[j].bounds)
    /\ \A j \in 1 .. k : \A s \in Plans!Squares(parts[j].bounds) : \E r \in DOMAIN requests : s \in Plans!Squares(requests[r])
    /\ Apart(parts) => \A r, t \in DOMAIN requests : r # t => Plans!Squares(requests[r]) \cap Plans!Squares(requests[t]) = {}

\* What a plan asks for is exactly the parts.
AsksParts(plan, parts) == plan.skipped = 0 => PartsPlanned(plan.requests, parts, Len(parts))

\* An area in one piece is covered; of one that the catalogue cuts, the whole or its parts.
WellPlanned(plan, area) ==
    Good(plan, area.bounds) \/ (area.parts # <<>> /\ AsksParts(plan, area.parts))

LEMMA PartsApart ==
    ASSUME NEW parts, NEW b, Cut(parts, b)
    PROVE  Apart(parts)
<1> SUFFICES ASSUME NEW i \in DOMAIN parts, NEW j \in DOMAIN parts, i # j
             PROVE  Plans!Squares(parts[i].bounds) \cap Plans!Squares(parts[j].bounds) = {}
  BY DEF Apart
<1> DEFINE boxes == [k \in DOMAIN parts |-> parts[k].bounds]
<1>1. Plans!Squares(boxes[i]) \cap Plans!Squares(boxes[j]) = {}
  <2> HIDE DEF boxes
  <2> QED
    BY DEF Cut, Tiled, boxes
<1> QED
  BY <1>1

LEMMA PartsCover ==
    ASSUME NEW parts, NEW b, Cut(parts, b)
    PROVE  /\ \A j \in DOMAIN parts : /\ parts[j].bounds \in Plans!Boxes
                                      /\ Plans!Squares(parts[j].bounds) \subseteq Plans!Squares(b)
           /\ \A s \in Plans!Squares(b) : \E j \in DOMAIN parts : s \in Plans!Squares(parts[j].bounds)
<1> DEFINE boxes == [k \in DOMAIN parts |-> parts[k].bounds]
<1>1. Tiled(boxes, DOMAIN parts, b)
  BY DEF Cut
<1>2. \A j \in DOMAIN parts : boxes[j] = parts[j].bounds
  OBVIOUS
<1> HIDE DEF boxes
<1> QED
  BY <1>1, <1>2 DEF Tiled

LEMMA PlannedFurther ==
    ASSUME NEW parts, NEW k \in DOMAIN parts, k \in 1 .. Len(parts), DOMAIN parts = 1 .. Len(parts), Len(parts) \in Nat,
           NEW requests \in Seq(Plans!Boxes), PartsPlanned(requests, parts, k - 1),
           NEW more \in Seq(Plans!Boxes), Tiled(more, DOMAIN more, parts[k].bounds)
    PROVE  PartsPlanned(requests \o more, parts, k)
<1> DEFINE all == requests \o more
           m == Len(requests)
           n == Len(more)
<1>1. m \in Nat /\ n \in Nat /\ DOMAIN requests = 1 .. m /\ DOMAIN more = 1 .. n
  BY LenProperties
<1>2. all \in Seq(Plans!Boxes) /\ Len(all) = m + n
      /\ \A i \in 1 .. m + n : all[i] = IF i <= m THEN requests[i] ELSE more[i - m]
  BY ConcatProperties
<1>3. DOMAIN all = 1 .. m + n
  BY <1>2, LenProperties
<1>4. k \in Nat /\ k >= 1 /\ k \in 1 .. k /\ \A j \in 1 .. k - 1 : j \in 1 .. k /\ j # k /\ j \in DOMAIN parts
  OBVIOUS
<1> HIDE DEF all, m, n
<1>5. \A i \in 1 .. m : i \in DOMAIN all /\ all[i] = requests[i] /\ i \in DOMAIN requests
  BY <1>1, <1>2, <1>3
<1>6. \A i \in 1 .. n : m + i \in DOMAIN all /\ all[m + i] = more[i] /\ i \in DOMAIN more
  <2> SUFFICES ASSUME NEW i \in 1 .. n PROVE m + i \in DOMAIN all /\ all[m + i] = more[i] /\ i \in DOMAIN more
    OBVIOUS
  <2>1. m + i \in 1 .. m + n /\ ~(m + i <= m) /\ (m + i) - m = i
    BY <1>1
  <2> QED
    BY <1>1, <1>2, <1>3, <2>1
<1>7. \A i \in DOMAIN all : (i \in 1 .. m) \/ (\E j \in 1 .. n : i = m + j)
  <2> SUFFICES ASSUME NEW i \in 1 .. m + n, i \notin 1 .. m PROVE \E j \in 1 .. n : i = m + j
    BY <1>3
  <2>1. i - m \in 1 .. n /\ i = m + (i - m)
    BY <1>1
  <2> QED
    BY <2>1
<1>8. \A i \in 1 .. n : Plans!Squares(more[i]) \subseteq Plans!Squares(parts[k].bounds)
  BY <1>1 DEF Tiled
<1>9. ASSUME NEW r \in DOMAIN all
      PROVE  \E j \in 1 .. k : Plans!Squares(all[r]) \subseteq Plans!Squares(parts[j].bounds)
  <2>1. CASE r \in 1 .. m
    <3>1. PICK j \in 1 .. k - 1 : Plans!Squares(requests[r]) \subseteq Plans!Squares(parts[j].bounds)
      BY <1>5, <2>1 DEF PartsPlanned
    <3> QED
      BY <1>4, <1>5, <2>1, <3>1
  <2>2. CASE \E i \in 1 .. n : r = m + i
    BY <1>4, <1>6, <1>8, <2>2
  <2> QED
    BY <1>7, <2>1, <2>2
<1>10. ASSUME NEW j \in 1 .. k, NEW s \in Plans!Squares(parts[j].bounds)
       PROVE  \E r \in DOMAIN all : s \in Plans!Squares(all[r])
  <2>1. CASE j = k
    <3>1. PICK i \in 1 .. n : s \in Plans!Squares(more[i])
      BY <1>1, <1>10, <2>1 DEF Tiled
    <3> QED
      BY <1>6, <3>1
  <2>2. CASE j # k
    <3>1. j \in 1 .. k - 1
      BY <1>4, <2>2
    <3>2. PICK r \in DOMAIN requests : s \in Plans!Squares(requests[r])
      BY <1>10, <3>1 DEF PartsPlanned
    <3> QED
      BY <1>1, <1>5, <3>2
  <2> QED
    BY <2>1, <2>2
<1>11. ASSUME Apart(parts), NEW r \in 1 .. m, NEW i \in 1 .. n
       PROVE  Plans!Squares(requests[r]) \cap Plans!Squares(more[i]) = {}
  <2>1. PICK j \in 1 .. k - 1 : Plans!Squares(requests[r]) \subseteq Plans!Squares(parts[j].bounds)
    BY <1>5 DEF PartsPlanned
  <2>2. Plans!Squares(parts[j].bounds) \cap Plans!Squares(parts[k].bounds) = {}
    BY <1>4, <1>11 DEF Apart
  <2> QED
    BY <1>8, <2>1, <2>2
<1>12. ASSUME Apart(parts), NEW r \in DOMAIN all, NEW t \in DOMAIN all, r # t
       PROVE  Plans!Squares(all[r]) \cap Plans!Squares(all[t]) = {}
  <2>1. CASE r \in 1 .. m /\ t \in 1 .. m
    BY <1>5, <1>12, <2>1 DEF PartsPlanned
  <2>2. CASE r \in 1 .. m /\ \E i \in 1 .. n : t = m + i
    BY <1>5, <1>6, <1>11, <1>12, <2>2
  <2>3. CASE t \in 1 .. m /\ \E i \in 1 .. n : r = m + i
    <3>1. PICK i \in 1 .. n : r = m + i
      BY <2>3
    <3>2. Plans!Squares(requests[t]) \cap Plans!Squares(more[i]) = {}
      BY <1>11, <1>12, <2>3
    <3> QED
      BY <1>5, <1>6, <2>3, <3>1, <3>2
  <2>4. CASE (\E i \in 1 .. n : r = m + i) /\ (\E i \in 1 .. n : t = m + i)
    <3>1. PICK i \in 1 .. n, j \in 1 .. n : r = m + i /\ t = m + j
      BY <2>4
    <3>2. i # j /\ i \in DOMAIN more /\ j \in DOMAIN more
      BY <1>1, <1>12, <3>1
    <3>3. Plans!Squares(more[i]) \cap Plans!Squares(more[j]) = {}
      BY <3>2 DEF Tiled
    <3> QED
      BY <1>6, <3>1, <3>3
  <2> QED
    BY <1>7, <2>1, <2>2, <2>3, <2>4
<1>13. PartsPlanned(all, parts, k)
  BY <1>9, <1>10, <1>12 DEF PartsPlanned
<1> QED
  BY <1>13 DEF all

LEMMA PlusIs ==
    ASSUME NEW p, NEW q
    PROVE  /\ Plans!Plus(p, q).skipped = p.skipped + q.skipped
           /\ Plans!Plus(p, q).requests = p.requests \o q.requests
BY Zenon DEF Plans!Plus

\* The plans of the parts are defined, one after the other.
LEMMA PartsPlan ==
    ASSUME NEW parts \in Seq(Plans!Areas), NEW depth \in 0 .. SplitDepth,
           NEW plan \in [Plans!Areas \X (0 .. SplitDepth) -> PlanSet]
    PROVE  /\ Plans!PlanParts(plan, parts, depth) \in PlanSet
           /\ \E upto \in [0 .. Len(parts) -> PlanSet] :
                  /\ upto[0] = Plans!NoPlan /\ Plans!PlanParts(plan, parts, depth) = upto[Len(parts)]
                  /\ \A k \in 1 .. Len(parts) :
                         upto[k] = Plans!Plus(upto[k - 1], plan[<<parts[k], depth>>])
<1> DEFINE n == Len(parts)
           V == PlanSet
           part(k) == plan[<<parts[k], depth>>]
           Fixed(f) == f = [k \in 0 .. n |-> IF k = 0 THEN Plans!NoPlan ELSE Plans!Plus(f[k - 1], part(k))]
           upto == CHOOSE f : Fixed(f)
           step == [s \in (0 .. n) \X V |-> IF s[1] = 0 THEN s[2] ELSE Plans!Plus(s[2], part(s[1]))]
<1>1. n \in Nat /\ DOMAIN parts = 1 .. n /\ 0 <= n /\ 0 \in 0 .. n /\ n \in 0 .. n /\ 0 \in Nat
  BY LenProperties
<1>2. \A k \in 1 .. n : part(k) \in V
  <2> SUFFICES ASSUME NEW k \in 1 .. n PROVE part(k) \in V
    OBVIOUS
  <2>1. parts[k] \in Plans!Areas
    BY <1>1, ElementOfSeq
  <2> QED
    BY <2>1
<1>3. Plans!NoPlan \in V
  <2>1. <<>> \in Seq(Plans!Boxes)
    BY EmptySeq
  <2> QED
    BY <2>1 DEF Plans!NoPlan, PlanSet
<1>4. ASSUME NEW p \in V, NEW q \in V PROVE Plans!Plus(p, q) \in V
  <2>1. p.requests \in Seq(Plans!Boxes) /\ q.requests \in Seq(Plans!Boxes) /\ p.skipped \in Nat /\ q.skipped \in Nat
    BY DEF PlanSet
  <2>2. p.requests \o q.requests \in Seq(Plans!Boxes)
    BY <2>1, ConcatProperties
  <2> QED
    BY <2>1, <2>2 DEF Plans!Plus, PlanSet
<1> HIDE DEF n, V, part
<1>5. \A k \in 0 .. n : k # 0 => k \in 1 .. n /\ k - 1 \in 0 .. n
  BY <1>1
<1>6. PICK g \in [0 .. n -> V] : Recurses(g, 0, n, Plans!NoPlan, step)
  <2>1. step \in [(0 .. n) \X V -> V]
    <3>1. ASSUME NEW s \in (0 .. n) \X V
          PROVE  (IF s[1] = 0 THEN s[2] ELSE Plans!Plus(s[2], part(s[1]))) \in V
      <4>1. s[1] \in 0 .. n /\ s[2] \in V
        OBVIOUS
      <4> QED
        BY <1>2, <1>4, <1>5, <4>1
    <3> QED
      BY <3>1
  <2> HIDE DEF step
  <2> QED
    BY <1>1, <1>3, <2>1, Recursion
<1>7. ASSUME NEW k \in 0 .. n
      PROVE  g[k] = IF k = 0 THEN Plans!NoPlan ELSE Plans!Plus(g[k - 1], part(k))
  <2>1. CASE k = 0
    BY <1>6, <2>1 DEF Recurses
  <2>2. CASE k # 0
    <3>1. k - 1 \in 0 .. n /\ <<k, g[k - 1]>> \in (0 .. n) \X V
      BY <1>5, <1>6, <2>2
    <3>2. g[k] = step[<<k, g[k - 1]>>]
      BY <1>6, <2>2 DEF Recurses
    <3> QED
      BY <2>2, <3>1, <3>2
  <2> QED
    BY <2>1, <2>2
<1>8. Fixed(g)
  BY <1>6, <1>7
<1>9. Fixed(upto)
  <2> HIDE DEF Fixed
  <2> QED
    BY <1>8
<1> HIDE DEF upto
<1>10. \A k \in 0 .. n : upto[k] = IF k = 0 THEN Plans!NoPlan ELSE Plans!Plus(upto[k - 1], part(k))
  BY <1>9
<1>11. \A k \in 0 .. n : upto[k] \in V
  <2> DEFINE good == {k \in 0 .. n : upto[k] \in V}
  <2>1. 0 \in good
    BY <1>1, <1>3, <1>10
  <2>2. ASSUME NEW k \in 0 .. n, k # 0, k - 1 \in good PROVE k \in good
    BY <1>2, <1>4, <1>5, <1>10, <2>2
  <2>3. \A k \in 0 .. n : k \in good
    <3> HIDE DEF good
    <3> QED
      BY <1>1, <2>1, <2>2, Induction
  <2> QED
    BY <2>3
<1>12. upto \in [0 .. n -> V]
  BY <1>9, <1>11
<1>13. \A k \in 1 .. n : upto[k] = Plans!Plus(upto[k - 1], part(k))
  <2> SUFFICES ASSUME NEW k \in 1 .. n PROVE upto[k] = Plans!Plus(upto[k - 1], part(k))
    OBVIOUS
  <2>1. k \in 0 .. n /\ k # 0
    BY <1>1
  <2> QED
    BY <1>10, <2>1
<1>14. Plans!PlanParts(plan, parts, depth) = upto[n]
  BY Zenon DEF Plans!PlanParts, upto, part, n
<1>15. upto[0] = Plans!NoPlan /\ upto[n] \in V
  BY <1>1, <1>10, <1>11
<1> QED
  BY <1>12, <1>13, <1>14, <1>15 DEF n, V, part

LEMMA PartsSpanned ==
    ASSUME NEW parts \in Seq(Pieces), NEW depth \in 0 .. SplitDepth,
           NEW plan \in [Plans!Areas \X (0 .. SplitDepth) -> PlanSet],
           \A k \in DOMAIN parts : Good(plan[<<parts[k], depth>>], parts[k].bounds)
    PROVE  AsksParts(Plans!PlanParts(plan, parts, depth), parts)
<1> DEFINE n == Len(parts)
           part(k) == plan[<<parts[k], depth>>]
<1>1. parts \in Seq(Pieces) /\ parts \in Seq(Plans!Areas)
  BY PiecesAreAreas
<1>2. n \in Nat /\ DOMAIN parts = 1 .. n /\ \A k \in 1 .. n : parts[k] \in Plans!Areas
  BY <1>1, LenProperties, ElementOfSeq
<1>3. \A k \in 1 .. n : part(k) \in PlanSet /\ Good(part(k), parts[k].bounds)
  BY <1>2
<1>4. PICK upto \in [0 .. n -> PlanSet] :
          /\ upto[0] = Plans!NoPlan /\ Plans!PlanParts(plan, parts, depth) = upto[n]
          /\ \A k \in 1 .. n : upto[k] = Plans!Plus(upto[k - 1], part(k))
  BY <1>1, PartsPlan
<1> DEFINE Done(k) == upto[k].skipped = 0 => PartsPlanned(upto[k].requests, parts, k)
           good == {k \in 0 .. n : Done(k)}
<1>e. n = Len(parts)
  OBVIOUS
<1> HIDE DEF n, part
<1>5. 0 \in good
  <2>1. upto[0].requests = <<>> /\ DOMAIN <<>> = {} /\ 1 .. 0 = {} /\ 0 \in 0 .. n
    BY <1>2, <1>4 DEF Plans!NoPlan
  <2>2. PartsPlanned(<<>>, parts, 0)
    BY <2>1 DEF PartsPlanned
  <2> QED
    BY <2>1, <2>2
<1>6. ASSUME NEW k \in 0 .. n, k # 0, k - 1 \in good
      PROVE  k \in good
  <2>1. k \in 1 .. n /\ k \in DOMAIN parts /\ k - 1 \in 0 .. n
    BY <1>2, <1>6
  <2>2. upto[k] = Plans!Plus(upto[k - 1], part(k))
    BY <1>4, <2>1
  <2> DEFINE p == upto[k - 1]
             q == part(k)
  <2>3. p \in PlanSet /\ q \in PlanSet /\ Good(q, parts[k].bounds) /\ Done(k - 1)
    BY <1>3, <1>6, <2>1
  <2>4. upto[k].skipped = p.skipped + q.skipped /\ upto[k].requests = p.requests \o q.requests
    BY <2>2, PlusIs
  <2>5. p.skipped \in Nat /\ q.skipped \in Nat /\ p.requests \in Seq(Plans!Boxes) /\ q.requests \in Seq(Plans!Boxes)
    BY <2>3 DEF PlanSet
  <2>6. ASSUME upto[k].skipped = 0
        PROVE  PartsPlanned(upto[k].requests, parts, k)
    <3>1. p.skipped = 0 /\ q.skipped = 0
      BY <2>4, <2>5, <2>6
    <3>2. PartsPlanned(p.requests, parts, k - 1) /\ Tiled(q.requests, DOMAIN q.requests, parts[k].bounds)
      BY <2>3, <3>1 DEF Good
    <3> HIDE DEF p, q
    <3>3. PartsPlanned(p.requests \o q.requests, parts, k)
      BY <1>e, <1>2, <2>1, <2>5, <3>2, PlannedFurther
    <3> QED
      BY <2>4, <3>3
  <2> QED
    BY <2>6
<1>7. n \in good
  <2>1. 0 \in Nat /\ n \in 0 .. n
    BY <1>2
  <2> HIDE DEF good
  <2> QED
    BY <1>2, <1>5, <1>6, <2>1, Induction
<1>8. upto[n].skipped = 0 => PartsPlanned(upto[n].requests, parts, n)
  BY <1>7
<1> QED
  BY <1>e, <1>4, <1>8 DEF AsksParts

LEMMA GoodParts ==
    ASSUME NEW b, NEW parts, Cut(parts, b), NEW plan \in PlanSet, AsksParts(plan, parts)
    PROVE  Good(plan, b)
<1> DEFINE requests == plan.requests
           n == Len(parts)
<1>1. parts \in Seq(Pieces) /\ requests \in Seq(Plans!Boxes)
  BY DEF Cut, PlanSet
<1>2. DOMAIN parts = 1 .. n
  BY <1>1, LenProperties
<1> SUFFICES ASSUME plan.skipped = 0 PROVE Tiled(requests, DOMAIN requests, b)
  BY DEF Good
<1>3. PartsPlanned(requests, parts, n)
  BY DEF AsksParts
<1> HIDE DEF requests, n
<1>4. \A r \in DOMAIN requests : requests[r] \in Plans!Boxes
  BY <1>1, ElementOfSeq, LenProperties
<1>5. Apart(parts)
  BY PartsApart
<1> QED
  BY <1>2, <1>3, <1>4, <1>5, PartsCover DEF PartsPlanned, Tiled

LEMMA PlannedIs ==
    ASSUME NEW area \in Plans!Areas, NEW limit, NEW depth \in 0 .. SplitDepth,
           NEW plan \in [Plans!Areas \X (0 .. SplitDepth) -> PlanSet],
           \A at \in Plans!Areas \X (0 .. SplitDepth) : WellPlanned(plan[at], at[1])
    PROVE  /\ Plans!Planned(plan, area, limit, depth) \in PlanSet
           /\ WellPlanned(Plans!Planned(plan, area, limit, depth), area)
<1> DEFINE known == Plans!DownloadParts(area)
           halves == IF depth >= SplitDepth THEN <<>>
                     ELSE IF area.parts # <<>> THEN area.parts ELSE Plans!SplitArea(area.bounds)
           out == Plans!Planned(plan, area, limit, depth)
           b == area.bounds
<1>1. b \in Plans!Boxes /\ area.parts \in Seq(Pieces)
  BY DEF Plans!Areas, Pieces
<1>2. /\ known # <<>> => known \in Seq(Pieces)
      /\ known # <<>> => Cut(known, b) \/ (area.parts # <<>> /\ known = area.parts)
  <2>1. CASE Plans!FitsOnePack(b)
    BY <2>1 DEF Plans!DownloadParts
  <2>2. CASE ~Plans!FitsOnePack(b) /\ area.parts # <<>>
    <3>1. known = area.parts
      BY <2>2 DEF Plans!DownloadParts
    <3> QED
      BY <1>1, <2>2, <3>1
  <2>3. CASE ~Plans!FitsOnePack(b) /\ area.parts = <<>>
    <3>1. known = Plans!GridParts(b)
      BY <2>3 DEF Plans!DownloadParts
    <3>2. Cut(known, b)
      BY <1>1, <2>3, <3>1, GridCut
    <3> HIDE DEF known
    <3> QED
      BY <3>2 DEF Cut
  <2> QED
    BY <2>1, <2>2, <2>3
<1>3. /\ halves # <<>> => halves \in Seq(Pieces) /\ depth + 1 \in 0 .. SplitDepth
      /\ halves # <<>> => Cut(halves, b) \/ (area.parts # <<>> /\ halves = area.parts)
  <2>0. SplitDepth \in Nat
    BY RegionConstants
  <2>1. CASE depth >= SplitDepth
    BY <2>1
  <2>2. CASE ~(depth >= SplitDepth) /\ area.parts # <<>>
    BY <1>1, <2>0, <2>2
  <2>3. CASE ~(depth >= SplitDepth) /\ area.parts = <<>>
    <3>1. halves = Plans!SplitArea(b)
      BY <2>3
    <3>2. Cut(halves, b)
      BY <1>1, <3>1, SplitCut
    <3>3. depth + 1 \in 0 .. SplitDepth
      BY <2>0, <2>3
    <3> HIDE DEF halves
    <3> QED
      BY <3>2, <3>3 DEF Cut
  <2> QED
    BY <2>1, <2>2, <2>3
<1>4. ASSUME NEW parts \in Seq(Pieces), NEW d \in 0 .. SplitDepth, Cut(parts, b) \/ (area.parts # <<>> /\ parts = area.parts)
      PROVE  /\ Plans!PlanParts(plan, parts, d) \in PlanSet
             /\ WellPlanned(Plans!PlanParts(plan, parts, d), area)
  <2> DEFINE all == Plans!PlanParts(plan, parts, d)
  <2>1. parts \in Seq(Plans!Areas)
    BY PiecesAreAreas
  <2>2. all \in PlanSet
    BY <2>1, PartsPlan
  <2>3. ASSUME NEW k \in DOMAIN parts
        PROVE  Good(plan[<<parts[k], d>>], parts[k].bounds)
    <3>1. parts[k] \in Pieces /\ parts[k] \in Plans!Areas
      BY <2>1, ElementOfSeq, LenProperties
    <3>2. parts[k].parts = <<>>
      BY <3>1 DEF Pieces
    <3> DEFINE at == <<parts[k], d>>
    <3>3. at \in Plans!Areas \X (0 .. SplitDepth) /\ at[1] = parts[k]
      BY <3>1
    <3> HIDE DEF at
    <3>4. Good(plan[at], at[1].bounds)
      BY <3>2, <3>3 DEF WellPlanned
    <3> QED
      BY <3>3, <3>4 DEF at
  <2>4. AsksParts(all, parts)
    BY <2>3, PartsSpanned
  <2> HIDE DEF all
  <2>5. CASE Cut(parts, b)
    <3>1. Good(all, b)
      <4> HIDE DEF b
      <4> QED
        BY <2>2, <2>4, <2>5, GoodParts
    <3>2. WellPlanned(all, area)
      BY <3>1 DEF WellPlanned
    <3> QED
      BY <2>2, <3>2 DEF all
  <2>6. CASE area.parts # <<>> /\ parts = area.parts
    <3>1. WellPlanned(all, area)
      BY <2>4, <2>6, Zenon DEF WellPlanned
    <3> QED
      BY <2>2, <3>1 DEF all
  <2> QED
    BY <1>4, <2>2, <2>5, <2>6 DEF all
<1> HIDE DEF known, halves
<1>5. out = IF known # <<>> THEN Plans!PlanParts(plan, known, depth)
            ELSE IF Plans!TileCount(b) <= limit THEN [requests |-> <<b>>, skipped |-> 0]
            ELSE IF halves = <<>> THEN [Plans!NoPlan EXCEPT !.skipped = 1]
            ELSE Plans!PlanParts(plan, halves, depth + 1)
  BY Zenon DEF Plans!Planned, known, halves
<1> HIDE DEF out
<1>6. CASE known # <<>>
  BY <1>2, <1>4, <1>5, <1>6 DEF out
<1>7. CASE known = <<>> /\ Plans!TileCount(b) <= limit
  <2>1. out = [requests |-> <<b>>, skipped |-> 0]
    BY <1>5, <1>7
  <2> HIDE DEF b
  <2>2. <<b>> \in Seq(Plans!Boxes) /\ DOMAIN <<b>> = {1} /\ <<b>>[1] = b
    BY <1>1
  <2>3. Tiled(<<b>>, {1}, b)
    BY <1>1, <2>2 DEF Tiled
  <2>4. out \in PlanSet /\ out.requests = <<b>>
    BY <2>1, <2>2 DEF PlanSet
  <2>5. Good(out, b)
    BY <2>2, <2>3, <2>4 DEF Good
  <2> QED
    BY <2>4, <2>5 DEF out, b, WellPlanned
<1>8. CASE known = <<>> /\ ~(Plans!TileCount(b) <= limit) /\ halves = <<>>
  <2>1. out = [requests |-> <<>>, skipped |-> 1]
    BY <1>5, <1>8 DEF Plans!NoPlan
  <2>2. <<>> \in Seq(Plans!Boxes)
    BY EmptySeq
  <2>3. out \in PlanSet /\ out.skipped # 0
    BY <2>1, <2>2 DEF PlanSet
  <2> QED
    BY <2>3 DEF Good, WellPlanned, out
<1>9. CASE known = <<>> /\ ~(Plans!TileCount(b) <= limit) /\ halves # <<>>
  <2>1. out = Plans!PlanParts(plan, halves, depth + 1)
    BY <1>5, <1>9
  <2> QED
    BY <1>3, <1>4, <1>9, <2>1 DEF out
<1> QED
  BY <1>6, <1>7, <1>8, <1>9 DEF out

(* Whatever tiles the server takes for one pack, the packs that are planned for an *)
(* area, when none is skipped, cover it without overlap; of an area that the       *)
(* catalogue cuts they cover that, or exactly its parts (planMapPacks of           *)
(* offlineRegions.ts).                                                            *)
THEOREM PlanCovers ==
    ASSUME NEW area \in Plans!Areas, NEW limit
    PROVE  /\ Plans!PlanMapPacks(area, limit) \in PlanSet
           /\ WellPlanned(Plans!PlanMapPacks(area, limit), area)
<1> DEFINE n == MaxNesting
           At == Plans!Areas \X (0 .. SplitDepth)
           V == [At -> PlanSet]
           none == [at \in At |-> [Plans!NoPlan EXCEPT !.skipped = 1]]
           Level(p) == [at \in At |-> Plans!Planned(p, at[1], limit, at[2])]
           Whole(p) == p \in V /\ \A at \in At : WellPlanned(p[at], at[1])
           Fixed(f) == f = [k \in 0 .. n |-> [at \in At |->
                               IF k = 0 THEN [Plans!NoPlan EXCEPT !.skipped = 1]
                               ELSE Plans!Planned(f[k - 1], at[1], limit, at[2])]]
           plan == CHOOSE f : Fixed(f)
           W == {p \in V : Whole(p)}
           step == [s \in (0 .. n) \X W |-> Level(s[2])]
<1>1. n \in Nat /\ 0 <= n /\ 0 \in 0 .. n /\ n \in 0 .. n /\ 0 \in Nat
  BY RegionConstants
<1>2. none \in W
  <2>1. [Plans!NoPlan EXCEPT !.skipped = 1] = [requests |-> <<>>, skipped |-> 1]
    BY DEF Plans!NoPlan
  <2>2. <<>> \in Seq(Plans!Boxes)
    BY EmptySeq
  <2>3. [Plans!NoPlan EXCEPT !.skipped = 1] \in PlanSet
    BY <2>1, <2>2 DEF PlanSet
  <2>4. none \in V
    BY <2>3
  <2>5. ASSUME NEW at \in At PROVE WellPlanned(none[at], at[1])
    <3>1. none[at].skipped = 1
      BY <2>1
    <3> QED
      BY <3>1 DEF WellPlanned, Good
  <2> QED
    BY <2>4, <2>5
<1>3. ASSUME NEW p \in W PROVE Level(p) \in W
  <2>1. p \in V /\ \A at \in At : WellPlanned(p[at], at[1])
    OBVIOUS
  <2>2. ASSUME NEW at \in At
        PROVE  /\ Plans!Planned(p, at[1], limit, at[2]) \in PlanSet
               /\ WellPlanned(Plans!Planned(p, at[1], limit, at[2]), at[1])
    <3>1. at[1] \in Plans!Areas /\ at[2] \in 0 .. SplitDepth
      OBVIOUS
    <3> QED
      BY <2>1, <3>1, PlannedIs
  <2>3. Level(p) \in V
    BY <2>2
  <2>4. \A at \in At : WellPlanned(Level(p)[at], at[1])
    BY <2>2
  <2> HIDE DEF V, At, Level
  <2> QED
    BY <2>3, <2>4
<1> HIDE DEF n, At, V, W, Level, none
<1>4. PICK g \in [0 .. n -> W] : Recurses(g, 0, n, none, step)
  <2>1. step \in [(0 .. n) \X W -> W]
    BY <1>3
  <2> HIDE DEF step
  <2> QED
    BY <1>1, <1>2, <2>1, Recursion
<1>5. ASSUME NEW k \in 0 .. n
      PROVE  g[k] = [at \in At |-> IF k = 0 THEN [Plans!NoPlan EXCEPT !.skipped = 1]
                                   ELSE Plans!Planned(g[k - 1], at[1], limit, at[2])]
  <2>1. CASE k = 0
    BY <1>4, <2>1, Zenon DEF Recurses, none
  <2>2. CASE k # 0
    <3>1. k - 1 \in 0 .. n /\ <<k, g[k - 1]>> \in (0 .. n) \X W
      BY <1>1, <1>4, <2>2
    <3>2. g[k] = step[<<k, g[k - 1]>>]
      BY <1>4, <2>2 DEF Recurses
    <3>3. g[k] = Level(g[k - 1])
      BY <3>1, <3>2
    <3> QED
      BY <2>2, <3>3, Zenon DEF Level
  <2> QED
    BY <2>1, <2>2
<1>6. Fixed(g)
  BY <1>4, <1>5
<1>7. Fixed(plan)
  <2> HIDE DEF Fixed
  <2> QED
    BY <1>6
<1> HIDE DEF plan
<1>8. plan[0] = none /\ \A k \in 0 .. n : k # 0 => plan[k] = Level(plan[k - 1])
  <2>1. \A k \in 0 .. n : plan[k] = [at \in At |-> IF k = 0 THEN [Plans!NoPlan EXCEPT !.skipped = 1]
                                                   ELSE Plans!Planned(plan[k - 1], at[1], limit, at[2])]
    BY <1>7
  <2>2. plan[0] = none
    BY <1>1, <2>1, Zenon DEF none
  <2>3. ASSUME NEW k \in 0 .. n, k # 0 PROVE plan[k] = Level(plan[k - 1])
    BY <2>1, <2>3, Zenon DEF Level
  <2> QED
    BY <2>2, <2>3
<1>9. plan[n] \in W
  <2> DEFINE good == {k \in 0 .. n : plan[k] \in W}
  <2>1. 0 \in good
    BY <1>1, <1>2, <1>8
  <2>2. ASSUME NEW k \in 0 .. n, k # 0, k - 1 \in good PROVE k \in good
    BY <1>3, <1>8, <2>2
  <2>3. n \in good
    <3> HIDE DEF good
    <3> QED
      BY <1>1, <2>1, <2>2, Induction
  <2> QED
    BY <2>3
<1> DEFINE here == <<area, 0>>
<1>10. here \in At /\ here[1] = area
  <2>1. 0 \in 0 .. SplitDepth
    BY RegionConstants
  <2> QED
    BY <2>1 DEF At
<1>11. plan[n][here] \in PlanSet /\ WellPlanned(plan[n][here], area)
  <2>1. plan[n] \in V /\ Whole(plan[n])
    BY <1>9 DEF W
  <2> HIDE DEF here
  <2> QED
    BY <1>10, <2>1 DEF V
<1>12. Plans!PlanMapPacks(area, limit) = plan[n][here]
  BY Zenon DEF Plans!PlanMapPacks, plan, n, At, here
<1> QED
  BY <1>11, <1>12

-----------------------------------------------------------------------------
(* The packs of an area, from the packs of its parts *)
Under(found) == UNION {Plans!Squares(p.bbox) : p \in found}

CollectSet(packs) == [found : SUBSET packs, missing : Nat]

\* Nothing is missing: the packs that were found hold the box.
Held(collected, b) == collected.missing = 0 => Plans!Squares(b) \subseteq Under(collected.found)

\* They hold an area, or every part the catalogue knows of it.
HeldArea(collected, area) == collected.missing = 0 => Plans!WhollyIn(area, Under(collected.found))

\* Neither the area nor a part of it crosses the date line.
Straight(area) ==
    area.bounds.west <= area.bounds.east /\ \A k \in DOMAIN area.parts : area.parts[k].bounds.west <= area.parts[k].bounds.east

LEMMA HeldPiece ==
    ASSUME NEW collected, NEW area
    PROVE  /\ area.parts = <<>> /\ HeldArea(collected, area) => Held(collected, area.bounds)
           /\ Held(collected, area.bounds) => HeldArea(collected, area)
BY DEF Held, HeldArea, Plans!WhollyIn

LEMMA StraightSquares ==
    ASSUME NEW b \in Plans!Boxes, b.west <= b.east
    PROVE  \A s : s \in Plans!Squares(b) <=>
                  \E x, y \in Int : s = <<x, y>> /\ b.west <= x /\ x < b.east /\ b.south <= y /\ y < b.north
<1>1. b.west \in Int /\ b.east \in Int /\ b.east < Half /\ Half \in Int
  BY RegionConstants, BoxFields
<1>2. Plans!LongitudeSpan(b) = b.east - b.west
  BY <1>1 DEF Plans!LongitudeSpan
<1>3. \A s : s \in Plans!Squares(b) <=>
             \E k, y \in Int : s = Spot(b, k, y) /\ 0 <= k /\ k < b.east - b.west /\ b.south <= y /\ y < b.north
  BY <1>2, BoxSquares
<1>4. ASSUME NEW k \in Int, NEW y, 0 <= k, k < b.east - b.west
      PROVE  Spot(b, k, y) = <<b.west + k, y>> /\ b.west + k \in Int /\ b.west <= b.west + k /\ b.west + k < b.east
  <2>1. Plans!WrapLongitude(b.west + k) = b.west + k
    BY <1>1, <1>4 DEF Plans!WrapLongitude
  <2> QED
    BY <1>1, <1>4, <2>1 DEF Spot
<1>5. ASSUME NEW s, NEW x \in Int, NEW y \in Int, s = <<x, y>>, b.west <= x, x < b.east, b.south <= y, y < b.north
      PROVE  s \in Plans!Squares(b)
  <2>1. x - b.west \in Int /\ 0 <= x - b.west /\ x - b.west < b.east - b.west /\ b.west + (x - b.west) = x
    BY <1>1, <1>5
  <2>2. Spot(b, x - b.west, y) = s
    BY <1>4, <1>5, <2>1
  <2> QED
    BY <1>3, <1>5, <2>1, <2>2
<1>6. ASSUME NEW s \in Plans!Squares(b)
      PROVE  \E x, y \in Int : s = <<x, y>> /\ b.west <= x /\ x < b.east /\ b.south <= y /\ y < b.north
  <2>1. PICK k \in Int, y \in Int : s = Spot(b, k, y) /\ 0 <= k /\ k < b.east - b.west /\ b.south <= y /\ y < b.north
    BY <1>3, <1>6
  <2> QED
    BY <1>4, <2>1
<1> QED
  BY <1>5, <1>6

LEMMA CoveredByPack ==
    ASSUME NEW a \in Plans!Boxes, NEW b \in Plans!Boxes, b.west <= b.east, Plans!CoversBounds(a, b)
    PROVE  Plans!Squares(b) \subseteq Plans!Squares(a)
<1>1. /\ a.south \in Int /\ a.north \in Int /\ a.west \in Int /\ a.east \in Int
      /\ b.south \in Int /\ b.north \in Int /\ b.west \in Int /\ b.east \in Int
  BY BoxFields, RegionConstants
<1>2. a.south <= b.south /\ a.west <= b.west /\ a.north >= b.north /\ a.east >= b.east
  BY DEF Plans!CoversBounds
<1>3. a.west <= a.east
  BY <1>1, <1>2
<1> SUFFICES ASSUME NEW s \in Plans!Squares(b) PROVE s \in Plans!Squares(a)
  OBVIOUS
<1>4. PICK x \in Int, y \in Int : s = <<x, y>> /\ b.west <= x /\ x < b.east /\ b.south <= y /\ y < b.north
  BY StraightSquares
<1>5. a.west <= x /\ x < a.east /\ a.south <= y /\ y < a.north
  BY <1>1, <1>2, <1>4
<1> QED
  BY <1>3, <1>4, <1>5, StraightSquares

CollectedFrom(collect, part, before) == Plans!Joined(before, collect[part])

\* Plans!JoinParts, as a function of how many parts there are.
Fold(collect, parts) ==
    CHOOSE f : f = [k \in 0 .. Len(parts) |-> IF k = 0 THEN Plans!NoPacks ELSE CollectedFrom(collect, parts[k], f[k - 1])]

LEMMA FoldIs ==
    ASSUME NEW packs, NEW parts \in Seq(Plans!Areas), NEW collect \in [Plans!Areas -> CollectSet(packs)]
    PROVE  /\ Fold(collect, parts) \in [0 .. Len(parts) -> CollectSet(packs)]
           /\ Fold(collect, parts)[0] = Plans!NoPacks
           /\ \A k \in 1 .. Len(parts) :
                  Fold(collect, parts)[k] = CollectedFrom(collect, parts[k], Fold(collect, parts)[k - 1])
<1> DEFINE n == Len(parts)
           V == CollectSet(packs)
           Add(k, s) == CollectedFrom(collect, parts[k], s)
           Fixed(f) == f = [k \in 0 .. n |-> IF k = 0 THEN Plans!NoPacks ELSE Add(k, f[k - 1])]
           upto == CHOOSE f : Fixed(f)
           step == [s \in (0 .. n) \X V |-> IF s[1] = 0 THEN s[2] ELSE Add(s[1], s[2])]
<1>1. n \in Nat /\ DOMAIN parts = 1 .. n /\ 0 <= n /\ 0 \in 0 .. n /\ n \in 0 .. n /\ 0 \in Nat
  BY LenProperties
<1>2. ASSUME NEW k \in 1 .. n, NEW s \in V PROVE Add(k, s) \in V
  <2>1. collect[parts[k]] \in V
    BY <1>1, ElementOfSeq
  <2> QED
    BY <2>1 DEF CollectedFrom, CollectSet, Plans!Joined
<1>3. Plans!NoPacks \in V
  BY DEF Plans!NoPacks, CollectSet
<1> HIDE DEF n, V, Add
<1>5. \A k \in 0 .. n : k # 0 => k \in 1 .. n /\ k - 1 \in 0 .. n
  BY <1>1
<1>6. PICK g \in [0 .. n -> V] : Recurses(g, 0, n, Plans!NoPacks, step)
  <2>1. step \in [(0 .. n) \X V -> V]
    <3>1. ASSUME NEW s \in (0 .. n) \X V
          PROVE  (IF s[1] = 0 THEN s[2] ELSE Add(s[1], s[2])) \in V
      <4>1. s[1] \in 0 .. n /\ s[2] \in V
        OBVIOUS
      <4> QED
        BY <1>2, <1>5, <4>1
    <3> QED
      BY <3>1
  <2> HIDE DEF step
  <2> QED
    BY <1>1, <1>3, <2>1, Recursion
<1>7. ASSUME NEW k \in 0 .. n
      PROVE  g[k] = IF k = 0 THEN Plans!NoPacks ELSE Add(k, g[k - 1])
  <2>1. CASE k = 0
    BY <1>6, <2>1 DEF Recurses
  <2>2. CASE k # 0
    <3>1. k - 1 \in 0 .. n /\ <<k, g[k - 1]>> \in (0 .. n) \X V
      BY <1>5, <1>6, <2>2
    <3>2. g[k] = step[<<k, g[k - 1]>>]
      BY <1>6, <2>2 DEF Recurses
    <3> QED
      BY <2>2, <3>1, <3>2
  <2> QED
    BY <2>1, <2>2
<1>8. Fixed(g)
  BY <1>6, <1>7
<1>9. Fixed(upto)
  <2> HIDE DEF Fixed
  <2> QED
    BY <1>8
<1> HIDE DEF upto
<1>10. \A k \in 0 .. n : upto[k] = IF k = 0 THEN Plans!NoPacks ELSE Add(k, upto[k - 1])
  BY <1>9
<1>11. \A k \in 0 .. n : upto[k] \in V
  <2> DEFINE good == {k \in 0 .. n : upto[k] \in V}
  <2>1. 0 \in good
    BY <1>1, <1>3, <1>10
  <2>2. ASSUME NEW k \in 0 .. n, k # 0, k - 1 \in good PROVE k \in good
    BY <1>2, <1>5, <1>10, <2>2
  <2>3. \A k \in 0 .. n : k \in good
    <3> HIDE DEF good
    <3> QED
      BY <1>1, <2>1, <2>2, Induction
  <2> QED
    BY <2>3
<1>12. upto \in [0 .. n -> V]
  BY <1>9, <1>11
<1>13. \A k \in 1 .. n : upto[k] = Add(k, upto[k - 1])
  <2> SUFFICES ASSUME NEW k \in 1 .. n PROVE upto[k] = Add(k, upto[k - 1])
    OBVIOUS
  <2>1. k \in 0 .. n /\ k # 0
    BY <1>1
  <2> QED
    BY <1>10, <2>1
<1>14. Fold(collect, parts) = upto
  BY Zenon DEF Fold, upto, Add, n
<1>15. upto[0] = Plans!NoPacks
  BY <1>1, <1>10
<1> QED
  BY <1>12, <1>13, <1>14, <1>15 DEF n, V, Add

\* Of every part of a fold the squares are held.
EachHeld(collected, parts) ==
    collected.missing = 0 => \A j \in DOMAIN parts : Plans!Squares(parts[j].bounds) \subseteq Under(collected.found)

LEMMA FoldHeld ==
    ASSUME NEW packs, NEW parts \in Seq(Pieces), NEW collect \in [Plans!Areas -> CollectSet(packs)],
           \A k \in DOMAIN parts : Held(collect[parts[k]], parts[k].bounds)
    PROVE  EachHeld(Fold(collect, parts)[Len(parts)], parts)
<1> DEFINE n == Len(parts)
           upto == Fold(collect, parts)
           Within(k) == upto[k].missing = 0 =>
                            \A j \in 1 .. k : Plans!Squares(parts[j].bounds) \subseteq Under(upto[k].found)
           good == {k \in 0 .. n : Within(k)}
<1>1. parts \in Seq(Plans!Areas)
  BY PiecesAreAreas
<1>2. n \in Nat /\ DOMAIN parts = 1 .. n
  BY <1>1, LenProperties
<1>3. \A k \in 1 .. n : collect[parts[k]] \in CollectSet(packs) /\ Held(collect[parts[k]], parts[k].bounds)
  BY <1>1, <1>2, ElementOfSeq
<1>4. /\ upto \in [0 .. n -> CollectSet(packs)]
      /\ \A k \in 1 .. n : upto[k] = CollectedFrom(collect, parts[k], upto[k - 1])
  BY <1>1, FoldIs
<1> HIDE DEF n, upto
<1>5. 0 \in good
  BY <1>2
<1>6. ASSUME NEW k \in 0 .. n, k # 0, k - 1 \in good
      PROVE  k \in good
  <2> DEFINE before == upto[k - 1]
             more == collect[parts[k]]
  <2>1. k \in 1 .. n /\ k - 1 \in 0 .. n
    BY <1>2, <1>6
  <2>2. upto[k] = CollectedFrom(collect, parts[k], before)
    BY <1>4, <2>1
  <2>3. upto[k].found = before.found \union more.found /\ upto[k].missing = before.missing + more.missing
    BY <2>2 DEF CollectedFrom, Plans!Joined
  <2>4. before.missing \in Nat /\ more.missing \in Nat
    BY <1>3, <1>4, <2>1 DEF CollectSet
  <2>5. Within(k - 1) /\ Held(more, parts[k].bounds)
    BY <1>3, <1>6, <2>1
  <2>6. Under(before.found) \subseteq Under(upto[k].found) /\ Under(more.found) \subseteq Under(upto[k].found)
    <3> HIDE DEF before, more
    <3> QED
      BY <2>3 DEF Under
  <2>7. ASSUME upto[k].missing = 0, NEW j \in 1 .. k
        PROVE  Plans!Squares(parts[j].bounds) \subseteq Under(upto[k].found)
    <3>1. before.missing = 0 /\ more.missing = 0
      <4> HIDE DEF before, more
      <4> QED
        BY <2>3, <2>4, <2>7
    <3>2. CASE j = k
      BY <2>5, <2>6, <3>1, <3>2 DEF Held
    <3>3. CASE j # k
      <4>1. j \in 1 .. k - 1
        BY <2>1, <3>3
      <4> QED
        BY <2>5, <2>6, <3>1, <4>1
    <3> QED
      BY <3>2, <3>3
  <2> QED
    BY <2>7
<1>7. Within(n)
  <2>1. 0 \in Nat /\ n \in 0 .. n
    BY <1>2
  <2>2. n \in good
    <3> HIDE DEF good
    <3> QED
      BY <1>2, <1>5, <1>6, <2>1, Induction
  <2> QED
    BY <2>2
<1> QED
  BY <1>2, <1>7 DEF EachHeld, n, upto

LEMMA EachIsAll ==
    ASSUME NEW collected, NEW b, NEW parts, Cut(parts, b), EachHeld(collected, parts)
    PROVE  Held(collected, b)
<1> SUFFICES ASSUME collected.missing = 0, NEW s \in Plans!Squares(b) PROVE s \in Under(collected.found)
  BY DEF Held
<1>1. PICK j \in DOMAIN parts : s \in Plans!Squares(parts[j].bounds)
  BY PartsCover
<1> QED
  BY <1>1 DEF EachHeld

LEMMA CollectedIs ==
    ASSUME NEW packs, \A p \in packs : p.bbox \in Plans!Boxes, NEW area \in Plans!Areas, NEW depth \in Int, NEW group,
           NEW collect \in [Plans!Areas -> CollectSet(packs)],
           \A part \in Plans!Areas : Straight(part) => HeldArea(collect[part], part)
    PROVE  /\ Plans!Collected(collect, packs, area, depth, group) \in CollectSet(packs)
           /\ Straight(area) => HeldArea(Plans!Collected(collect, packs, area, depth, group), area)
<1> DEFINE b == area.bounds
           direct == Plans!CoveringPack(packs, b, group)
           parts == Plans!AreaParts(packs, area, depth)
           out == Plans!Collected(collect, packs, area, depth, group)
           all == Fold(collect, parts)[Len(parts)]
<1>1. b \in Plans!Boxes /\ area.parts \in Seq(Pieces)
  BY DEF Plans!Areas, Pieces
<1>2. direct \subseteq {p \in packs : Plans!CoversBounds(p.bbox, b)}
  BY DEF Plans!CoveringPack
<1>3. /\ parts # <<>> => parts \in Seq(Pieces)
      /\ parts # <<>> => Cut(parts, b) \/ (area.parts # <<>> /\ parts = area.parts)
  <2> DEFINE halved == /\ depth < SplitDepth
                       /\ \E p \in packs : Plans!CoversBounds(b, p.bbox) /\ ~Plans!CoversBounds(p.bbox, b)
             planned == IF area.parts # <<>> THEN area.parts ELSE Plans!GridParts(b)
  <2>1. parts = IF planned # <<>> THEN planned ELSE IF halved THEN Plans!SplitArea(b) ELSE <<>>
    BY Zenon DEF Plans!AreaParts
  <2> HIDE DEF parts, halved
  <2>2. CASE area.parts # <<>>
    BY <1>1, <2>1, <2>2
  <2>3. CASE area.parts = <<>> /\ Plans!GridParts(b) # <<>>
    <3>1. ~Plans!FitsOnePack(b)
      BY <2>3 DEF Plans!GridParts
    <3>2. parts = Plans!GridParts(b)
      BY <2>1, <2>3
    <3>3. Cut(parts, b)
      BY <1>1, <3>1, <3>2, GridCut
    <3> QED
      BY <3>3 DEF Cut
  <2>4. CASE area.parts = <<>> /\ Plans!GridParts(b) = <<>> /\ halved
    <3>1. parts = Plans!SplitArea(b)
      BY <2>1, <2>4
    <3>2. Cut(parts, b)
      BY <1>1, <3>1, SplitCut
    <3> QED
      BY <3>2 DEF Cut
  <2>5. CASE area.parts = <<>> /\ Plans!GridParts(b) = <<>> /\ ~halved
    BY <2>1, <2>5
  <2> QED
    BY <2>2, <2>3, <2>4, <2>5
<1>4. out = IF direct # {} THEN [Plans!NoPacks EXCEPT !.found = direct]
            ELSE IF parts = <<>> THEN [Plans!NoPacks EXCEPT !.missing = 1] ELSE all
  BY Zenon DEF Plans!Collected, Plans!JoinParts, Fold, CollectedFrom
<1> HIDE DEF direct, parts, out
<1>5. CASE direct # {}
  <2>1. out = [found |-> direct, missing |-> 0]
    BY <1>4, <1>5 DEF Plans!NoPacks
  <2>2. out \in CollectSet(packs)
    BY <1>2, <2>1 DEF CollectSet
  <2>3. ASSUME Straight(area) PROVE Plans!Squares(b) \subseteq Under(direct)
    <3>1. PICK p \in direct : TRUE
      BY <1>5
    <3>2. p.bbox \in Plans!Boxes /\ Plans!CoversBounds(p.bbox, b)
      BY <1>2, <3>1
    <3>3. Plans!Squares(b) \subseteq Plans!Squares(p.bbox)
      BY <1>1, <2>3, <3>2, CoveredByPack DEF Straight
    <3> QED
      BY <3>1, <3>3 DEF Under
  <2>4. ASSUME Straight(area) PROVE HeldArea(out, area)
    <3>1. Held(out, b)
      BY <2>1, <2>3, <2>4 DEF Held
    <3> QED
      BY <3>1, HeldPiece
  <2> QED
    BY <2>2, <2>4 DEF out
<1>6. CASE direct = {} /\ parts = <<>>
  <2>1. out = [found |-> {}, missing |-> 1]
    BY <1>4, <1>6 DEF Plans!NoPacks
  <2>2. out \in CollectSet(packs) /\ out.missing # 0
    BY <2>1 DEF CollectSet
  <2> QED
    BY <2>2 DEF HeldArea, out
<1>7. CASE direct = {} /\ parts # <<>>
  <2>1. out = all
    BY <1>4, <1>7
  <2>2. parts \in Seq(Pieces) /\ parts \in Seq(Plans!Areas)
    BY <1>3, <1>7, PiecesAreAreas
  <2>3. Len(parts) \in 0 .. Len(parts) /\ DOMAIN parts = 1 .. Len(parts)
    BY <2>2, LenProperties
  <2>4. all \in CollectSet(packs)
    BY <2>2, <2>3, FoldIs
  <2>5. ASSUME Straight(area) PROVE HeldArea(all, area)
    <3>1. ASSUME NEW k \in DOMAIN parts PROVE Held(collect[parts[k]], parts[k].bounds)
      <4>1. parts[k] \in Pieces /\ parts[k] \in Plans!Areas
        BY <2>2, <2>3, ElementOfSeq
      <4>2. parts[k].parts = <<>>
        BY <4>1 DEF Pieces
      <4>3. parts[k].bounds.west <= parts[k].bounds.east
        BY <1>3, <1>7, <2>5 DEF Cut, Straight
      <4>4. Straight(parts[k])
        BY <4>2, <4>3 DEF Straight
      <4> QED
        BY <4>1, <4>2, <4>4, HeldPiece
    <3>2. EachHeld(all, parts)
      BY <2>2, <3>1, FoldHeld
    <3> HIDE DEF all
    <3>3. CASE Cut(parts, b)
      BY <3>2, <3>3, EachIsAll, HeldPiece
    <3>4. CASE area.parts # <<>> /\ parts = area.parts
      BY <3>2, <3>4 DEF EachHeld, HeldArea, Plans!WhollyIn
    <3> QED
      BY <1>3, <1>7, <3>3, <3>4
  <2> QED
    BY <2>1, <2>4, <2>5 DEF out
<1> QED
  BY <1>5, <1>6, <1>7 DEF out

LEMMA NothingFound ==
    ASSUME NEW packs
    PROVE  /\ [found |-> {}, missing |-> 1] \in CollectSet(packs)
           /\ [Plans!NoPacks EXCEPT !.missing = 1] = [found |-> {}, missing |-> 1]
BY DEF CollectSet, Plans!NoPacks

LEMMA AreaHeld ==
    ASSUME NEW packs, \A p \in packs : p.bbox \in Plans!Boxes, NEW area \in Plans!Areas, NEW group
    PROVE  /\ Plans!CollectAreaPacks(packs, area, group) \in CollectSet(packs)
           /\ Straight(area) => HeldArea(Plans!CollectAreaPacks(packs, area, group), area)
<1> DEFINE n == MaxNesting
           At == Plans!Areas
           V == [At -> CollectSet(packs)]
           none == [part \in At |-> [Plans!NoPacks EXCEPT !.missing = 1]]
           Level(k, c) == [part \in At |-> Plans!Collected(c, packs, part, n - k, group)]
           Whole(c) == \A part \in At : Straight(part) => HeldArea(c[part], part)
           Fixed(f) == f = [k \in 0 .. n |-> [part \in At |->
                               IF k = 0 THEN [Plans!NoPacks EXCEPT !.missing = 1]
                               ELSE Plans!Collected(f[k - 1], packs, part, n - k, group)]]
           collect == CHOOSE f : Fixed(f)
           W == {c \in V : Whole(c)}
           step == [s \in (0 .. n) \X W |-> Level(s[1], s[2])]
<1>1. n \in Nat /\ 0 <= n /\ 0 \in 0 .. n /\ n \in 0 .. n /\ 0 \in Nat
  BY RegionConstants
<1>2. none \in W
  <2>1. [Plans!NoPacks EXCEPT !.missing = 1] = [found |-> {}, missing |-> 1]
    BY NothingFound
  <2>2. [found |-> {}, missing |-> 1] \in CollectSet(packs)
    BY NothingFound
  <2>3. none \in V
    BY <2>1, <2>2
  <2>4. ASSUME NEW part \in At PROVE HeldArea(none[part], part)
    <3>1. none[part].missing = 1
      BY <2>1
    <3> QED
      BY <3>1 DEF HeldArea
  <2> QED
    BY <2>3, <2>4
<1>3. ASSUME NEW k \in 0 .. n, NEW c \in W PROVE Level(k, c) \in W
  <2>1. c \in V /\ Whole(c)
    OBVIOUS
  <2>2. ASSUME NEW part \in At
        PROVE  /\ Plans!Collected(c, packs, part, n - k, group) \in CollectSet(packs)
               /\ Straight(part) => HeldArea(Plans!Collected(c, packs, part, n - k, group), part)
    <3>1. n - k \in Int
      BY <1>1
    <3> HIDE DEF n
    <3> QED
      BY <2>1, <3>1, CollectedIs
  <2>3. Level(k, c) \in V
    BY <2>2
  <2>4. Whole(Level(k, c))
    BY <2>2
  <2> HIDE DEF V, Whole, Level
  <2> QED
    BY <2>3, <2>4
<1> HIDE DEF n, At, V, W, Level, none
<1>4. PICK g \in [0 .. n -> W] : Recurses(g, 0, n, none, step)
  <2>1. step \in [(0 .. n) \X W -> W]
    BY <1>3
  <2> HIDE DEF step
  <2> QED
    BY <1>1, <1>2, <2>1, Recursion
<1>5. ASSUME NEW k \in 0 .. n
      PROVE  g[k] = [part \in At |-> IF k = 0 THEN [Plans!NoPacks EXCEPT !.missing = 1]
                                     ELSE Plans!Collected(g[k - 1], packs, part, n - k, group)]
  <2>1. CASE k = 0
    BY <1>4, <2>1, Zenon DEF Recurses, none
  <2>2. CASE k # 0
    <3>1. k - 1 \in 0 .. n /\ <<k, g[k - 1]>> \in (0 .. n) \X W
      BY <1>1, <1>4, <2>2
    <3>2. g[k] = step[<<k, g[k - 1]>>]
      BY <1>4, <2>2 DEF Recurses
    <3>3. g[k] = Level(k, g[k - 1])
      BY <3>1, <3>2
    <3> QED
      BY <2>2, <3>3, Zenon DEF Level
  <2> QED
    BY <2>1, <2>2
<1>6. Fixed(g)
  BY <1>4, <1>5
<1>7. Fixed(collect)
  <2> HIDE DEF Fixed
  <2> QED
    BY <1>6
<1> HIDE DEF collect
<1>8. collect[0] = none /\ \A k \in 0 .. n : k # 0 => collect[k] = Level(k, collect[k - 1])
  <2>1. \A k \in 0 .. n : collect[k] = [part \in At |-> IF k = 0 THEN [Plans!NoPacks EXCEPT !.missing = 1]
                                                        ELSE Plans!Collected(collect[k - 1], packs, part, n - k, group)]
    BY <1>7
  <2>2. collect[0] = none
    BY <1>1, <2>1, Zenon DEF none
  <2>3. ASSUME NEW k \in 0 .. n, k # 0 PROVE collect[k] = Level(k, collect[k - 1])
    BY <2>1, <2>3, Zenon DEF Level
  <2> QED
    BY <2>2, <2>3
<1>9. collect[n] \in W
  <2> DEFINE good == {k \in 0 .. n : collect[k] \in W}
  <2>1. 0 \in good
    BY <1>1, <1>2, <1>8
  <2>2. ASSUME NEW k \in 0 .. n, k # 0, k - 1 \in good PROVE k \in good
    BY <1>3, <1>8, <2>2
  <2>3. n \in good
    <3> HIDE DEF good
    <3> QED
      BY <1>1, <2>1, <2>2, Induction
  <2> QED
    BY <2>3
<1>10. collect[n][area] \in CollectSet(packs) /\ (Straight(area) => HeldArea(collect[n][area], area))
  <2>1. collect[n] \in V /\ Whole(collect[n])
    BY <1>9 DEF W
  <2> QED
    BY <2>1 DEF V, At
<1>11. Plans!CollectAreaPacks(packs, area, group) = collect[n][area]
  BY Zenon DEF Plans!CollectAreaPacks, collect, n, At
<1> QED
  BY <1>10, <1>11

(* Whatever packs there are, and whichever group is asked about, an area that is    *)
(* shown as downloaded, or each part the catalogue knows of it, lies inside packs   *)
(* that settled with nothing of the group failed or missing, of the maps with       *)
(* something; neither it nor a part of it crossing the date line                    *)
(* (areaDownloadState and groupStatus of offlineRegions.ts).                       *)
THEOREM DoneCovers ==
    ASSUME NEW packs, \A p \in packs : p.bbox \in Plans!Boxes, NEW area \in Plans!Areas, Straight(area), NEW group,
           Plans!GroupStatus(packs, area, group) = "done"
    PROVE  Plans!WhollyIn(area, Under({p \in packs : Plans!PackFinished(p, group)}))
<1> DEFINE listed == Plans!Relevant(packs, group)
           finished == {p \in packs : Plans!PackFinished(p, group)}
           collected == Plans!CollectAreaPacks(listed, area, group)
           state == Plans!AreaDownloadState(packs, area, group)
<1>0. listed \subseteq packs
  BY DEF Plans!Relevant
<1>1. collected \in CollectSet(listed) /\ HeldArea(collected, area)
  <2>1. \A p \in listed : p.bbox \in Plans!Boxes
    BY <1>0
  <2> HIDE DEF listed
  <2> QED
    BY <2>1, AreaHeld
<1>2. state = Plans!Combined(collected.found, collected.missing, group)
  BY Zenon DEF Plans!AreaDownloadState, Plans!CombinedOf
<1>3. state.complete
  <2>1. Plans!StateName(state, group) = "done"
    BY Zenon DEF Plans!GroupStatus
  <2> HIDE DEF state
  <2> SUFFICES ASSUME ~state.complete PROVE FALSE
    OBVIOUS
  <2>2. Plans!StateName(state, group) # "done"
    BY DEF Plans!StateName
  <2> QED
    BY <2>1, <2>2
<1> HIDE DEF collected, state, listed
<1>4. collected.missing = 0 /\ \A p \in collected.found : Plans!PackFinished(p, group)
  BY <1>2, <1>3 DEF Plans!Combined
<1>5. collected.found \subseteq finished
  BY <1>0, <1>1, <1>4 DEF CollectSet
<1>6. Under(collected.found) \subseteq Under(finished)
  <2> HIDE DEF finished
  <2> QED
    BY <1>5 DEF Under
<1>7. Plans!WhollyIn(area, Under(collected.found))
  BY <1>1, <1>4 DEF HeldArea
<1> HIDE DEF finished
<1>8. Plans!WhollyIn(area, Under(finished))
  BY <1>6, <1>7 DEF Plans!WhollyIn
<1> QED
  BY <1>8 DEF finished

=============================================================================
