---------------------------- MODULE LibraryProofs ----------------------------
(***************************************************************************)
(* What the library promises, for every question it may be asked.  Its     *)
(* functions are recursive; that they are defined, and what they compute,  *)
(* is shown by induction over the points, spans or stops they go through.  *)
(***************************************************************************)
EXTENDS RegionProofs

-----------------------------------------------------------------------------
LEMMA LibraryConstants ==
    /\ Unit \in Nat \ {0} /\ CoordUnit \in Nat \ {0} /\ HeightUnit \in Nat \ {0} /\ Tile \in Nat \ {0}
    /\ CardWidth \in Nat /\ CardHeight \in Nat /\ Padding \in Nat /\ MaxTileZoom \in Nat
    /\ MinRange \in Nat /\ MaxRange \in Nat /\ DefaultRange \in Nat
    /\ MaxReserve \in 0 .. 100 /\ DefaultReserve \in 0 .. 100
BY LibraryAssumption

LEMMA DivLt ==
    ASSUME NEW d \in Nat \ {0}, NEW m \in Nat, NEW a \in Int, 0 <= a, a < d * m
    PROVE  a \div d \in 0 .. m - 1
OBVIOUS

LEMMA MaxOf ==
    ASSUME NEW S, S \subseteq Int, IsFiniteSet(S), S # {}
    PROVE  Screen!Max(S) \in S /\ \A k \in S : k <= Screen!Max(S)
BY Greatest DEF Screen!Max

LEMMA MinOf ==
    ASSUME NEW S, S \subseteq Int, IsFiniteSet(S), S # {}
    PROVE  Screen!Min(S) \in S /\ \A k \in S : Screen!Min(S) <= k
<1> DEFINE T == {-k : k \in S}
<1>1. T \subseteq Int /\ IsFiniteSet(T) /\ T # {}
  <2> DEFINE f == [k \in S |-> -k]
  <2>1. IsFiniteSet({f[k] : k \in S})
    BY FiniteImage
  <2>2. T = {f[k] : k \in S}
    OBVIOUS
  <2>3. T \subseteq Int
    OBVIOUS
  <2>4. PICK k \in S : k \in Int
    OBVIOUS
  <2> QED
    BY <2>1, <2>2, <2>3, <2>4
<1>2. PICK m \in T : \A k \in T : k <= m
  <2> HIDE DEF T
  <2> QED
    BY <1>1, Greatest
<1>3. -m \in S /\ \A k \in S : -m <= k
  BY <1>2
<1> QED
  BY <1>3 DEF Screen!Min

LEMMA WorldsAreWide ==
    ASSUME NEW z \in 0 .. MaxTileZoom
    PROVE  Screen!WorldTiles[z] \in Nat \ {0}
<1> DEFINE n == MaxTileZoom
           V == Nat \ {0}
           step == [s \in (0 .. n) \X V |-> 2 * s[2]]
           Fixed(f) == f = [i \in 0 .. n |-> IF i = 0 THEN 1 ELSE 2 * f[i - 1]]
           worlds == CHOOSE f : Fixed(f)
           good == {i \in 0 .. n : worlds[i] \in V}
<1>1. n \in Nat /\ 0 \in Nat /\ 1 \in V /\ 0 \in 0 .. n /\ 0 <= n
  BY LibraryConstants
<1>2. \E f : Fixed(f)
  <2>1. step \in [(0 .. n) \X V -> V]
    OBVIOUS
  <2>2. PICK f \in [0 .. n -> V] : Recurses(f, 0, n, 1, step)
    <3> HIDE DEF step, V, n
    <3> QED
      BY <1>1, <2>1, Recursion
  <2>3. ASSUME NEW i \in 0 .. n PROVE f[i] = IF i = 0 THEN 1 ELSE 2 * f[i - 1]
    <3>1. i # 0 => i - 1 \in 0 .. n
      BY <1>1
    <3>2. i # 0 => <<i, f[i - 1]>> \in (0 .. n) \X V
      BY <2>2, <3>1
    <3> QED
      BY <2>2, <3>1, <3>2 DEF Recurses
  <2>4. Fixed(f)
    BY <2>3
  <2> HIDE DEF Fixed
  <2> QED
    BY <2>4
<1>3. Fixed(worlds)
  BY <1>2
<1> HIDE DEF worlds
<1>4. 0 \in good
  BY <1>1, <1>3
<1>5. ASSUME NEW i \in 0 .. n, i # 0, i - 1 \in good
      PROVE  i \in good
  BY <1>3, <1>5
<1>6. z \in good
  <2> HIDE DEF good
  <2> QED
    BY <1>1, <1>4, <1>5, Induction
<1>7. Screen!WorldTiles[z] = worlds[z]
  BY DEF Screen!WorldTiles, worlds
<1> QED
  BY <1>6, <1>7

-----------------------------------------------------------------------------
(* The line of a track (Runs of ColoredTrack.tsx): the runs up to a point meet    *)
(* and have the colours of their points.                                        *)
RunsOf(Colors) == [color : Colors, from : Int, to : Int]

LEMMA LongerRun ==
    ASSUME NEW Colors, NEW run \in RunsOf(Colors), NEW i \in Int
    PROVE  LET new == [run EXCEPT !.to = i]
           IN new \in RunsOf(Colors) /\ new.to = i /\ new.from = run.from /\ new.color = run.color
BY DEF RunsOf

RunFits(runs, colors, m, r) ==
    /\ runs[r].from < runs[r].to
    /\ runs[r].from = IF r = 1 THEN 1 ELSE runs[r - 1].to
    /\ r = Len(runs) => runs[r].to = m
    /\ \A i \in runs[r].from + 1 .. runs[r].to : colors[i] = runs[r].color
    /\ r > 1 => runs[r].color # runs[r - 1].color

LEMMA DrawnFurther ==
    ASSUME NEW Colors, NEW colors \in Seq(Colors), NEW m \in 1 .. Len(colors) - 1,
           NEW runs \in Seq(RunsOf(Colors)), Screen!DrawsTrack(runs, colors, m)
    PROVE  Screen!DrawsTrack(Screen!Extended(runs, colors[m + 1], m + 1), colors, m + 1)
<1> DEFINE last == Len(runs)
           out == Screen!Extended(runs, colors[m + 1], m + 1)
<1>0. m \in Nat /\ m >= 1 /\ m + 1 \in 1 .. Len(colors) /\ colors[m + 1] \in Colors /\ (m + 1) - 1 = m
  BY LenProperties, ElementOfSeq
<1>1. last \in Nat /\ DOMAIN runs = 1 .. last /\ (runs = <<>> <=> last = 0) /\ (last = 0 <=> m < 2)
  BY LenProperties DEF Screen!DrawsTrack
<1>2. \A r \in 1 .. last : runs[r] \in RunsOf(Colors)
  BY ElementOfSeq
<1>3. \A r \in 1 .. last : runs[r].to \in Int /\ runs[r].from \in Int
  BY <1>2, SMTT(30) DEF RunsOf
<1>4. \A r \in 1 .. last : RunFits(runs, colors, m, r)
  BY <1>1 DEF Screen!DrawsTrack, RunFits
<1>5. out = IF runs # <<>> /\ runs[last].color = colors[m + 1]
            THEN [runs EXCEPT ![last].to = m + 1]
            ELSE Append(runs, [color |-> colors[m + 1], from |-> m, to |-> m + 1])
  BY <1>0 DEF Screen!Extended
<1>e. last = Len(runs)
  OBVIOUS
<1>6. CASE runs # <<>> /\ runs[last].color = colors[m + 1]
  <2>1. last \in 1 .. last
    BY <1>1, <1>6
  <2>2. runs[last].to = m
    BY <1>4, <2>1 DEF RunFits
  <2> DEFINE new == [runs[last] EXCEPT !.to = m + 1]
  <2>3. out = [runs EXCEPT ![last] = new]
    BY <1>5, <1>6
  <2> HIDE DEF out, last
  <2>4. new \in RunsOf(Colors) /\ new.to = m + 1 /\ new.from = runs[last].from /\ new.color = runs[last].color
    BY <1>0, <1>2, <2>1, LongerRun
  <2> HIDE DEF new
  <2>5. /\ out \in Seq(RunsOf(Colors)) /\ Len(out) = last /\ DOMAIN out = 1 .. last
        /\ \A r \in 1 .. last : out[r] = IF r = last THEN new ELSE runs[r]
    BY <1>e, <2>1, <2>3, <2>4, ExceptSeq, LenProperties
  <2>6. ASSUME NEW r \in 1 .. last
        PROVE  RunFits(out, colors, m + 1, r)
    <3>1. out[r].from = runs[r].from /\ out[r].color = runs[r].color /\ out[r].to = IF r = last THEN m + 1 ELSE runs[r].to
      BY <2>4, <2>5
    <3>2. r > 1 => r - 1 \in 1 .. last /\ r - 1 # last /\ out[r - 1] = runs[r - 1]
      BY <1>1, <2>5
    <3>3. RunFits(runs, colors, m, r)
      BY <1>4
    <3>4. runs[r].from \in Int /\ runs[r].to \in Int /\ runs[r].from < runs[r].to /\ (r = last => runs[r].to = m)
      BY <1>3, <2>2, <3>3 DEF RunFits
    <3>5. ASSUME NEW i \in out[r].from + 1 .. out[r].to
          PROVE  colors[i] = out[r].color
      <4>1. i \in runs[r].from + 1 .. runs[r].to \/ (r = last /\ i = m + 1)
        BY <1>0, <3>1, <3>4
      <4> QED
        BY <1>6, <3>1, <3>3, <4>1 DEF RunFits
    <3>6. out[r].from < out[r].to
      BY <1>0, <3>1, <3>4
    <3> QED
      BY <2>5, <3>1, <3>2, <3>3, <3>5, <3>6 DEF RunFits
  <2>7. out = <<>> <=> m + 1 < 2
    BY <1>0, <1>1, <1>6, <2>1, <2>5
  <2>8. Screen!DrawsTrack(out, colors, m + 1)
    BY <2>5, <2>6, <2>7 DEF Screen!DrawsTrack, RunFits
  <2> QED
    BY <2>8 DEF out
<1>7. CASE ~(runs # <<>> /\ runs[last].color = colors[m + 1])
  <2> DEFINE new == [color |-> colors[m + 1], from |-> m, to |-> m + 1]
  <2>1. out = Append(runs, new)
    BY <1>5, <1>7
  <2>2. new \in RunsOf(Colors) /\ new.to = m + 1 /\ new.from = m /\ new.color = colors[m + 1]
    BY <1>0 DEF RunsOf
  <2> HIDE DEF new, out, last
  <2>3. /\ out # <<>> /\ Len(out) = last + 1 /\ DOMAIN out = 1 .. last + 1
        /\ out[last + 1] = new /\ \A r \in 1 .. last : out[r] = runs[r]
    BY <1>e, <2>1, <2>2, AppendProperties, LenProperties
  <2>4. ASSUME NEW r \in 1 .. last
        PROVE  RunFits(out, colors, m + 1, r)
    <3>1. out[r] = runs[r] /\ r # Len(out)
      BY <1>1, <2>3
    <3>2. r > 1 => r - 1 \in 1 .. last /\ out[r - 1] = runs[r - 1]
      BY <1>1, <2>3
    <3> QED
      BY <1>4, <3>1, <3>2 DEF RunFits
  <2>5. RunFits(out, colors, m + 1, last + 1)
    <3>1. last = 0 => m = 1
      BY <1>0, <1>1
    <3>2. last > 0 => last \in 1 .. last /\ out[last] = runs[last] /\ runs[last].color # colors[m + 1]
      BY <1>1, <1>7, <2>3
    <3>3. last > 0 => runs[last].to = m
      BY <1>4, <1>e, <3>2 DEF RunFits
    <3>4. \A i \in new.from + 1 .. new.to : colors[i] = new.color
      BY <1>0, <2>2
    <3>5. (last + 1 = 1 <=> last = 0) /\ (last + 1) - 1 = last /\ (last + 1 > 1 <=> last > 0) /\ m < m + 1
      BY <1>0, <1>1
    <3> QED
      BY <1>1, <2>2, <2>3, <3>1, <3>2, <3>3, <3>4, <3>5 DEF RunFits
  <2>6. \A r \in 1 .. last + 1 : RunFits(out, colors, m + 1, r)
    <3>1. \A r \in 1 .. last + 1 : r \in 1 .. last \/ r = last + 1
      BY <1>1
    <3> QED
      BY <2>4, <2>5, <3>1
  <2>7. out = <<>> <=> m + 1 < 2
    BY <1>0, <2>3
  <2>8. Screen!DrawsTrack(out, colors, m + 1)
    BY <2>3, <2>6, <2>7 DEF Screen!DrawsTrack, RunFits
  <2> QED
    BY <2>8 DEF out
<1> QED
  BY <1>6, <1>7

LEMMA ExtendedType ==
    ASSUME NEW Colors, NEW color \in Colors, NEW i \in Int, NEW runs \in Seq(RunsOf(Colors))
    PROVE  Screen!Extended(runs, color, i) \in Seq(RunsOf(Colors))
<1> DEFINE last == Len(runs)
           old == [runs[last] EXCEPT !.to = i]
           new == [color |-> color, from |-> i - 1, to |-> i]
<1>1. CASE runs # <<>> /\ runs[last].color = color
  <2>1. last \in 1 .. Len(runs)
    BY <1>1, LenProperties
  <2>2. old \in RunsOf(Colors)
    BY <2>1, ElementOfSeq, LongerRun
  <2>3. Screen!Extended(runs, color, i) = [runs EXCEPT ![last] = old]
    BY <1>1 DEF Screen!Extended
  <2> HIDE DEF old, last
  <2> QED
    BY <2>1, <2>2, <2>3, ExceptSeq
<1>2. CASE ~(runs # <<>> /\ runs[last].color = color)
  <2>1. Screen!Extended(runs, color, i) = Append(runs, new)
    BY <1>2 DEF Screen!Extended
  <2>2. new \in RunsOf(Colors)
    BY DEF RunsOf
  <2> HIDE DEF new
  <2> QED
    BY <2>1, <2>2, AppendProperties
<1> QED
  BY <1>1, <1>2

LEMMA Drawn ==
    ASSUME NEW Colors, NEW colors \in Seq(Colors)
    PROVE  Screen!DrawsTrack(Screen!Runs(colors), colors, Len(colors))
<1> DEFINE n == Len(colors)
           V == Seq(RunsOf(Colors))
           step == [s \in (1 .. n) \X V |-> Screen!Extended(s[2], colors[s[1]], s[1])]
           Fixed(f) == f = [i \in 1 .. n |-> IF i = 1 THEN <<>> ELSE Screen!Extended(f[i - 1], colors[i], i)]
           drawn == CHOOSE f : Fixed(f)
           good == {i \in 1 .. n : drawn[i] \in V /\ Screen!DrawsTrack(drawn[i], colors, i)}
<1>1. n \in Nat /\ 1 \in Nat /\ <<>> \in V
  BY LenProperties
<1>2. CASE n = 0
  BY <1>2 DEF Screen!Runs, Screen!DrawsTrack
<1>3. CASE n >= 1
  <2>1. ASSUME NEW i \in 1 .. n, NEW v \in V
        PROVE  Screen!Extended(v, colors[i], i) \in V
    BY ExtendedType
  <2>2. \E f : Fixed(f)
    <3>1. step \in [(1 .. n) \X V -> V]
      BY <2>1
    <3>2. PICK f \in [1 .. n -> V] : Recurses(f, 1, n, <<>>, step)
      <4> HIDE DEF step, V, n
      <4> QED
        BY <1>1, <1>3, <3>1, Recursion
    <3>3. ASSUME NEW i \in 1 .. n, i # 1
          PROVE  f[i] = Screen!Extended(f[i - 1], colors[i], i)
      <4>1. f[i] = step[<<i, f[i - 1]>>]
        BY <3>2, <3>3 DEF Recurses
      <4>2. i - 1 \in 1 .. n
        BY <1>1, <3>3
      <4>3. <<i, f[i - 1]>> \in (1 .. n) \X V
        <5> HIDE DEF V, n
        <5> QED
          BY <4>2
      <4> HIDE DEF V, n
      <4> QED
        BY <4>1, <4>3
    <3>4. 1 \in 1 .. n => f[1] = <<>>
      BY <3>2 DEF Recurses
    <3>5. Fixed(f)
      <4> HIDE DEF V, n
      <4> QED
        BY <3>3, <3>4
    <3> HIDE DEF Fixed
    <3> QED
      BY <3>5
  <2>3. Fixed(drawn)
    BY <2>2
  <2> HIDE DEF drawn
  <2>4. 1 \in good
    <3>1. Screen!DrawsTrack(<<>>, colors, 1)
      BY DEF Screen!DrawsTrack
    <3> QED
      BY <1>1, <1>3, <2>3, <3>1
  <2>5. ASSUME NEW i \in 1 .. n, i # 1, i - 1 \in good
        PROVE  i \in good
    <3>1. drawn[i] = Screen!Extended(drawn[i - 1], colors[i], i)
      BY <2>3, <2>5
    <3>2. i - 1 \in 1 .. Len(colors) - 1 /\ (i - 1) + 1 = i
      BY <1>1, <2>5
    <3>3. Screen!DrawsTrack(drawn[i], colors, i)
      BY <2>5, <3>1, <3>2, DrawnFurther
    <3>4. drawn[i] \in V
      BY <2>1, <2>5, <3>1
    <3> QED
      BY <3>3, <3>4
  <2>6. n \in good
    <3>1. n \in 1 .. n
      BY <1>1, <1>3
    <3> HIDE DEF good
    <3> QED
      BY <1>1, <2>4, <2>5, <3>1, Induction
  <2>7. Screen!Runs(colors) = drawn[n]
    BY <1>3 DEF Screen!Runs, drawn
  <2> QED
    BY <2>6, <2>7
<1> QED
  BY <1>1, <1>2, <1>3

-----------------------------------------------------------------------------
(* The card of a track (ThumbLayout of TrackCard.tsx): a pixel on the map is in   *)
(* the row and the column of a tile that is asked for.                          *)
LEMMA Rounded ==
    ASSUME NEW a \in Int
    PROVE  a \div 2 \in Int
OBVIOUS

LEMMA Covered ==
    ASSUME NEW q, CardQuestion(q)
    PROVE  Screen!CardCovered(Screen!ThumbLayout(q.points))
<1> DEFINE points == q.points
           xs == {points[i].x : i \in DOMAIN points}
           ys == {points[i].y : i \in DOMAIN points}
           Fits(z) == /\ (Screen!Max(xs) - Screen!Min(xs)) * Screen!WorldTiles[z] <= CardWidth - 2 * Padding
                      /\ (Screen!Max(ys) - Screen!Min(ys)) * Screen!WorldTiles[z] <= CardHeight - 2 * Padding
           zooms == {0} \union {z \in 0 .. MaxTileZoom : Fits(z)}
           zoom == Screen!Max(zooms)
           world == Screen!WorldTiles[zoom]
           left == ((Screen!Min(xs) + Screen!Max(xs)) * world - CardWidth) \div 2
           top == ((Screen!Min(ys) + Screen!Max(ys)) * world - CardHeight) \div 2
           tiles == {[column |-> x, x |-> x % world, y |-> y] :
                        x \in Screen!ThumbTiles(left, CardWidth),
                        y \in Screen!ThumbTiles(top, CardHeight) \cap 0 .. world - 1}
           layout == Screen!ThumbLayout(points)
<1>1. layout = [world |-> world, left |-> left, top |-> top, tiles |-> tiles]
  BY DEF Screen!ThumbLayout
<1>2. xs \subseteq Int /\ IsFiniteSet(xs) /\ xs # {} /\ ys \subseteq Int /\ IsFiniteSet(ys) /\ ys # {}
  <2>1. points \in Seq([x : Int, y : Int]) /\ Len(points) >= 2
    BY DEF CardQuestion
  <2>2. DOMAIN points = 1 .. Len(points) /\ Len(points) \in Nat /\ Len(points) # 0
    BY <2>1, LenProperties
  <2>3. \A i \in 1 .. Len(points) : points[i].x \in Int /\ points[i].y \in Int
    <3> HIDE DEF points
    <3>1. ASSUME NEW i \in 1 .. Len(points) PROVE points[i] \in [x : Int, y : Int]
      BY <2>1, ElementOfSeq
    <3> QED
      BY <3>1
  <2>4. IsFiniteSet(DOMAIN points)
    BY <2>2, FS_Interval
  <2> DEFINE f == [i \in DOMAIN points |-> points[i].x]
             g == [i \in DOMAIN points |-> points[i].y]
  <2>5. IsFiniteSet({f[i] : i \in DOMAIN points}) /\ IsFiniteSet({g[i] : i \in DOMAIN points})
    BY <2>4, FiniteImage
  <2>6. xs = {f[i] : i \in DOMAIN points} /\ ys = {g[i] : i \in DOMAIN points}
    OBVIOUS
  <2>7. 1 \in DOMAIN points
    BY <2>2
  <2> QED
    BY <2>2, <2>3, <2>5, <2>6, <2>7, ZenonT(30)
<1>3. zoom \in 0 .. MaxTileZoom
  <2>1. 0 \in 0 .. MaxTileZoom /\ MaxTileZoom \in Nat
    BY LibraryConstants
  <2>2. zooms \subseteq 0 .. MaxTileZoom /\ zooms # {}
    BY <2>1
  <2>3. IsFiniteSet(0 .. MaxTileZoom)
    BY <2>1, FS_Interval
  <2> HIDE DEF zooms
  <2>4. IsFiniteSet(zooms)
    BY <2>2, <2>3, FS_Subset
  <2>5. zoom \in zooms
    <3>1. zooms \subseteq Int
      BY <2>1, <2>2
    <3> QED
      BY <2>2, <2>4, <3>1, MaxOf
  <2> QED
    BY <2>2, <2>5
<1>4. world \in Nat \ {0}
  <2> HIDE DEF zoom
  <2> QED
    BY <1>3, WorldsAreWide
<1> HIDE DEF zoom, world
<1>5. left \in Int /\ top \in Int
  <2> HIDE DEF xs, ys
  <2>1. /\ Screen!Min(xs) \in Int /\ Screen!Max(xs) \in Int
        /\ Screen!Min(ys) \in Int /\ Screen!Max(ys) \in Int
    BY <1>2, MaxOf, MinOf
  <2> DEFINE wide == Screen!Min(xs) + Screen!Max(xs)
             high == Screen!Min(ys) + Screen!Max(ys)
  <2>2. wide \in Int /\ high \in Int /\ CardWidth \in Int /\ CardHeight \in Int /\ world \in Int
    BY <1>4, <2>1, LibraryConstants
  <2> HIDE DEF wide, high
  <2>3. wide * world - CardWidth \in Int /\ high * world - CardHeight \in Int
    BY <2>2
  <2>4. (wide * world - CardWidth) \div 2 \in Int /\ (high * world - CardHeight) \div 2 \in Int
    BY <2>3, Rounded
  <2> QED
    BY <2>4 DEF wide, high
<1> HIDE DEF left, top
<1>6. ASSUME NEW x \in left .. left + CardWidth - 1, NEW y \in top .. top + CardHeight - 1,
             y \in 0 .. Tile * world - 1
      PROVE  \E t \in tiles : t.column = x \div Tile /\ t.y = y \div Tile
  <2>0. Tile \in Nat \ {0} /\ CardWidth \in Nat /\ CardHeight \in Nat /\ world \in Nat
    BY <1>4, LibraryConstants
  <2>1. x \in Int /\ y \in Int /\ left <= x /\ x <= left + CardWidth /\ top <= y /\ y <= top + CardHeight
        /\ left + CardWidth \in Int /\ top + CardHeight \in Int /\ 0 <= y /\ y < Tile * world
    <3>1. left + CardWidth \in Int /\ top + CardHeight \in Int /\ Tile * world \in Int
      BY <1>5, <2>0
    <3>2. x \in Int /\ left <= x /\ x <= left + CardWidth - 1
      BY <1>5, <2>0
    <3>3. y \in Int /\ top <= y /\ y <= top + CardHeight - 1
      BY <1>5, <2>0
    <3>4. 0 <= y /\ y <= Tile * world - 1
      BY <1>6, <3>1
    <3>5. x <= left + CardWidth /\ y <= top + CardHeight /\ y < Tile * world
      <4> DEFINE side == Tile * world
      <4>1. side \in Int /\ y <= side - 1
        BY <3>1, <3>4
      <4> HIDE DEF side
      <4>2. x <= left + CardWidth
        BY <1>5, <2>0, <3>2
      <4>3. y <= top + CardHeight
        BY <1>5, <2>0, <3>3
      <4>4. y < side
        BY <3>3, <4>1
      <4> QED
        BY <4>2, <4>3, <4>4 DEF side
    <3> QED
      BY <3>1, <3>2, <3>3, <3>4, <3>5
  <2>2. /\ left \div Tile <= x \div Tile /\ x \div Tile <= (left + CardWidth) \div Tile
        /\ top \div Tile <= y \div Tile /\ y \div Tile <= (top + CardHeight) \div Tile
    <3>1. left \div Tile <= x \div Tile
      BY <1>5, <2>0, <2>1, DivLe
    <3>2. x \div Tile <= (left + CardWidth) \div Tile
      BY <2>0, <2>1, DivLe
    <3>3. top \div Tile <= y \div Tile
      BY <1>5, <2>0, <2>1, DivLe
    <3>4. y \div Tile <= (top + CardHeight) \div Tile
      BY <2>0, <2>1, DivLe
    <3> QED
      BY <3>1, <3>2, <3>3, <3>4
  <2>3. y \div Tile \in 0 .. world - 1
    BY <2>0, <2>1, DivLt
  <2>4. x \div Tile \in Screen!ThumbTiles(left, CardWidth) /\ y \div Tile \in Screen!ThumbTiles(top, CardHeight)
    <3>1. left \div Tile \in Int /\ x \div Tile \in Int /\ (left + CardWidth) \div Tile \in Int
          /\ top \div Tile \in Int /\ y \div Tile \in Int /\ (top + CardHeight) \div Tile \in Int
      BY <1>5, <2>0, <2>1
    <3> DEFINE a == left \div Tile
               b == (left + CardWidth) \div Tile
               c == top \div Tile
               d == (top + CardHeight) \div Tile
               u == x \div Tile
               v == y \div Tile
    <3>2. Screen!ThumbTiles(left, CardWidth) = a .. b /\ Screen!ThumbTiles(top, CardHeight) = c .. d
      BY DEF Screen!ThumbTiles
    <3>3. a \in Int /\ b \in Int /\ c \in Int /\ d \in Int /\ u \in Int /\ v \in Int /\ a <= u /\ u <= b /\ c <= v /\ v <= d
      BY <2>2, <3>1
    <3> HIDE DEF a, b, c, d, u, v
    <3>4. u \in a .. b /\ v \in c .. d
      BY <3>3
    <3> QED
      BY <3>2, <3>4 DEF u, v
  <2> DEFINE u == x \div Tile
             v == y \div Tile
             t == [column |-> u, x |-> u % world, y |-> v]
  <2>5. u \in Screen!ThumbTiles(left, CardWidth) /\ v \in Screen!ThumbTiles(top, CardHeight) \cap 0 .. world - 1
    BY <2>3, <2>4
  <2> HIDE DEF u, v
  <2>6. t \in tiles /\ t.column = u /\ t.y = v
    BY <2>5
  <2> HIDE DEF t, tiles
  <2>7. \E s \in tiles : s.column = u /\ s.y = v
    BY <2>6
  <2> QED
    BY <2>7 DEF u, v
<1> QED
  BY <1>1, <1>6 DEF Screen!CardCovered

-----------------------------------------------------------------------------
(* A track as a file (buildGPX and parseGPX of gpx.ts): a coordinate that was     *)
(* rounded once is not rounded further, the elements that are written are        *)
(* read one by one, and so is what was read.                                    *)
LEMMA Up ==
    ASSUME NEW u \in Nat \ {0}, NEW k \in Nat
    PROVE  /\ ((k + u \div 2) \div u) \in Nat
           /\ ((k + u \div 2) \div u) * u \in Nat
           /\ ((((k + u \div 2) \div u) * u + u \div 2) \div u) * u = ((k + u \div 2) \div u) * u
<1> DEFINE h == u \div 2
           q == (k + h) \div u
<1>1. h \in Nat /\ h < u
  OBVIOUS
<1>2. q \in Nat
  <2> HIDE DEF h
  <2>1. k + h \in Nat
    BY <1>1
  <2> QED
    BY <2>1
<1> HIDE DEF q, h
<1>3. q * u \in Nat
  BY <1>2
<1>4. (q * u + h) \div u = q
  BY <1>1, <1>2, <1>3
<1> QED
  BY <1>2, <1>3, <1>4 DEF q, h

LEMMA NearestTwice ==
    ASSUME NEW u \in Nat \ {0}, NEW n \in Int
    PROVE  Gpx!Nearest(n, u) \in Int /\ Gpx!Nearest(Gpx!Nearest(n, u), u) = Gpx!Nearest(n, u)
<1> DEFINE Round(k) == ((k + u \div 2) \div u) * u
<1>1. \A k \in Nat : Round(k) \in Nat /\ Round(Round(k)) = Round(k)
  BY Up
<1>2. \A k \in Int : Gpx!Nearest(k, u) = IF k < 0 THEN -Round(-k) ELSE Round(k)
  BY DEF Gpx!Nearest
<1> HIDE DEF Round
<1>3. CASE n < 0
  <2>1. Gpx!Nearest(n, u) = -Round(-n) /\ -n \in Nat
    BY <1>2, <1>3
  <2> DEFINE m == Round(-n)
  <2>2. m \in Nat /\ Round(m) = m
    BY <1>1, <2>1
  <2> HIDE DEF m
  <2>3. Gpx!Nearest(-m, u) = -m
    <3>1. CASE m = 0
      BY <1>2, <2>2, <3>1
    <3>2. CASE m # 0
      <4>1. -m < 0 /\ -(-m) = m /\ -m \in Int
        BY <2>2, <3>2
      <4> QED
        BY <1>2, <2>2, <4>1
    <3> QED
      BY <3>1, <3>2
  <2>4. Gpx!Nearest(n, u) = -m
    BY <2>1 DEF m
  <2> QED
    BY <2>2, <2>3, <2>4
<1>4. CASE ~(n < 0)
  <2>1. Gpx!Nearest(n, u) = Round(n) /\ n \in Nat
    BY <1>2, <1>4
  <2>2. Round(n) \in Nat /\ Round(Round(n)) = Round(n)
    BY <1>1, <2>1
  <2>3. Gpx!Nearest(Round(n), u) = Round(n)
    BY <1>2, <2>2
  <2> QED
    BY <2>1, <2>2, <2>3
<1> QED
  BY <1>3, <1>4

LEMMA CoordTwice ==
    ASSUME NEW n \in Int
    PROVE  Gpx!Coord(n) \in Int /\ Gpx!Coord(Gpx!Coord(n)) = Gpx!Coord(n)
BY NearestTwice, LibraryConstants DEF Gpx!Coord

LEMMA HeightTwice ==
    ASSUME NEW ele \in SUBSET Int
    PROVE  Gpx!Height(ele) \in SUBSET Int /\ Gpx!Height(Gpx!Height(ele)) = Gpx!Height(ele)
<1>1. \A n \in ele : Gpx!Nearest(n, HeightUnit) \in Int
                     /\ Gpx!Nearest(Gpx!Nearest(n, HeightUnit), HeightUnit) = Gpx!Nearest(n, HeightUnit)
  BY NearestTwice, LibraryConstants
<1> QED
  BY <1>1 DEF Gpx!Height

LEMMA TheOnly ==
    ASSUME NEW x
    PROVE  Gpx!The({x}) = x
BY DEF Gpx!The

Elements == [lat : SUBSET Int, lon : SUBSET Int, ele : SUBSET Int, time : SUBSET STRING]

ReadAs(el) == [lat |-> Gpx!The(el.lat), lon |-> Gpx!The(el.lon), ele |-> el.ele, time |-> el.time]

LEMMA PointRead ==
    ASSUME NEW el \in Elements, el.lat # {}, el.lon # {}
    PROVE  Gpx!ParsePoint(el) = <<ReadAs(el)>> /\ ReadAs(el) \in Points
BY DEF Gpx!ParsePoint, Gpx!The, ReadAs, Elements, Points

LEMMA OneMore ==
    ASSUME NEW T, NEW n \in Nat, NEW f, \A i \in 1 .. n + 1 : f[i] \in T
    PROVE  [j \in 1 .. n |-> f[j]] \o <<f[n + 1]>> = [j \in 1 .. n + 1 |-> f[j]]
<1> DEFINE s == [j \in 1 .. n |-> f[j]]
           t == [j \in 1 .. n + 1 |-> f[j]]
           x == f[n + 1]
<1>1. s \in Seq(T) /\ Len(s) = n /\ t \in Seq(T) /\ Len(t) = n + 1 /\ DOMAIN t = 1 .. n + 1
  BY IsASeq, LenProperties
<1>2. x \in T /\ <<x>> \in Seq(T) /\ Len(<<x>>) = 1 /\ <<x>>[1] = x
  OBVIOUS
<1>3. \A j \in 1 .. n : s[j] = f[j]
  OBVIOUS
<1>4. \A j \in 1 .. n + 1 : t[j] = f[j]
  OBVIOUS
<1>x. x = f[n + 1]
  OBVIOUS
<1> HIDE DEF s, t, x
<1>5. s \o <<x>> \in Seq(T) /\ Len(s \o <<x>>) = n + 1
  BY <1>1, <1>2, ConcatProperties
<1>6. ASSUME NEW j \in 1 .. n + 1 PROVE (s \o <<x>>)[j] = t[j]
  <2>1. CASE j = n + 1
    <3>1. n + 1 > n /\ (n + 1) - n = 1 /\ n + 1 \in 1 .. Len(s) + Len(<<x>>)
      BY <1>1, <1>2
    <3>2. (s \o <<x>>)[n + 1] = <<x>>[(n + 1) - n]
      BY <1>1, <1>2, <3>1, ConcatProperties
    <3> QED
      BY <1>2, <1>4, <1>x, <2>1, <3>1, <3>2
  <2>2. CASE j # n + 1
    <3>1. j \in 1 .. n /\ j <= Len(s) /\ j \in 1 .. Len(s) + Len(<<x>>)
      BY <1>1, <1>2, <2>2
    <3>2. (s \o <<x>>)[j] = s[j]
      BY <1>1, <1>2, <3>1, ConcatProperties
    <3> QED
      BY <1>3, <1>4, <3>1, <3>2
  <2> QED
    BY <2>1, <2>2
<1>7. s \o <<x>> = t
  BY <1>1, <1>5, <1>6, SeqEqual
<1> QED
  BY <1>7 DEF s, t, x

LEMMA PointParsed ==
    ASSUME NEW el \in Elements
    PROVE  Gpx!ParsePoint(el) \in Seq(Points)
<1>1. CASE el.lat = {} \/ el.lon = {}
  BY <1>1 DEF Gpx!ParsePoint
<1>2. CASE el.lat # {} /\ el.lon # {}
  <2>1. Gpx!ParsePoint(el) = <<ReadAs(el)>> /\ ReadAs(el) \in Points
    BY <1>2, PointRead
  <2> DEFINE p == ReadAs(el)
  <2> HIDE DEF p
  <2>2. Gpx!ParsePoint(el) = <<p>> /\ p \in Points
    BY <2>1 DEF p
  <2> QED
    BY <2>2
<1> QED
  BY <1>1, <1>2

LEMMA ListRead ==
    ASSUME NEW list \in Seq(Elements),
           \A i \in 1 .. Len(list) : list[i].lat # {} /\ list[i].lon # {}
    PROVE  /\ Gpx!ParsePoints(list) = [i \in 1 .. Len(list) |-> ReadAs(list[i])]
           /\ Gpx!ParsePoints(list) \in Seq(Points) /\ Len(Gpx!ParsePoints(list)) = Len(list)
<1> DEFINE n == Len(list)
           V == Seq(Points)
           step == [s \in (0 .. n) \X V |-> IF s[1] = 0 THEN <<>> ELSE s[2] \o Gpx!ParsePoint(list[s[1]])]
           Fixed(f) == f = [i \in 0 .. n |-> IF i = 0 THEN <<>> ELSE f[i - 1] \o Gpx!ParsePoint(list[i])]
           read == CHOOSE f : Fixed(f)
           good == {i \in 0 .. n : read[i] = [j \in 1 .. i |-> ReadAs(list[j])]}
<1>1. n \in Nat /\ 0 \in Nat /\ 0 <= n /\ 0 \in 0 .. n /\ n \in 0 .. n /\ <<>> \in V /\ n = Len(list)
  BY LenProperties
<1>2. \A i \in 1 .. n : list[i] \in Elements
  BY ElementOfSeq
<1>3. \A i \in 1 .. n : Gpx!ParsePoint(list[i]) = <<ReadAs(list[i])>> /\ ReadAs(list[i]) \in Points
  BY <1>2, PointRead
<1>4. \A i \in 1 .. n : Gpx!ParsePoint(list[i]) \in V
  BY <1>2, PointParsed
<1>5. \E f : Fixed(f)
  <2>1. step \in [(0 .. n) \X V -> V]
    <3>1. ASSUME NEW i \in 0 .. n, NEW v \in V, i # 0
          PROVE  v \o Gpx!ParsePoint(list[i]) \in V
      <4>1. i \in 1 .. n
        BY <1>1, <3>1
      <4> QED
        BY <1>4, <4>1, ConcatProperties
    <3> QED
      BY <1>1, <3>1
  <2>2. PICK f \in [0 .. n -> V] : Recurses(f, 0, n, <<>>, step)
    <3> HIDE DEF step, V, n
    <3> QED
      BY <1>1, <2>1, Recursion
  <2>3. ASSUME NEW i \in 0 .. n
        PROVE  f[i] = IF i = 0 THEN <<>> ELSE f[i - 1] \o Gpx!ParsePoint(list[i])
    <3>1. i # 0 => i - 1 \in 0 .. n
      BY <1>1
    <3>2. i # 0 => <<i, f[i - 1]>> \in (0 .. n) \X V
      <4> HIDE DEF V, n
      <4> QED
        BY <2>2, <3>1
    <3> QED
      BY <2>2, <3>1, <3>2 DEF Recurses
  <2>4. Fixed(f)
    BY <2>3, SMTT(30)
  <2> HIDE DEF Fixed
  <2> QED
    BY <2>4
<1>6. Fixed(read)
  BY <1>5
<1> HIDE DEF read, n
<1>7. 0 \in good
  <2>1. read[0] = <<>> /\ [j \in 1 .. 0 |-> ReadAs(list[j])] = <<>>
    BY <1>1, <1>6
  <2> QED
    BY <1>1, <2>1
<1>8. ASSUME NEW i \in 0 .. n, i # 0, i - 1 \in good
      PROVE  i \in good
  <2> DEFINE r == [j \in 1 .. i |-> ReadAs(list[j])]
             m == i - 1
  <2>1. i \in 1 .. n /\ m \in Nat /\ m + 1 = i /\ 1 .. i \subseteq 1 .. n
    BY <1>1, <1>8
  <2>2. read[i] = read[i - 1] \o <<ReadAs(list[i])>>
    BY <1>3, <1>6, <1>8, <2>1
  <2>3. \A j \in 1 .. i : r[j] \in Points /\ r[j] = ReadAs(list[j])
    BY <1>3, <2>1
  <2>4. read[i - 1] = [j \in 1 .. m |-> ReadAs(list[j])]
    BY <1>8
  <2>5. [j \in 1 .. m |-> r[j]] = [j \in 1 .. m |-> ReadAs(list[j])]
    BY <2>1
  <2> DEFINE f == [j \in 1 .. m + 1 |-> ReadAs(list[j])]
  <2>6. \A j \in 1 .. m + 1 : f[j] \in Points
    BY <2>1, <2>3
  <2>7. [j \in 1 .. m |-> f[j]] \o <<f[m + 1]>> = [j \in 1 .. m + 1 |-> f[j]]
    <3> HIDE DEF f, m
    <3> QED
      BY <2>1, <2>6, OneMore
  <2>8. /\ [j \in 1 .. m |-> f[j]] = read[i - 1]
        /\ f[m + 1] = ReadAs(list[i]) /\ [j \in 1 .. m + 1 |-> f[j]] = r
    <3>1. m + 1 = i /\ i \in 1 .. i /\ \A j \in 1 .. m : j \in 1 .. i
      BY <2>1
    <3>2. \A j \in 1 .. i : f[j] = ReadAs(list[j])
      BY <3>1
    <3> HIDE DEF m
    <3> QED
      BY <2>4, <3>1, <3>2
  <2>9. read[i] = r
    <3> HIDE DEF f, r, m
    <3> QED
      BY <2>2, <2>7, <2>8
  <2> QED
    BY <2>9
<1>9. n \in good
  <2> HIDE DEF good
  <2> QED
    BY <1>1, <1>7, <1>8, Induction
<1>10. Gpx!ParsePoints(list) = read[n]
  BY DEF Gpx!ParsePoints, read, n
<1>11. [i \in 1 .. n |-> ReadAs(list[i])] \in Seq(Points) /\ Len([i \in 1 .. n |-> ReadAs(list[i])]) = n
  BY <1>1, <1>3, IsASeq, LenProperties
<1> QED
  BY <1>9, <1>10, <1>11 DEF n

LEMMA OneSegment ==
    ASSUME NEW el, NEW points, el.segments = <<points>>, Gpx!ParsePoints(points) \in Seq(Points)
    PROVE  Gpx!PointsOf(el) = Gpx!ParsePoints(points)
<1> DEFINE X == Gpx!ParsePoints(points)
           Fixed(f) == f = [s \in 0 .. 1 |-> IF s = 0 THEN <<>> ELSE f[s - 1] \o Gpx!ParsePoints(<<points>>[s])]
           g == [s \in 0 .. 1 |-> IF s = 0 THEN <<>> ELSE X]
           read == CHOOSE f : Fixed(f)
<1>1. <<>> \o X = X
  BY ConcatEmptySeq
<1>2. ASSUME NEW s \in 0 .. 1
      PROVE  g[s] = IF s = 0 THEN <<>> ELSE g[s - 1] \o Gpx!ParsePoints(<<points>>[s])
  <2>1. CASE s = 0
    BY <2>1
  <2>2. CASE s = 1
    <3>1. <<points>>[s] = points /\ g[s] = X /\ g[s - 1] = <<>>
      BY <2>2
    <3> HIDE DEF g
    <3> QED
      BY <1>1, <2>2, <3>1
  <2> QED
    BY <2>1, <2>2
<1>3. Fixed(g)
  BY <1>2
<1>4. Fixed(read)
  <2> HIDE DEF Fixed
  <2> QED
    BY <1>3
<1>5. Gpx!PointsOf(el) = read[1]
  <2>1. Len(<<points>>) = 1
    OBVIOUS
  <2> QED
    BY <2>1 DEF Gpx!PointsOf, read
<1> HIDE DEF read
<1>6. read[0] = <<>> /\ read[1] = read[0] \o X
  <2>1. <<points>>[1] = points
    OBVIOUS
  <2> QED
    BY <1>4, <2>1
<1> QED
  BY <1>1, <1>5, <1>6

LEMMA SeqOf ==
    ASSUME NEW T, NEW n \in Nat, NEW s, s = [i \in 1 .. n |-> s[i]], \A i \in 1 .. n : s[i] \in T
    PROVE  s \in Seq(T) /\ Len(s) = n /\ DOMAIN s = 1 .. n
<1> DEFINE t == [i \in 1 .. n |-> s[i]]
<1>1. t \in Seq(T)
  BY IsASeq
<1>2. DOMAIN t = 1 .. n /\ t = s
  OBVIOUS
<1> HIDE DEF t
<1>3. Len(t) = n
  BY <1>1, <1>2, LenProperties
<1> QED
  BY <1>1, <1>2, <1>3

LEMMA AppendOne ==
    ASSUME NEW r
    PROVE  Append(<<>>, r) = <<r>>
<1>1. r \in {r} /\ <<>> \in Seq({r})
  OBVIOUS
<1>2. Append(<<>>, r) = <<>> \o <<r>>
  BY <1>1, AppendIsConcat
<1>3. <<r>> \in Seq({r})
  OBVIOUS
<1> QED
  BY <1>2, <1>3, ConcatEmptySeq

\* The points of a track as they are read again, and its waypoints.
PointsKept(track, guessed) ==
    [i \in DOMAIN track.coordinates |->
        LET c == track.coordinates[i]
        IN [lat |-> Gpx!Coord(c.lat), lon |-> Gpx!Coord(c.lon),
            ele |-> IF i \in guessed THEN {} ELSE Gpx!Height(c.ele), time |-> c.time]]

Marked(track) ==
    [i \in DOMAIN track.waypoints |->
        LET w == track.waypoints[i]
        IN [lat |-> Gpx!Coord(w.lat), lon |-> Gpx!Coord(w.lon), ele |-> Gpx!Height(w.ele)]]

Reread(track, guessed, now) ==
    [name |-> IF track.name # {} THEN track.name ELSE {1}, coordinates |-> PointsKept(track, guessed),
     elevations |-> [i \in DOMAIN PointsKept(track, guessed) |-> PointsKept(track, guessed)[i].ele],
     waypoints |-> Marked(track), isRoute |-> FALSE, time |-> IF track.time = {} THEN {now} ELSE track.time]

Element(c, ele, time) == [lat |-> {Gpx!Coord(c.lat)}, lon |-> {Gpx!Coord(c.lon)}, ele |-> Gpx!Height(ele), time |-> time]

LEMMA ElementType ==
    ASSUME NEW c, c.lat \in Int, c.lon \in Int, NEW ele \in SUBSET Int, NEW time \in SUBSET STRING
    PROVE  /\ Element(c, ele, time) \in Elements
           /\ Element(c, ele, time).lat # {} /\ Element(c, ele, time).lon # {}
           /\ ReadAs(Element(c, ele, time)) =
                [lat |-> Gpx!Coord(c.lat), lon |-> Gpx!Coord(c.lon), ele |-> Gpx!Height(ele), time |-> time]
<1>1. Gpx!Coord(c.lat) \in Int /\ Gpx!Coord(c.lon) \in Int /\ Gpx!Height(ele) \in SUBSET Int
  BY CoordTwice, HeightTwice
<1>2. Gpx!The({Gpx!Coord(c.lat)}) = Gpx!Coord(c.lat) /\ Gpx!The({Gpx!Coord(c.lon)}) = Gpx!Coord(c.lon)
  BY TheOnly
<1> QED
  BY <1>1, <1>2 DEF Element, Elements, ReadAs

LEMMA Height0 == Gpx!Height({}) = {}
BY DEF Gpx!Height

LEMMA PointsRead ==
    ASSUME NEW track, track.coordinates \in Seq(Points), NEW guessed,
           NEW points, points = [i \in DOMAIN track.coordinates |->
               Element(track.coordinates[i], IF i \in guessed THEN {} ELSE track.coordinates[i].ele,
                       track.coordinates[i].time)]
    PROVE  Gpx!ParsePoints(points) = PointsKept(track, guessed) /\ Gpx!ParsePoints(points) \in Seq(Points)
           /\ Len(points) = Len(track.coordinates)
<1> DEFINE cs == track.coordinates
           n == Len(cs)
           Ele(i) == IF i \in guessed THEN {} ELSE cs[i].ele
<1>1. n \in Nat /\ DOMAIN cs = 1 .. n
  BY LenProperties
<1>2. ASSUME NEW i \in 1 .. n
      PROVE  /\ cs[i] \in Points /\ cs[i].lat \in Int /\ cs[i].lon \in Int
             /\ Ele(i) \in SUBSET Int /\ cs[i].time \in SUBSET STRING
  <2>1. cs[i] \in Points
    <3> HIDE DEF cs
    <3> QED
      BY <1>1, ElementOfSeq DEF cs
  <2> HIDE DEF cs
  <2> QED
    BY <2>1 DEF Points
<1>3. ASSUME NEW i \in 1 .. n
      PROVE  points[i] = Element(cs[i], Ele(i), cs[i].time)
  BY <1>1
<1>4. ASSUME NEW i \in 1 .. n
      PROVE  /\ points[i] \in Elements /\ points[i].lat # {} /\ points[i].lon # {}
             /\ ReadAs(points[i]) = [lat |-> Gpx!Coord(cs[i].lat), lon |-> Gpx!Coord(cs[i].lon),
                                     ele |-> Gpx!Height(Ele(i)), time |-> cs[i].time]
  <2> DEFINE c == cs[i]
             e == Ele(i)
             t == cs[i].time
  <2>1. c.lat \in Int /\ c.lon \in Int /\ e \in SUBSET Int /\ t \in SUBSET STRING /\ points[i] = Element(c, e, t)
    BY <1>2, <1>3
  <2> HIDE DEF cs, n, Ele, c, e, t
  <2>2. /\ points[i] \in Elements /\ points[i].lat # {} /\ points[i].lon # {}
        /\ ReadAs(points[i]) = [lat |-> Gpx!Coord(c.lat), lon |-> Gpx!Coord(c.lon),
                                ele |-> Gpx!Height(e), time |-> t]
    BY <2>1, ElementType, ZenonT(30)
  <2> QED
    BY <2>2 DEF c, e, t
<1>5. points = [i \in 1 .. n |-> points[i]]
  BY <1>1
<1>6. points \in Seq(Elements) /\ Len(points) = n
  <2> HIDE DEF cs, n
  <2> QED
    <3> DEFINE s == points
    <3>1. (\A i \in 1 .. n : s[i] \in Elements) /\ s = [i \in 1 .. n |-> s[i]]
      BY <1>4, <1>5
    <3>2. n \in Nat
      BY <1>1
    <3> HIDE DEF s
    <3>3. s \in Seq(Elements) /\ Len(s) = n
      BY <3>1, <3>2, SeqOf
    <3> QED
      BY <3>3 DEF s
<1>7. Gpx!ParsePoints(points) = [i \in 1 .. n |-> ReadAs(points[i])] /\ Gpx!ParsePoints(points) \in Seq(Points)
  <2> HIDE DEF cs, n
  <2> QED
    BY <1>4, <1>6, ListRead
<1>8. ASSUME NEW i \in 1 .. n
      PROVE  ReadAs(points[i]) = [lat |-> Gpx!Coord(cs[i].lat), lon |-> Gpx!Coord(cs[i].lon),
                                  ele |-> IF i \in guessed THEN {} ELSE Gpx!Height(cs[i].ele), time |-> cs[i].time]
  BY <1>4, Height0
<1>9. [i \in 1 .. n |-> ReadAs(points[i])] = PointsKept(track, guessed)
  BY <1>1, <1>8 DEF PointsKept
<1> QED
  BY <1>6, <1>7, <1>9

LEMMA WaypointsRead ==
    ASSUME NEW track, track.waypoints \in Seq(Waypoints),
           NEW list, list = [i \in DOMAIN track.waypoints |-> Element(track.waypoints[i], track.waypoints[i].ele, {})]
    PROVE  Gpx!ParseWaypoints(list) = Marked(track)
<1> DEFINE ws == track.waypoints
           n == Len(ws)
<1>1. n \in Nat /\ DOMAIN ws = 1 .. n
  BY LenProperties
<1>2. ASSUME NEW i \in 1 .. n
      PROVE  ws[i].lat \in Int /\ ws[i].lon \in Int /\ ws[i].ele \in SUBSET Int
  <2>1. ws[i] \in Waypoints
    <3> HIDE DEF ws
    <3> QED
      BY <1>1, ElementOfSeq DEF ws
  <2> HIDE DEF ws
  <2> QED
    BY <2>1 DEF Waypoints
<1>3. ASSUME NEW i \in 1 .. n
      PROVE  list[i] = Element(ws[i], ws[i].ele, {})
  BY <1>1
<1>4. ASSUME NEW i \in 1 .. n
      PROVE  /\ list[i] \in Elements /\ list[i].lat # {} /\ list[i].lon # {}
             /\ ReadAs(list[i]) = [lat |-> Gpx!Coord(ws[i].lat), lon |-> Gpx!Coord(ws[i].lon),
                                   ele |-> Gpx!Height(ws[i].ele), time |-> {}]
  <2> DEFINE none == {}
  <2>1. none \in SUBSET STRING /\ list[i] = Element(ws[i], ws[i].ele, none)
    BY <1>3
  <2> HIDE DEF ws, n, none
  <2>2. /\ list[i] \in Elements /\ list[i].lat # {} /\ list[i].lon # {}
        /\ ReadAs(list[i]) = [lat |-> Gpx!Coord(ws[i].lat), lon |-> Gpx!Coord(ws[i].lon),
                              ele |-> Gpx!Height(ws[i].ele), time |-> none]
    BY <1>2, <2>1, ElementType, ZenonT(30)
  <2> QED
    BY <2>2 DEF none
<1>5. list = [i \in 1 .. n |-> list[i]]
  BY <1>1
<1>6. list \in Seq(Elements) /\ Len(list) = n
  <2> HIDE DEF ws, n
  <2> QED
    <3> DEFINE s == list
    <3>1. (\A i \in 1 .. n : s[i] \in Elements) /\ s = [i \in 1 .. n |-> s[i]]
      BY <1>4, <1>5
    <3>2. n \in Nat
      BY <1>1
    <3> HIDE DEF s
    <3>3. s \in Seq(Elements) /\ Len(s) = n
      BY <3>1, <3>2, SeqOf
    <3> QED
      BY <3>3 DEF s
<1>7. Gpx!ParsePoints(list) = [i \in 1 .. n |-> ReadAs(list[i])]
  <2> HIDE DEF ws, n
  <2> QED
    BY <1>4, <1>6, ListRead
<1>8. Gpx!ParseWaypoints(list) = [i \in 1 .. n |-> [lat |-> ReadAs(list[i]).lat, lon |-> ReadAs(list[i]).lon,
                                                   ele |-> ReadAs(list[i]).ele]]
  <2> HIDE DEF n
  <2> QED
    BY <1>7 DEF Gpx!ParseWaypoints
<1>9. ASSUME NEW i \in 1 .. n
      PROVE  [lat |-> ReadAs(list[i]).lat, lon |-> ReadAs(list[i]).lon, ele |-> ReadAs(list[i]).ele] =
             [lat |-> Gpx!Coord(ws[i].lat), lon |-> Gpx!Coord(ws[i].lon), ele |-> Gpx!Height(ws[i].ele)]
  <2> DEFINE a == Gpx!Coord(ws[i].lat)
             b == Gpx!Coord(ws[i].lon)
             e == Gpx!Height(ws[i].ele)
             r == ReadAs(list[i])
  <2>1. r = [lat |-> a, lon |-> b, ele |-> e, time |-> {}]
    BY <1>4
  <2> HIDE DEF a, b, e, r
  <2>2. [lat |-> r.lat, lon |-> r.lon, ele |-> r.ele] = [lat |-> a, lon |-> b, ele |-> e]
    BY <2>1
  <2> QED
    BY <2>2 DEF a, b, e, r
<1>10. Marked(track) = [i \in 1 .. n |-> [lat |-> Gpx!Coord(ws[i].lat), lon |-> Gpx!Coord(ws[i].lon),
                                          ele |-> Gpx!Height(ws[i].ele)]]
  BY <1>1 DEF Marked
<1> HIDE DEF ws, n
<1> QED
  BY <1>8, <1>9, <1>10

LEMMA WrittenAndRead ==
    ASSUME NEW track, track.coordinates \in Seq(Points), track.coordinates # <<>>,
           track.waypoints \in Seq(Waypoints), NEW guessed, NEW now
    PROVE  Gpx!The(Gpx!ParseGPX(Gpx!BuildGPX(track, guessed, now))) = <<Reread(track, guessed, now)>>
<1> DEFINE doc == Gpx!BuildGPX(track, guessed, now)
           points == [i \in DOMAIN track.coordinates |->
               Element(track.coordinates[i], IF i \in guessed THEN {} ELSE track.coordinates[i].ele,
                       track.coordinates[i].time)]
           list == [i \in DOMAIN track.waypoints |-> Element(track.waypoints[i], track.waypoints[i].ele, {})]
           trk == [name |-> track.name, segments |-> <<points>>]
           time == IF track.time = {} THEN {now} ELSE track.time
           kept == PointsKept(track, guessed)
           new == Reread(track, guessed, now)
           Fixed(f) == f = [k \in 0 .. 1 + 0 |->
                               CASE k = 0 -> <<>>
                                 [] k \in 1 .. 1 -> Gpx!ToTrack(f[k - 1], <<trk>>[k], doc, FALSE)
                                 [] OTHER -> Gpx!ToTrack(f[k - 1], doc.rte[k - 1], doc, TRUE)]
           tracks == CHOOSE f : Fixed(f)
<1>1. doc = [root |-> "gpx", name |-> track.name, time |-> time, wpt |-> list, trk |-> <<trk>>, rte |-> <<>>]
  BY DEF Gpx!BuildGPX, Element
<1>2. doc.root = "gpx" /\ doc.name = track.name /\ doc.time = time /\ doc.wpt = list /\ doc.trk = <<trk>> /\ doc.rte = <<>>
  <2> HIDE DEF doc, time, list, trk
  <2> QED
    BY <1>1
<1>3. Gpx!ParsePoints(points) = kept /\ kept \in Seq(Points)
  <2> HIDE DEF kept
  <2> QED
    BY PointsRead DEF kept
<1>4. Gpx!PointsOf(trk) = kept
  <2>1. trk.segments = <<points>>
    OBVIOUS
  <2> HIDE DEF trk, points, kept
  <2> QED
    BY <1>3, <2>1, OneSegment
<1>5. Gpx!ParseWaypoints(list) = Marked(track)
  BY WaypointsRead
<1>6. kept # <<>>
  <2>1. DOMAIN kept = DOMAIN track.coordinates
    BY DEF PointsKept
  <2>2. DOMAIN track.coordinates # {}
    <3> DEFINE cs == track.coordinates
    <3> HIDE DEF cs
    <3>1. cs \in Seq(Points) /\ cs # <<>>
      BY DEF cs
    <3>2. Len(cs) \in Nat /\ Len(cs) # 0 /\ DOMAIN cs = 1 .. Len(cs)
      BY <3>1, LenProperties
    <3>3. 1 \in DOMAIN cs
      BY <3>2
    <3> QED
      BY <3>3 DEF cs
  <2> QED
    BY <2>1, <2>2
<1>7. Gpx!ToTrack(<<>>, trk, doc, FALSE) = <<new>>
  <2>1. time # {}
    OBVIOUS
  <2>2. Gpx!NameFor(trk, doc, Len(<<>>) + 1) = IF track.name # {} THEN track.name ELSE {1}
    <3>1. trk.name = track.name /\ Len(<<>>) + 1 = 1
      OBVIOUS
    <3> HIDE DEF doc, trk
    <3> QED
      BY <1>2, <3>1 DEF Gpx!NameFor
  <2> HIDE DEF doc, trk, kept, list, time
  <2>3. Gpx!ToTrack(<<>>, trk, doc, FALSE) =
           Append(<<>>, [name |-> IF track.name # {} THEN track.name ELSE {1}, coordinates |-> kept,
                         elevations |-> [i \in DOMAIN kept |-> kept[i].ele],
                         waypoints |-> Marked(track), isRoute |-> FALSE, time |-> time])
    BY <1>2, <1>4, <1>5, <1>6, <2>1, <2>2 DEF Gpx!ToTrack
  <2>4. new = [name |-> IF track.name # {} THEN track.name ELSE {1}, coordinates |-> kept,
                         elevations |-> [i \in DOMAIN kept |-> kept[i].ele],
                         waypoints |-> Marked(track), isRoute |-> FALSE, time |-> time]
    BY DEF Reread, kept, time
  <2> DEFINE r == [name |-> IF track.name # {} THEN track.name ELSE {1}, coordinates |-> kept,
                         elevations |-> [i \in DOMAIN kept |-> kept[i].ele],
                         waypoints |-> Marked(track), isRoute |-> FALSE, time |-> time]
  <2>5. Gpx!ToTrack(<<>>, trk, doc, FALSE) = Append(<<>>, r) /\ new = r
    BY <2>3, <2>4
  <2> HIDE DEF new, r
  <2> QED
    BY <2>5, AppendOne
<1> HIDE DEF doc, trk, new
<1>8. \E f : Fixed(f)
  <2> DEFINE g == [k \in 0 .. 1 + 0 |-> IF k = 0 THEN <<>> ELSE <<new>>]
  <2>1. 0 .. 1 + 0 = {0, 1}
    OBVIOUS
  <2>2. ASSUME NEW k \in 0 .. 1 + 0
        PROVE  g[k] = CASE k = 0 -> <<>>
                        [] k \in 1 .. 1 -> Gpx!ToTrack(g[k - 1], <<trk>>[k], doc, FALSE)
                        [] OTHER -> Gpx!ToTrack(g[k - 1], doc.rte[k - 1], doc, TRUE)
    <3>1. CASE k = 0
      BY <3>1
    <3>2. CASE k # 0
      <4>1. k = 1 /\ k \in 1 .. 1 /\ g[k] = <<new>> /\ g[k - 1] = <<>> /\ <<trk>>[k] = trk
        BY <2>1, <3>2
      <4> HIDE DEF g
      <4> QED
        BY <1>7, <3>2, <4>1
    <3> QED
      BY <3>1, <3>2
  <2>3. Fixed(g)
    BY <2>2
  <2> HIDE DEF Fixed, g
  <2> QED
    BY <2>3
<1>9. Fixed(tracks)
  BY <1>8
<1>10. Gpx!ParseGPX(doc) = {tracks[1 + 0]}
  <2>1. Len(<<trk>>) = 1 /\ Len(<<>>) = 0
    OBVIOUS
  <2> QED
    BY <1>2, <2>1 DEF Gpx!ParseGPX, tracks
<1> HIDE DEF tracks
<1>11. tracks[1] = <<new>>
  <2>1. 0 \in 0 .. 1 + 0 /\ 1 \in 0 .. 1 + 0 /\ 1 \in 1 .. 1 /\ 1 - 1 = 0 /\ 1 # 0
    OBVIOUS
  <2>2. tracks[0] = <<>>
    BY <1>9, <2>1
  <2>3. tracks[1] = Gpx!ToTrack(tracks[0], <<trk>>[1], doc, FALSE)
    BY <1>9, <2>1
  <2>4. <<trk>>[1] = trk
    OBVIOUS
  <2> QED
    BY <1>7, <2>2, <2>3, <2>4
<1>12. 1 + 0 = 1
  OBVIOUS
<1>13. Gpx!The(Gpx!ParseGPX(doc)) = <<new>>
  BY <1>10, <1>11, <1>12, TheOnly
<1> QED
  BY <1>13 DEF doc, new

LEMMA ReadAgain ==
    ASSUME NEW track, track.coordinates \in Seq(Points), track.coordinates # <<>>,
           track.waypoints \in Seq(Waypoints), NEW guessed, NEW now
    PROVE  LET new == Reread(track, guessed, now)
           IN /\ new.coordinates \in Seq(Points) /\ new.coordinates # <<>> /\ new.waypoints \in Seq(Waypoints)
              /\ Reread(new, {}, now) = new
<1> DEFINE new == Reread(track, guessed, now)
           cs == track.coordinates
           ws == track.waypoints
<1>1. new.coordinates = PointsKept(track, guessed) /\ new.waypoints = Marked(track) /\ new.name # {} /\ new.time # {}
      /\ new = [name |-> new.name, coordinates |-> new.coordinates,
                elevations |-> [i \in DOMAIN new.coordinates |-> new.coordinates[i].ele],
                waypoints |-> new.waypoints, isRoute |-> FALSE, time |-> new.time]
  BY DEF Reread
<1>2. Len(cs) \in Nat /\ DOMAIN cs = 1 .. Len(cs) /\ Len(cs) # 0 /\ Len(ws) \in Nat /\ DOMAIN ws = 1 .. Len(ws)
  BY LenProperties
<1>3. ASSUME NEW i \in 1 .. Len(cs)
      PROVE  LET c == new.coordinates[i]
             IN c \in Points /\ Gpx!Coord(c.lat) = c.lat /\ Gpx!Coord(c.lon) = c.lon /\ Gpx!Height(c.ele) = c.ele
  <2> DEFINE old == cs[i]
             c == new.coordinates[i]
  <2>1. old \in Points
    <3> HIDE DEF cs
    <3> QED
      BY <1>2, ElementOfSeq DEF cs
  <2>2. old.lat \in Int /\ old.lon \in Int /\ old.ele \in SUBSET Int /\ old.time \in SUBSET STRING
    <3> HIDE DEF old
    <3> QED
      BY <2>1 DEF Points
  <2>3. c = [lat |-> Gpx!Coord(old.lat), lon |-> Gpx!Coord(old.lon),
             ele |-> IF i \in guessed THEN {} ELSE Gpx!Height(old.ele), time |-> old.time]
    BY <1>1, <1>2 DEF PointsKept
  <2> HIDE DEF old, c
  <2>4. c.lat = Gpx!Coord(old.lat) /\ c.lon = Gpx!Coord(old.lon) /\ c.time = old.time
        /\ c.ele = IF i \in guessed THEN {} ELSE Gpx!Height(old.ele)
    BY <2>3
  <2>5. c.lat \in Int /\ Gpx!Coord(c.lat) = c.lat /\ c.lon \in Int /\ Gpx!Coord(c.lon) = c.lon
    BY <2>2, <2>4, CoordTwice
  <2>6. c.ele \in SUBSET Int /\ Gpx!Height(c.ele) = c.ele
    BY <2>2, <2>4, HeightTwice, Height0
  <2>7. c \in Points
    BY <2>2, <2>3, <2>4, <2>5, <2>6 DEF Points
  <2> QED
    BY <2>5, <2>6, <2>7 DEF c
<1>4. ASSUME NEW i \in 1 .. Len(ws)
      PROVE  LET w == new.waypoints[i]
             IN /\ w \in Waypoints
                /\ w = [lat |-> Gpx!Coord(w.lat), lon |-> Gpx!Coord(w.lon), ele |-> Gpx!Height(w.ele)]
  <2> DEFINE old == ws[i]
             w == new.waypoints[i]
  <2>1. old \in Waypoints
    <3> HIDE DEF ws
    <3> QED
      BY <1>2, ElementOfSeq DEF ws
  <2>2. old.lat \in Int /\ old.lon \in Int /\ old.ele \in SUBSET Int
    <3> HIDE DEF old
    <3> QED
      BY <2>1 DEF Waypoints
  <2>3. w = [lat |-> Gpx!Coord(old.lat), lon |-> Gpx!Coord(old.lon), ele |-> Gpx!Height(old.ele)]
    BY <1>1, <1>2 DEF Marked
  <2> HIDE DEF old, w
  <2>4. w.lat = Gpx!Coord(old.lat) /\ w.lon = Gpx!Coord(old.lon) /\ w.ele = Gpx!Height(old.ele)
    BY <2>3
  <2>5. w.lat \in Int /\ Gpx!Coord(w.lat) = w.lat /\ w.lon \in Int /\ Gpx!Coord(w.lon) = w.lon
    BY <2>2, <2>4, CoordTwice
  <2>6. w.ele \in SUBSET Int /\ Gpx!Height(w.ele) = w.ele
    BY <2>2, <2>4, HeightTwice
  <2>7. w \in Waypoints /\ w = [lat |-> Gpx!Coord(w.lat), lon |-> Gpx!Coord(w.lon), ele |-> Gpx!Height(w.ele)]
    BY <2>3, <2>4, <2>5, <2>6 DEF Waypoints
  <2> QED
    BY <2>7 DEF w
<1>5. DOMAIN new.coordinates = 1 .. Len(cs) /\ DOMAIN new.waypoints = 1 .. Len(ws)
      /\ new.coordinates = [i \in 1 .. Len(cs) |-> new.coordinates[i]]
      /\ new.waypoints = [i \in 1 .. Len(ws) |-> new.waypoints[i]]
  BY <1>1, <1>2 DEF PointsKept, Marked
<1> HIDE DEF new, cs, ws
<1>6. new.coordinates \in Seq(Points) /\ new.waypoints \in Seq(Waypoints)
  <2>1. new.coordinates \in Seq(Points)
    BY <1>2, <1>3, <1>5, SeqOf
  <2>2. new.waypoints \in Seq(Waypoints)
    BY <1>2, <1>4, <1>5, SeqOf
  <2> QED
    BY <2>1, <2>2
<1>7. new.coordinates # <<>>
  <2>1. 1 \in DOMAIN new.coordinates
    BY <1>2, <1>5
  <2> QED
    BY <2>1
<1>8. PointsKept(new, {}) = new.coordinates
  <2>1. ASSUME NEW i \in 1 .. Len(cs)
        PROVE  LET c == new.coordinates[i]
               IN c = [lat |-> Gpx!Coord(c.lat), lon |-> Gpx!Coord(c.lon), ele |-> Gpx!Height(c.ele), time |-> c.time]
    BY <1>3 DEF Points
  <2> QED
    BY <1>5, <2>1 DEF PointsKept
<1>9. Marked(new) = new.waypoints
  BY <1>4, <1>5 DEF Marked
<1>10. Reread(new, {}, now) = new
  BY <1>1, <1>8, <1>9 DEF Reread
<1> QED
  BY <1>6, <1>7, <1>10 DEF new

-----------------------------------------------------------------------------
(* The tank (planFuelRange of fuelRange.ts): within a leg the way since the last  *)
(* stop is what is behind the leg's start, and the legs that are warned of are   *)
(* those longer than what is meant to be used.                                  *)
LEMMA SameExtremes ==
    ASSUME NEW S
    PROVE  /\ Backend!Max(S) = Screen!Max(S) /\ Backend!Min(S) = Screen!Min(S)
           /\ Edits!Max(S) = Screen!Max(S) /\ Edits!Min(S) = Screen!Min(S)
BY DEF Backend!Max, Screen!Max, Backend!Min, Screen!Min, Edits!Max, Edits!Min

LEMMA LesserOfTwo ==
    ASSUME NEW a \in Int, NEW b \in Int
    PROVE  /\ Screen!Min({a, b}) = IF a <= b THEN a ELSE b
           /\ Screen!Max({a, b}) = IF a <= b THEN b ELSE a
BY DEF Screen!Min, Screen!Max

Tank == [range : Nat, reserve : 0 .. 100]

LEMMA TankSettings ==
    ASSUME NEW range \in SUBSET Int, \A r \in range : range = {r},
           NEW reserve \in SUBSET Int, \A r \in reserve : reserve = {r}
    PROVE  Backend!NormalizeFuelRange(range, reserve) \in Tank
<1> DEFINE ride == IF \E r \in range : r >= MinRange THEN Backend!Min(range \union {MaxRange}) ELSE DefaultRange
           left == IF \E r \in reserve : r >= 0 THEN Backend!Min(reserve \union {MaxReserve}) ELSE DefaultReserve
<1>1. Backend!NormalizeFuelRange(range, reserve) = [range |-> ride, reserve |-> left]
  BY DEF Backend!NormalizeFuelRange
<1>2. ride \in Nat
  <2>1. CASE \E r \in range : r >= MinRange
    <3>1. PICK r \in range : r >= MinRange
      BY <2>1
    <3>2. range \union {MaxRange} = {r, MaxRange} /\ r \in Int /\ r >= MinRange
      BY <3>1
    <3>3. ride = IF r <= MaxRange THEN r ELSE MaxRange
      BY <2>1, <3>2, SameExtremes, LesserOfTwo, LibraryConstants
    <3> QED
      BY <3>2, <3>3, LibraryConstants
  <2>2. CASE ~\E r \in range : r >= MinRange
    BY <2>2, LibraryConstants
  <2> QED
    BY <2>1, <2>2
<1>3. left \in 0 .. 100
  <2>1. CASE \E r \in reserve : r >= 0
    <3>1. PICK r \in reserve : r >= 0
      BY <2>1
    <3>2. reserve \union {MaxReserve} = {r, MaxReserve} /\ r \in Int /\ r >= 0
      BY <3>1
    <3>3. left = IF r <= MaxReserve THEN r ELSE MaxReserve
      BY <2>1, <3>2, SameExtremes, LesserOfTwo, LibraryConstants
    <3> QED
      BY <3>2, <3>3, LibraryConstants
  <2>2. CASE ~\E r \in reserve : r >= 0
    BY <2>2, LibraryConstants
  <2> QED
    BY <2>1, <2>2
<1> QED
  BY <1>1, <1>2, <1>3 DEF Tank

LEMMA UsableWithin ==
    ASSUME NEW settings \in Tank
    PROVE  Backend!UsableKm(settings) \in Nat /\ Backend!UsableKm(settings) <= settings.range
<1> DEFINE range == settings.range
           part == 100 - settings.reserve
<1>1. range \in Nat /\ part \in 0 .. 100
  BY DEF Tank
<1> HIDE DEF range, part
<1>2. range * part \in Nat /\ range * part <= range * 100
  BY <1>1
<1> DEFINE whole == range * part
<1> HIDE DEF whole
<1>3. whole \in Nat /\ whole <= range * 100
  BY <1>2 DEF whole
<1>4. whole \div 100 \in Nat /\ whole \div 100 <= range
  BY <1>1, <1>3
<1> QED
  BY <1>4 DEF Backend!UsableKm, whole, range, part

Ordered(total, stops) ==
    \A i, j \in DOMAIN stops : stops[i].km <= total /\ (i <= j => stops[i].km <= stops[j].km)

LEMMA StopsInOrder ==
    ASSUME NEW total \in Nat, NEW stops \in Seq([km : Nat]), Ordered(total, stops)
    PROVE  /\ \A i \in 0 .. Len(stops) + 1 : Backend!KmOf(total, stops, i) \in 0 .. total
           /\ \A i, j \in 0 .. Len(stops) + 1 :
                  i <= j => Backend!KmOf(total, stops, i) <= Backend!KmOf(total, stops, j)
           /\ \A i \in 1 .. Len(stops) : Backend!KmOf(total, stops, i) = stops[i].km
           /\ Backend!KmOf(total, stops, 0) = 0 /\ Backend!KmOf(total, stops, Len(stops) + 1) = total
<1> DEFINE n == Len(stops)
<1>1. n \in Nat /\ DOMAIN stops = 1 .. n
  BY LenProperties
<1>2. \A i \in 1 .. n : stops[i].km \in Nat /\ stops[i].km <= total
  <2>1. \A i \in 1 .. n : stops[i] \in [km : Nat]
    BY <1>1, ElementOfSeq
  <2> QED
    BY <1>1, <2>1 DEF Ordered
<1> HIDE DEF n
<1>3. \A i \in 0 .. n + 1 : Backend!KmOf(total, stops, i) = IF i = 0 THEN 0 ELSE IF i = n + 1 THEN total ELSE stops[i].km
  <2>1. \A i \in 0 .. n + 1 : i # 0 /\ i # n + 1 <=> i \in 1 .. n
    BY <1>1
  <2>2. \A i \in 0 .. n + 1 : i = n + 1 => i \notin 1 .. n /\ i # 0
    BY <1>1
  <2> QED
    BY <1>1, <2>1, <2>2 DEF Backend!KmOf
<1>4. \A i \in 0 .. n + 1 : Backend!KmOf(total, stops, i) \in 0 .. total
  BY <1>1, <1>2, <1>3
<1>5. ASSUME NEW i \in 0 .. n + 1, NEW j \in 0 .. n + 1, i <= j
      PROVE  Backend!KmOf(total, stops, i) <= Backend!KmOf(total, stops, j)
  <2>1. CASE i = 0
    BY <1>3, <1>4, <2>1
  <2>2. CASE j = n + 1
    BY <1>3, <1>4, <2>2
  <2>3. CASE i # 0 /\ j # n + 1
    <3>1. i \in 1 .. n /\ j \in 1 .. n
      BY <1>1, <1>5, <2>3
    <3>2. stops[i].km <= stops[j].km
      BY <1>1, <1>5, <3>1 DEF Ordered
    <3> QED
      BY <1>1, <1>3, <3>1, <3>2
  <2> QED
    BY <2>1, <2>2, <2>3
<1>6. \A i \in 1 .. n : Backend!KmOf(total, stops, i) = stops[i].km
  BY <1>1, <1>3
<1>7. Backend!KmOf(total, stops, 0) = 0 /\ Backend!KmOf(total, stops, n + 1) = total
  BY <1>1, <1>3
<1> QED
  BY <1>4, <1>5, <1>6, <1>7 DEF n

LEMMA SinceTheLeg ==
    ASSUME NEW total \in Nat, NEW stops \in Seq([km : Nat]), Ordered(total, stops),
           NEW i \in 1 .. Len(stops) + 1, NEW km \in Int,
           Backend!KmOf(total, stops, i - 1) < km, km <= Backend!KmOf(total, stops, i)
    PROVE  Backend!SinceLastStop(stops, km) = km - Backend!KmOf(total, stops, i - 1)
<1> DEFINE n == Len(stops)
           At(j) == Backend!KmOf(total, stops, j)
           passed == {j \in DOMAIN stops : stops[j].km < km}
           S == {0} \union {stops[j].km : j \in passed}
           last == At(i - 1)
<1>1. n \in Nat /\ DOMAIN stops = 1 .. n /\ i - 1 \in 0 .. n + 1 /\ i \in 0 .. n + 1 /\ i \in 1 .. n + 1
  BY LenProperties
<1>2. /\ \A j \in 0 .. n + 1 : At(j) \in 0 .. total
      /\ \A j, k \in 0 .. n + 1 : j <= k => At(j) <= At(k)
      /\ \A j \in 1 .. n : At(j) = stops[j].km
      /\ At(0) = 0
  BY StopsInOrder
<1> HIDE DEF At, n
<1>3. last \in Nat /\ last < km
  <2>1. last < km
    BY DEF At
  <2> QED
    BY <1>1, <1>2, <2>1
<1>4. last \in S
  <2>1. CASE i = 1
    BY <1>2, <2>1
  <2>2. CASE i # 1
    <3>1. i - 1 \in 1 .. n
      BY <1>1, <2>2
    <3>2. last = stops[i - 1].km
      BY <1>2, <3>1
    <3> QED
      BY <1>1, <1>3, <3>1, <3>2
  <2> QED
    BY <2>1, <2>2
<1>5. ASSUME NEW j \in passed PROVE stops[j].km \in Nat /\ stops[j].km <= last
  <2>1. j \in 1 .. n /\ j \in 0 .. n + 1 /\ stops[j].km < km /\ stops[j].km = At(j) /\ At(j) \in Nat
    BY <1>1, <1>2, SMTT(30)
  <2>2. CASE j <= i - 1
    <3>1. At(j) <= last
      BY <1>1, <1>2, <2>1, <2>2
    <3> QED
      BY <2>1, <3>1
  <2>3. CASE ~(j <= i - 1)
    <3>1. i <= j
      BY <1>1, <2>1, <2>3
    <3>2. At(i) <= At(j) /\ At(i) \in Int
      BY <1>1, <1>2, <2>1, <3>1
    <3>3. km <= At(i)
      BY DEF At
    <3> QED
      BY <2>1, <3>2, <3>3
  <2> QED
    BY <2>2, <2>3
<1>6. \A k \in S : k \in Nat /\ k <= last
  BY <1>3, <1>5
<1>7. Backend!Max(S) = last
  <2> HIDE DEF S, last
  <2>1. \A m \in S : (\A k \in S : m >= k) => m = last
    BY <1>3, <1>4, <1>6
  <2>2. last \in S /\ \A k \in S : last >= k
    BY <1>3, <1>4, <1>6
  <2> QED
    BY <2>1, <2>2 DEF Backend!Max
<1>8. Backend!SinceLastStop(stops, km) = km - Backend!Max(S)
  BY DEF Backend!SinceLastStop
<1> QED
  BY <1>7, <1>8 DEF At

Legs == [from : Int, to : Int, status : {"dry", "reserve"}, at : Int]

LEMMA LegType ==
    ASSUME NEW total \in Nat, NEW stops \in Seq([km : Nat]), Ordered(total, stops),
           NEW settings \in Tank, NEW i \in 1 .. Len(stops) + 1
    PROVE  Backend!Leg(total, stops, settings, i) \in Legs
<1> DEFINE from == Backend!KmOf(total, stops, i - 1)
           to == Backend!KmOf(total, stops, i)
<1>1. from \in Int /\ to \in Int
  <2>1. i - 1 \in 0 .. Len(stops) + 1 /\ i \in 0 .. Len(stops) + 1
    BY LenProperties
  <2>2. \A j \in 0 .. Len(stops) + 1 : Backend!KmOf(total, stops, j) \in 0 .. total
    BY StopsInOrder
  <2> QED
    BY <2>1, <2>2
<1>2. settings.range \in Int /\ Backend!UsableKm(settings) \in Int
  BY UsableWithin DEF Tank
<1> DEFINE status == IF to - from > settings.range THEN "dry" ELSE "reserve"
           at == from + IF to - from > settings.range THEN settings.range ELSE Backend!UsableKm(settings)
<1>3. Backend!Leg(total, stops, settings, i) = [from |-> from, to |-> to, status |-> status, at |-> at]
  BY DEF Backend!Leg
<1>4. at \in Int /\ status \in {"dry", "reserve"}
  <2>1. status \in {"dry", "reserve"}
    <3>2. status = "dry" \/ status = "reserve"
      <4> HIDE DEF from, to
      <4> QED
        OBVIOUS
    <3> QED
      BY <3>2
  <2> DEFINE way == IF to - from > settings.range THEN settings.range ELSE Backend!UsableKm(settings)
  <2>2. way \in Int
    BY <1>2
  <2>3. at = from + way
    OBVIOUS
  <2> HIDE DEF from, to, way, at
  <2>4. from + way \in Int
    BY <1>1, <2>2
  <2> QED
    BY <2>1, <2>3, <2>4
<1> HIDE DEF from, to, status, at
<1> QED
  BY <1>1, <1>3, <1>4 DEF Legs

\* Exactly the legs up to leg i that are longer than what is meant to be used.
WarnsOf(legs, total, stops, settings, i) ==
    LET Over(j) == LET leg == Backend!Leg(total, stops, settings, j)
                   IN leg.to - leg.from > Backend!UsableKm(settings)
    IN /\ \A j \in 1 .. i : Over(j) => \E k \in DOMAIN legs : legs[k] = Backend!Leg(total, stops, settings, j)
       /\ \A k \in DOMAIN legs : \E j \in 1 .. i : Over(j) /\ legs[k] = Backend!Leg(total, stops, settings, j)

LEMMA Planned ==
    ASSUME NEW total \in Nat, NEW stops \in Seq([km : Nat]), Ordered(total, stops), NEW input,
           Backend!NormalizeFuelRange(input.range, input.reserve) \in Tank
    PROVE  WarnsOf(Backend!PlanFuelRange(total, stops, input), total, stops,
                   Backend!NormalizeFuelRange(input.range, input.reserve), Len(stops) + 1)
<1> DEFINE settings == Backend!NormalizeFuelRange(input.range, input.reserve)
           n == Len(stops) + 1
           leg(i) == Backend!Leg(total, stops, settings, i)
           usable == Backend!UsableKm(settings)
           Fits(i) == leg(i).to - leg(i).from <= usable
           V == Seq(Legs)
           step == [s \in (0 .. n) \X V |->
                       IF s[1] = 0 THEN <<>> ELSE IF Fits(s[1]) THEN s[2] ELSE Append(s[2], leg(s[1]))]
           Fixed(f) == f = [i \in 0 .. n |-> IF i = 0 THEN <<>>
                                             ELSE IF Fits(i) THEN f[i - 1] ELSE Append(f[i - 1], leg(i))]
           warned == CHOOSE f : Fixed(f)
           good == {i \in 0 .. n : warned[i] \in V /\ WarnsOf(warned[i], total, stops, settings, i)}
<1>1. n \in Nat /\ 0 \in Nat /\ 0 <= n /\ 0 \in 0 .. n /\ n \in 0 .. n /\ <<>> \in V /\ n = Len(stops) + 1
      /\ settings \in Tank
  BY LenProperties
<1>2. \A i \in 1 .. n : leg(i) \in Legs
  BY LegType
<1>3. usable \in Int /\ \A i \in 1 .. n : leg(i).from \in Int /\ leg(i).to \in Int
  <2>1. usable \in Int
    BY UsableWithin
  <2>2. ASSUME NEW i \in 1 .. n PROVE leg(i).from \in Int /\ leg(i).to \in Int
    <3> DEFINE l == leg(i)
    <3>1. l \in Legs
      BY <1>2
    <3> HIDE DEF l
    <3>2. l.from \in Int /\ l.to \in Int
      BY <3>1 DEF Legs
    <3> QED
      BY <3>2 DEF l
  <2> HIDE DEF leg, usable
  <2> QED
    BY <2>1, <2>2
<1>p. Backend!PlanFuelRange(total, stops, input) = warned[n]
  BY DEF Backend!PlanFuelRange, warned
<1>w. \A legs, i : WarnsOf(legs, total, stops, settings, i) <=>
          /\ \A j \in 1 .. i : leg(j).to - leg(j).from > usable => \E k \in DOMAIN legs : legs[k] = leg(j)
          /\ \A k \in DOMAIN legs : \E j \in 1 .. i : leg(j).to - leg(j).from > usable /\ legs[k] = leg(j)
  BY DEF WarnsOf
<1> HIDE DEF leg, usable, settings
<1>4. \E f : Fixed(f)
  <2>1. step \in [(0 .. n) \X V -> V]
    <3>1. ASSUME NEW i \in 0 .. n, NEW v \in V, i # 0
          PROVE  Append(v, leg(i)) \in V
      <4>1. i \in 1 .. n
        BY <1>1, <3>1
      <4> QED
        BY <1>2, <4>1, AppendProperties
    <3> HIDE DEF Fits
    <3> QED
      BY <1>1, <3>1
  <2>2. PICK f \in [0 .. n -> V] : Recurses(f, 0, n, <<>>, step)
    <3> HIDE DEF step, V, n
    <3> QED
      BY <1>1, <2>1, Recursion
  <2> HIDE DEF Fits
  <2>3. ASSUME NEW i \in 0 .. n
        PROVE  f[i] = IF i = 0 THEN <<>> ELSE IF Fits(i) THEN f[i - 1] ELSE Append(f[i - 1], leg(i))
    <3>1. i # 0 => i - 1 \in 0 .. n
      BY <1>1
    <3>2. i # 0 => <<i, f[i - 1]>> \in (0 .. n) \X V
      <4> HIDE DEF V, n
      <4> QED
        BY <2>2, <3>1
    <3> QED
      BY <2>2, <3>1, <3>2 DEF Recurses
  <2>4. Fixed(f)
    BY <2>3
  <2> HIDE DEF Fixed
  <2> QED
    BY <2>4
<1>5. Fixed(warned)
  BY <1>4
<1> HIDE DEF warned, n
<1>6. 0 \in good
  <2>1. warned[0] = <<>> /\ DOMAIN <<>> = {} /\ 1 .. 0 = {}
    BY <1>1, <1>5
  <2>2. WarnsOf(<<>>, total, stops, settings, 0)
    BY <1>w, <2>1
  <2> QED
    BY <1>1, <2>1, <2>2
<1>7. ASSUME NEW i \in 0 .. n, i # 0, i - 1 \in good
      PROVE  i \in good
  <2> DEFINE old == warned[i - 1]
  <2>1. i \in 1 .. n /\ i \in 1 .. i /\ \A j \in 1 .. i : j = i \/ j \in 1 .. i - 1
    BY <1>1, <1>7
  <2>2. old \in V /\ WarnsOf(old, total, stops, settings, i - 1)
    BY <1>7
  <2>3. /\ \A j \in 1 .. i - 1 : leg(j).to - leg(j).from > usable => \E k \in DOMAIN old : old[k] = leg(j)
        /\ \A k \in DOMAIN old : \E j \in 1 .. i - 1 : leg(j).to - leg(j).from > usable /\ old[k] = leg(j)
    <3> HIDE DEF old
    <3> QED
      BY <1>w, <2>2
  <2>4. \A j \in 1 .. i - 1 : j \in 1 .. i
    BY <2>1
  <2>5. leg(i).from \in Int /\ leg(i).to \in Int /\ leg(i) \in Legs /\ usable \in Int
    BY <1>2, <1>3, <2>1
  <2>6. CASE leg(i).to - leg(i).from <= usable
    <3>1. warned[i] = old
      BY <1>5, <1>7, <2>6
    <3>2. ~(leg(i).to - leg(i).from > usable)
      BY <2>5, <2>6
    <3> HIDE DEF old
    <3>3. WarnsOf(old, total, stops, settings, i)
      BY <1>w, <2>1, <2>3, <2>4, <3>2
    <3> QED
      BY <2>2, <3>1, <3>3
  <2>7. CASE ~(leg(i).to - leg(i).from <= usable)
    <3> DEFINE new == Append(old, leg(i))
               m == Len(old)
    <3>1. warned[i] = new
      BY <1>5, <1>7, <2>7
    <3>2. leg(i).to - leg(i).from > usable
      BY <2>5, <2>7
    <3>3. m \in Nat /\ DOMAIN old = 1 .. m /\ m = Len(old)
      BY <2>2, LenProperties
    <3> HIDE DEF old
    <3>4. /\ new \in V /\ DOMAIN new = 1 .. m + 1 /\ new[m + 1] = leg(i)
          /\ \A k \in 1 .. m : new[k] = old[k]
      BY <2>2, <2>5, AppendProperties, LenProperties
    <3> HIDE DEF new, m
    <3>5. m + 1 \in 1 .. m + 1 /\ \A k \in 1 .. m : k \in 1 .. m + 1
      BY <3>3
    <3>6. \A k \in 1 .. m + 1 : k = m + 1 \/ k \in 1 .. m
      BY <3>3
    <3>7. ASSUME NEW j \in 1 .. i, leg(j).to - leg(j).from > usable
          PROVE  \E k \in DOMAIN new : new[k] = leg(j)
      <4>1. CASE j = i
        BY <3>4, <3>5, <4>1
      <4>2. CASE j \in 1 .. i - 1
        <5>1. PICK k \in DOMAIN old : old[k] = leg(j)
          BY <2>3, <3>7, <4>2
        <5> QED
          BY <3>3, <3>4, <3>5, <5>1
      <4> QED
        BY <2>1, <4>1, <4>2
    <3>8. ASSUME NEW k \in DOMAIN new
          PROVE  \E j \in 1 .. i : leg(j).to - leg(j).from > usable /\ new[k] = leg(j)
      <4>1. CASE k = m + 1
        BY <2>1, <3>2, <3>4, <4>1
      <4>2. CASE k \in 1 .. m
        <5>1. PICK j \in 1 .. i - 1 : leg(j).to - leg(j).from > usable /\ old[k] = leg(j)
          BY <2>3, <3>3, <4>2
        <5> QED
          BY <2>4, <3>4, <4>2, <5>1
      <4> QED
        BY <3>4, <3>6, <4>1, <4>2
    <3>9. WarnsOf(new, total, stops, settings, i)
      BY <1>w, <3>7, <3>8
    <3> QED
      BY <3>1, <3>4, <3>9
  <2> QED
    BY <2>6, <2>7
<1>8. n \in good
  <2> HIDE DEF good
  <2> QED
    BY <1>1, <1>6, <1>7, Induction
<1>9. WarnsOf(warned[n], total, stops, settings, n)
  BY <1>8
<1> QED
  BY <1>p, <1>9 DEF settings, n

LEMMA Ranged ==
    ASSUME NEW q, FuelQuestion(q)
    PROVE  LET warnings == Backend!PlanFuelRange(q.total, q.stops, q.input)
               Since(km) == Backend!SinceLastStop(q.stops, km)
               Tells(km, status) == \E k \in DOMAIN warnings :
                   /\ warnings[k].from < km /\ km <= warnings[k].to
                   /\ status \in {"any", warnings[k].status}
               settings == Backend!NormalizeFuelRange(q.input.range, q.input.reserve)
               usable == Backend!UsableKm(settings)
           IN /\ \A km \in 1 .. q.total : /\ Since(km) > usable => Tells(km, "any")
                                          /\ Since(km) > settings.range => Tells(km, "dry")
              /\ \A k \in DOMAIN warnings :
                     /\ Since(warnings[k].to) > usable
                     /\ warnings[k].status = "dry" => Since(warnings[k].to) > settings.range
<1> DEFINE total == q.total
           stops == q.stops
           warnings == Backend!PlanFuelRange(q.total, q.stops, q.input)
           Since(km) == Backend!SinceLastStop(stops, km)
           settings == Backend!NormalizeFuelRange(q.input.range, q.input.reserve)
           usable == Backend!UsableKm(settings)
           n == Len(stops) + 1
           At(i) == Backend!KmOf(total, stops, i)
           leg(i) == Backend!Leg(total, stops, settings, i)
<1>1. total \in Nat /\ stops \in Seq([km : Nat]) /\ Ordered(total, stops)
  BY DEF FuelQuestion, Ordered
<1>2. settings \in Tank
  <2>1. q.input.range \in SUBSET Int /\ (\A r \in q.input.range : q.input.range = {r})
        /\ q.input.reserve \in SUBSET Int /\ (\A r \in q.input.reserve : q.input.reserve = {r})
    BY DEF FuelQuestion
  <2> DEFINE range == q.input.range
             reserve == q.input.reserve
  <2>2. range \in SUBSET Int /\ (\A r \in range : range = {r}) /\ reserve \in SUBSET Int /\ (\A r \in reserve : reserve = {r})
    BY <2>1
  <2> HIDE DEF range, reserve
  <2>3. Backend!NormalizeFuelRange(range, reserve) \in Tank
    BY <2>2, TankSettings
  <2> QED
    BY <2>3 DEF range, reserve
<1>3. n \in Nat /\ n \in 0 .. n /\ n # 0 /\ n \in 1 .. n /\ n = Len(stops) + 1
  <2> HIDE DEF stops
  <2> QED
    BY <1>1, LenProperties
<1> HIDE DEF total, stops, settings
<1>4. usable \in Nat /\ usable <= settings.range /\ settings.range \in Nat
  BY <1>2, UsableWithin DEF Tank
<1>5. /\ \A i \in 0 .. n : At(i) \in 0 .. total
      /\ \A i, j \in 0 .. n : i <= j => At(i) <= At(j)
      /\ At(0) = 0 /\ At(n) = total
  BY <1>1, StopsInOrder
<1>6. \A i : /\ leg(i).from = At(i - 1) /\ leg(i).to = At(i)
             /\ leg(i).status = IF At(i) - At(i - 1) > settings.range THEN "dry" ELSE "reserve"
  BY DEF Backend!Leg
<1>7. ASSUME NEW i \in 1 .. n, NEW km \in Int, At(i - 1) < km, km <= At(i)
      PROVE  Since(km) = km - At(i - 1)
  BY <1>1, <1>7, SinceTheLeg
<1>8. WarnsOf(warnings, total, stops, settings, n)
  <2>1. WarnsOf(Backend!PlanFuelRange(total, stops, q.input), total, stops,
                Backend!NormalizeFuelRange(q.input.range, q.input.reserve), Len(stops) + 1)
    BY <1>1, <1>2, Planned DEF settings
  <2> QED
    BY <2>1 DEF settings, total, stops
<1>9. /\ \A j \in 1 .. n : leg(j).to - leg(j).from > usable => \E k \in DOMAIN warnings : warnings[k] = leg(j)
      /\ \A k \in DOMAIN warnings : \E j \in 1 .. n : leg(j).to - leg(j).from > usable /\ warnings[k] = leg(j)
  <2> HIDE DEF n, warnings
  <2> QED
    BY <1>8 DEF WarnsOf
<1> HIDE DEF At, leg, usable, Since, warnings, n
<1>10. \A j \in 1 .. n : j \in 0 .. n /\ j - 1 \in 0 .. n /\ At(j - 1) \in Nat /\ At(j) \in Nat
  <2>1. \A j \in 1 .. n : j \in 0 .. n /\ j - 1 \in 0 .. n
    BY <1>3
  <2> QED
    BY <1>1, <1>5, <2>1
<1>11. ASSUME NEW km \in 1 .. total
       PROVE  \E j \in 1 .. n : At(j - 1) < km /\ km <= At(j)
  <2> DEFINE beyond == {i \in 0 .. n : km <= At(i)}
  <2>1. beyond \subseteq Nat /\ beyond # {}
    <3>1. km <= At(n)
      BY <1>1, <1>5
    <3> QED
      BY <1>3, <3>1
  <2>2. PICK j \in beyond : \A k \in beyond : j <= k
    <3> HIDE DEF beyond
    <3> QED
      BY <2>1, Least
  <2>3. j # 0
    BY <1>1, <1>5, <2>2
  <2>4. j \in 1 .. n /\ j - 1 \in 0 .. n /\ ~(j <= j - 1)
    BY <1>3, <2>2, <2>3
  <2>5. ~(km <= At(j - 1))
    BY <2>2, <2>4
  <2>6. At(j - 1) \in Int /\ km \in Int
    BY <1>1, <1>10, <2>4
  <2> QED
    BY <2>2, <2>4, <2>5, <2>6
<1>12. ASSUME NEW km \in 1 .. total, NEW least \in Nat, usable <= least, Since(km) > least
       PROVE  \E k \in DOMAIN warnings :
                 /\ warnings[k].from < km /\ km <= warnings[k].to
                 /\ least = settings.range => warnings[k].status = "dry"
  <2>1. PICK j \in 1 .. n : At(j - 1) < km /\ km <= At(j)
    BY <1>11
  <2>2. Since(km) = km - At(j - 1) /\ km \in Int /\ At(j - 1) \in Nat /\ At(j) \in Nat
    BY <1>1, <1>7, <1>10, <2>1
  <2>3. At(j) - At(j - 1) > least /\ At(j) - At(j - 1) > usable
    BY <1>4, <1>12, <2>1, <2>2
  <2>4. leg(j).to - leg(j).from > usable
    BY <1>6, <2>3
  <2>5. PICK k \in DOMAIN warnings : warnings[k] = leg(j)
    BY <1>9, <2>4
  <2> QED
    BY <1>6, <2>1, <2>3, <2>5
<1>13. ASSUME NEW k \in DOMAIN warnings
       PROVE  /\ Since(warnings[k].to) > usable
              /\ warnings[k].status = "dry" => Since(warnings[k].to) > settings.range
  <2>1. PICK j \in 1 .. n : leg(j).to - leg(j).from > usable /\ warnings[k] = leg(j)
    BY <1>9
  <2>2. At(j - 1) \in Nat /\ At(j) \in Nat /\ At(j) - At(j - 1) > usable
    BY <1>6, <1>10, <2>1
  <2>3. At(j - 1) < At(j) /\ At(j) <= At(j) /\ At(j) \in Int
    BY <1>4, <2>2
  <2>4. Since(At(j)) = At(j) - At(j - 1)
    BY <1>7, <2>3
  <2>5. warnings[k].to = At(j) /\ warnings[k].status = IF At(j) - At(j - 1) > settings.range THEN "dry" ELSE "reserve"
    BY <1>6, <2>1
  <2> QED
    BY <2>2, <2>4, <2>5
<1>14. ASSUME NEW km \in 1 .. total
       PROVE  /\ Since(km) > usable => \E k \in DOMAIN warnings : warnings[k].from < km /\ km <= warnings[k].to
              /\ Since(km) > settings.range =>
                    \E k \in DOMAIN warnings : /\ warnings[k].from < km /\ km <= warnings[k].to
                                               /\ warnings[k].status = "dry"
  <2>1. usable <= usable
    BY <1>4
  <2> QED
    BY <1>4, <1>12, <2>1
<1> QED
  BY <1>13, <1>14 DEF total, stops, Since, settings, usable, warnings

-----------------------------------------------------------------------------
(* The access along a track (accessReport of access.ts): up to each span the      *)
(* stretches are apart and hold the steps that were warned of until then, and     *)
(* every class has the length that was counted for it.                          *)
LEMMA PartOf ==
    ASSUME NEW u \in Nat \ {0}, NEW d \in Nat, NEW r \in Nat, NEW s \in Nat, r <= s, s < u
    PROVE  (d * r) \div u \in Nat /\ (d * r) \div u <= (d * s) \div u /\ (d * r) \div u <= d
<1>1. d * r \in Nat /\ d * s \in Nat /\ d * u \in Nat
  OBVIOUS
<1>2. d * r <= d * s
  OBVIOUS
<1>3. d * r <= d * u
  OBVIOUS
<1> DEFINE a == d * r
           b == d * s
<1>4. a \in Nat /\ b \in Nat /\ a <= b /\ a <= d * u
  BY <1>1, <1>2, <1>3
<1> HIDE DEF a, b
<1>5. a \div u <= b \div u
  BY <1>4, DivLe
<1>6. a \div u \in Nat /\ a \div u <= d
  BY <1>4
<1> QED
  BY <1>5, <1>6 DEF a, b

LEMMA Position ==
    ASSUME NEW p \in Nat
    PROVE  Backend!Index(p) \in Nat /\ p % Unit \in Nat /\ p % Unit < Unit
BY LibraryConstants DEF Backend!Index

LEMMA PositionsGrow ==
    ASSUME NEW p \in Nat, NEW q \in Nat, p <= q
    PROVE  /\ Backend!Index(p) <= Backend!Index(q)
           /\ Backend!Index(p) = Backend!Index(q) => p % Unit <= q % Unit
<1>1. p \div Unit <= q \div Unit
  BY DivLe, LibraryConstants
<1>2. p = Unit * (p \div Unit) + (p % Unit) /\ q = Unit * (q \div Unit) + (q % Unit)
  BY LibraryConstants
<1>3. p \div Unit \in Nat /\ q \div Unit \in Nat /\ p % Unit \in Nat /\ q % Unit \in Nat
  BY LibraryConstants
<1>4. ASSUME p \div Unit = q \div Unit PROVE p % Unit <= q % Unit
  BY <1>2, <1>3, <1>4, LibraryConstants
<1> QED
  BY <1>1, <1>4 DEF Backend!Index

LEMMA AlongTheWay ==
    ASSUME NEW way \in Seq(Nat), way # <<>>, \A i, j \in DOMAIN way : i <= j => way[i] <= way[j],
           NEW p \in Nat
    PROVE  LET n == Len(way)
               i == Backend!Index(p)
           IN /\ i + 1 >= n => Backend!KmAt(way, p) = way[n] /\ way[n] \in Nat
              /\ i + 1 < n => /\ way[i + 1] \in Nat /\ way[i + 2] \in Nat /\ way[i + 1] <= way[i + 2]
                              /\ Backend!KmAt(way, p) = way[i + 1] + ((way[i + 2] - way[i + 1]) * (p % Unit)) \div Unit
                              /\ way[i + 1] <= Backend!KmAt(way, p) /\ Backend!KmAt(way, p) <= way[i + 2]
              /\ Backend!KmAt(way, p) \in Nat
<1> DEFINE n == Len(way)
           i == Backend!Index(p)
           r == p % Unit
<1>1. n \in Nat \ {0} /\ DOMAIN way = 1 .. n /\ \A k \in 1 .. n : way[k] \in Nat
  BY LenProperties, ElementOfSeq
<1>2. i \in Nat /\ r \in Nat /\ r < Unit /\ Unit \in Nat \ {0}
  BY Position, LibraryConstants
<1>k. Backend!KmAt(way, p) = IF i + 1 >= n THEN way[Backend!Min({n, i + 1})]
                             ELSE way[Backend!Min({n, i + 1})]
                                  + ((way[i + 2] - way[Backend!Min({n, i + 1})]) * r) \div Unit
  BY DEF Backend!KmAt
<1> HIDE DEF n, i, r
<1>3. Backend!Min({n, i + 1}) = IF n <= i + 1 THEN n ELSE i + 1
  BY <1>1, <1>2, SameExtremes, LesserOfTwo
<1>4. CASE i + 1 >= n
  <2>1. Backend!KmAt(way, p) = way[n] /\ way[n] \in Nat /\ ~(i + 1 < n)
    BY <1>1, <1>2, <1>k, <1>3, <1>4
  <2> QED
    BY <2>1, <1>4 DEF n, i
<1>5. CASE i + 1 < n
  <2> DEFINE base == way[i + 1]
             d == way[i + 2] - base
  <2>1. i + 1 \in 1 .. n /\ i + 2 \in 1 .. n /\ i + 1 <= i + 2 /\ ~(i + 1 >= n) /\ ~(n <= i + 1)
    BY <1>1, <1>2, <1>5
  <2>2. base \in Nat /\ way[i + 2] \in Nat /\ base <= way[i + 2] /\ d \in Nat
    BY <1>1, <2>1
  <2>3. Backend!KmAt(way, p) = base + (d * r) \div Unit
    BY <1>k, <1>3, <2>1
  <2>e. way[i + 2] = base + d
    BY <2>2
  <2> HIDE DEF base, d
  <2>4. (d * r) \div Unit \in Nat /\ (d * r) \div Unit <= d
    <3>1. r <= r
      BY <1>2
    <3> QED
      BY <1>2, <2>2, <3>1, PartOf
  <2> DEFINE part == (d * r) \div Unit
  <2> HIDE DEF part
  <2>5. part \in Nat /\ part <= d /\ Backend!KmAt(way, p) = base + part
    BY <2>3, <2>4 DEF part
  <2>6. Backend!KmAt(way, p) \in Nat /\ base <= Backend!KmAt(way, p) /\ Backend!KmAt(way, p) <= way[i + 2]
    BY <2>2, <2>5, <2>e
  <2> QED
    BY <1>5, <2>1, <2>2, <2>3, <2>6 DEF n, i, r, base, d
<1> QED
  BY <1>1, <1>2, <1>4, <1>5

LEMMA WayGrows ==
    ASSUME NEW way \in Seq(Nat), way # <<>>, \A i, j \in DOMAIN way : i <= j => way[i] <= way[j],
           NEW p \in Nat, NEW q \in Nat, p <= q
    PROVE  Backend!KmAt(way, p) <= Backend!KmAt(way, q)
<1> DEFINE n == Len(way)
           i == Backend!Index(p)
           j == Backend!Index(q)
           KmP == Backend!KmAt(way, p)
           KmQ == Backend!KmAt(way, q)
<1>1. n \in Nat \ {0} /\ DOMAIN way = 1 .. n /\ \A k \in 1 .. n : way[k] \in Nat
  BY LenProperties, ElementOfSeq
<1>2. i \in Nat /\ j \in Nat /\ i <= j /\ (i = j => p % Unit <= q % Unit)
      /\ p % Unit \in Nat /\ q % Unit \in Nat /\ q % Unit < Unit /\ Unit \in Nat \ {0}
  BY Position, PositionsGrow, LibraryConstants
<1>3. KmP \in Nat /\ KmQ \in Nat
      /\ (i + 1 >= n => KmP = way[n])
      /\ (i + 1 < n => /\ way[i + 1] \in Nat /\ way[i + 2] \in Nat /\ way[i + 1] <= way[i + 2]
                       /\ KmP = way[i + 1] + ((way[i + 2] - way[i + 1]) * (p % Unit)) \div Unit
                       /\ KmP <= way[i + 2])
  BY AlongTheWay
<1>4. /\ (j + 1 >= n => KmQ = way[n])
      /\ (j + 1 < n => /\ KmQ = way[j + 1] + ((way[j + 2] - way[j + 1]) * (q % Unit)) \div Unit
                       /\ way[j + 1] <= KmQ)
  BY AlongTheWay
<1> HIDE DEF n, i, j, KmP, KmQ
<1>5. CASE i + 1 >= n
  <2>1. j + 1 >= n
    BY <1>1, <1>2, <1>5
  <2> QED
    BY <1>1, <1>3, <1>4, <1>5, <2>1 DEF KmP, KmQ
<1>6. CASE i + 1 < n /\ i = j
  <2> DEFINE d == way[i + 2] - way[i + 1]
             a == (d * (p % Unit)) \div Unit
             b == (d * (q % Unit)) \div Unit
  <2>1. d \in Nat
    BY <1>3, <1>6
  <2>2. KmP = way[i + 1] + a /\ KmQ = way[i + 1] + b /\ way[i + 1] \in Nat
    BY <1>3, <1>4, <1>6
  <2> HIDE DEF d
  <2>3. a \in Nat /\ a <= b
    BY <1>2, <1>6, <2>1, PartOf
  <2>4. b \in Nat
    <3>1. q % Unit <= q % Unit
      BY <1>2
    <3> QED
      BY <1>2, <2>1, <3>1, PartOf
  <2> HIDE DEF a, b
  <2>5. KmP <= KmQ
    BY <2>2, <2>3, <2>4
  <2> QED
    BY <2>5 DEF KmP, KmQ
<1>7. CASE i + 1 < n /\ i < j
  <2> DEFINE m == IF j + 1 >= n THEN n ELSE j + 1
  <2>1. m \in 1 .. n /\ i + 2 \in 1 .. n /\ i + 2 <= m
    BY <1>1, <1>2, <1>7
  <2>2. way[m] <= KmQ
    BY <1>1, <1>2, <1>3, <1>4
  <2> HIDE DEF m
  <2>3. way[i + 2] <= way[m] /\ way[i + 2] \in Nat /\ way[m] \in Nat
    BY <1>1, <2>1
  <2>4. KmP <= KmQ
    BY <1>3, <1>7, <2>2, <2>3
  <2> QED
    BY <2>4 DEF KmP, KmQ
<1>8. (i + 1 >= n) \/ (i + 1 < n /\ (i = j \/ i < j))
  BY <1>1, <1>2
<1> QED
  BY <1>5, <1>6, <1>7, <1>8


LEMMA ClassOfRoad ==
    ASSUME NEW road
    PROVE  Backend!ClassifyAccess(road).id \in Backend!AccessClasses
<1>1. \A value : Backend!ClassifyValue(value) \in {"open", "closed", "private", "unknown", "restricted"}
  BY DEF Backend!ClassifyValue
<1> QED
  BY <1>1 DEF Backend!ClassifyAccess, Backend!AccessClasses

StretchOf(Tags) == [from : Int, to : Int, id : Backend!AccessClasses, tag : Tags]

ReportOf(Tags) == [stretches : Seq(StretchOf(Tags)), km : [Backend!AccessClasses -> Int], total : Int]

SumOf(km) == km["closed"] + km["private"] + km["restricted"] + km["path"] + km["open"] + km["untagged"] + km["unknown"]

StretchFits(stretches, r) ==
    /\ stretches[r].from < stretches[r].to
    /\ r > 1 => stretches[r - 1].to <= stretches[r].from /\ ~Backend!Joins(stretches[r - 1], stretches[r])

Reported(stretches, end, steps) ==
    /\ \A r \in DOMAIN stretches : StretchFits(stretches, r)
    /\ stretches # <<>> => stretches[Len(stretches)].to <= end
    /\ Backend!StretchSteps(stretches) = steps

LEMMA StepOf ==
    ASSUME NEW stretches, NEW x
    PROVE  x \in Backend!StretchSteps(stretches) <=>
               \E k \in DOMAIN stretches : x \in stretches[k].from .. stretches[k].to - 1
BY DEF Backend!StretchSteps

LEMMA CountedOnce ==
    ASSUME NEW km \in [Backend!AccessClasses -> Int], NEW id \in Backend!AccessClasses, NEW way \in Int
    PROVE  LET new == [km EXCEPT ![id] = @ + way]
           IN new \in [Backend!AccessClasses -> Int] /\ SumOf(new) = SumOf(km) + way
<1> DEFINE new == [km EXCEPT ![id] = @ + way]
<1>1. new \in [Backend!AccessClasses -> Int]
  OBVIOUS
<1>2. \A c \in Backend!AccessClasses : km[c] \in Int /\ new[c] = IF c = id THEN km[c] + way ELSE km[c]
  OBVIOUS
<1>3. Backend!AccessClasses = {"closed", "private", "restricted", "path", "open", "untagged", "unknown"}
  BY DEF Backend!AccessClasses
<1> HIDE DEF new
<1>4. SumOf(new) = SumOf(km) + way
  BY <1>2, <1>3 DEF SumOf
<1> QED
  BY <1>1, <1>4 DEF new

LEMMA StretchType ==
    ASSUME NEW Tags, NEW s \in StretchOf(Tags)
    PROVE  s.from \in Int /\ s.to \in Int /\ s.id \in Backend!AccessClasses /\ s.tag \in Tags
BY DEF StretchOf

LEMMA LongerStretch ==
    ASSUME NEW Tags, NEW s \in StretchOf(Tags), NEW i \in Int
    PROVE  LET new == [s EXCEPT !.to = i]
           IN new \in StretchOf(Tags) /\ new.to = i /\ new.from = s.from /\ new.id = s.id /\ new.tag = s.tag
BY DEF StretchOf

LEMMA StretchGoesOn ==
    ASSUME NEW Tags, NEW st \in Seq(StretchOf(Tags)), NEW end \in Int, NEW steps, Reported(st, end, steps),
           NEW span \in StretchOf(Tags), span.from < span.to, st # <<>>, Backend!Joins(st[Len(st)], span)
    PROVE  LET new == [st EXCEPT ![Len(st)].to = span.to]
           IN new \in Seq(StretchOf(Tags)) /\ Reported(new, span.to, steps \union (span.from .. span.to - 1))
<1> DEFINE last == Len(st)
           one == [st[last] EXCEPT !.to = span.to]
           new == [st EXCEPT ![last] = one]
<1>1. last \in Nat /\ last \in 1 .. last /\ DOMAIN st = 1 .. last /\ last = Len(st)
  BY LenProperties
<1>2. \A r \in 1 .. last : st[r] \in StretchOf(Tags) /\ st[r].from \in Int /\ st[r].to \in Int
  BY ElementOfSeq, StretchType
<1>3. span.from \in Int /\ span.to \in Int
  BY StretchType
<1>4. st[last].id = span.id /\ st[last].tag = span.tag /\ st[last].to = span.from
  BY DEF Backend!Joins
<1> HIDE DEF last
<1>5. /\ one \in StretchOf(Tags) /\ one.to = span.to /\ one.from = st[last].from
      /\ one.id = st[last].id /\ one.tag = st[last].tag
  BY <1>1, <1>2, <1>3, LongerStretch
<1>6. [st EXCEPT ![last].to = span.to] = new
  OBVIOUS
<1> HIDE DEF one
<1>7. /\ new \in Seq(StretchOf(Tags)) /\ Len(new) = last /\ DOMAIN new = 1 .. last
      /\ \A r \in 1 .. last : new[r] = IF r = last THEN one ELSE st[r]
  BY <1>1, <1>5, ExceptSeq, LenProperties
<1> HIDE DEF new
<1>8. /\ \A r \in 1 .. last : StretchFits(st, r)
      /\ Backend!StretchSteps(st) = steps
  BY <1>1 DEF Reported
<1>9. st[last].from < st[last].to
  BY <1>1, <1>8 DEF StretchFits
<1>10. ASSUME NEW r \in 1 .. last PROVE StretchFits(new, r)
  <2>1. new[r].from = st[r].from /\ new[r].id = st[r].id /\ new[r].tag = st[r].tag
        /\ (new[r].to = IF r = last THEN span.to ELSE st[r].to)
    BY <1>5, <1>7
  <2>2. r > 1 => r - 1 \in 1 .. last /\ new[r - 1] = st[r - 1]
    <3>1. r > 1 => r - 1 \in 1 .. last /\ r - 1 # last
      BY <1>1
    <3> QED
      BY <1>7, <3>1
  <2>3. StretchFits(st, r)
    BY <1>8
  <2>4. new[r].from < new[r].to
    <3>1. st[r].from < st[r].to
      BY <2>3 DEF StretchFits
    <3> QED
      BY <1>2, <1>3, <1>4, <1>9, <2>1, <3>1
  <2>5. r > 1 => new[r - 1].to <= new[r].from /\ ~Backend!Joins(new[r - 1], new[r])
    BY <2>1, <2>2, <2>3 DEF StretchFits, Backend!Joins
  <2> QED
    BY <2>4, <2>5 DEF StretchFits
<1>11. new[Len(new)].to <= span.to
  <2>1. new[Len(new)] = one
    BY <1>1, <1>7
  <2>2. span.to <= span.to
    BY <1>3, SMTT(30)
  <2> QED
    BY <1>5, <2>1, <2>2, SMTT(30)
<1>12. ASSUME NEW x
       PROVE  x \in Backend!StretchSteps(new) <=> x \in Backend!StretchSteps(st) \/ x \in span.from .. span.to - 1
  <2>1. x \in one.from .. one.to - 1 <=> x \in st[last].from .. st[last].to - 1 \/ x \in span.from .. span.to - 1
    BY <1>1, <1>2, <1>3, <1>4, <1>5, <1>9
  <2>2. x \in Backend!StretchSteps(new) <=> \E k \in 1 .. last : x \in new[k].from .. new[k].to - 1
    BY <1>7, StepOf
  <2>3. x \in Backend!StretchSteps(st) <=> \E k \in 1 .. last : x \in st[k].from .. st[k].to - 1
    BY <1>1, StepOf
  <2> QED
    BY <1>1, <1>7, <2>1, <2>2, <2>3
<1>13. Backend!StretchSteps(new) = steps \union (span.from .. span.to - 1)
  BY <1>8, <1>12
<1>14. Reported(new, span.to, steps \union (span.from .. span.to - 1))
  BY <1>7, <1>10, <1>11, <1>13 DEF Reported
<1> QED
  BY <1>6, <1>7, <1>14 DEF last

LEMMA StretchBegins ==
    ASSUME NEW Tags, NEW st \in Seq(StretchOf(Tags)), NEW end \in Int, NEW steps, Reported(st, end, steps),
           NEW span \in StretchOf(Tags), span.from < span.to, end <= span.from,
           st = <<>> \/ ~Backend!Joins(st[Len(st)], span)
    PROVE  LET new == Append(st, span)
           IN new \in Seq(StretchOf(Tags)) /\ Reported(new, span.to, steps \union (span.from .. span.to - 1))
<1> DEFINE last == Len(st)
           new == Append(st, span)
<1>1. last \in Nat /\ DOMAIN st = 1 .. last /\ last = Len(st) /\ (st = <<>> <=> last = 0)
  BY LenProperties
<1>2. \A r \in 1 .. last : st[r].from \in Int /\ st[r].to \in Int
  BY ElementOfSeq, StretchType
<1>3. span.from \in Int /\ span.to \in Int
  BY StretchType
<1>4. /\ new \in Seq(StretchOf(Tags)) /\ Len(new) = last + 1 /\ DOMAIN new = 1 .. last + 1 /\ new[last + 1] = span
      /\ \A r \in 1 .. last : new[r] = st[r]
  BY <1>1, AppendProperties, LenProperties
<1> HIDE DEF new, last
<1>5. /\ \A r \in 1 .. last : StretchFits(st, r)
      /\ Backend!StretchSteps(st) = steps
      /\ last # 0 => st[last].to <= end
  BY <1>1 DEF Reported
<1>6. ASSUME NEW r \in 1 .. last + 1 PROVE StretchFits(new, r)
  <2>1. CASE r \in 1 .. last
    <3>1. new[r] = st[r] /\ (r > 1 => r - 1 \in 1 .. last /\ new[r - 1] = st[r - 1])
      BY <1>1, <1>4, <2>1
    <3>2. StretchFits(st, r)
      BY <1>5, <2>1
    <3> QED
      BY <3>1, <3>2 DEF StretchFits
  <2>2. CASE r = last + 1
    <3>1. new[r] = span /\ r - 1 = last
      BY <1>1, <1>4, <2>2
    <3>2. CASE last = 0
      <4>1. ~(r > 1)
        BY <2>2, <3>2
      <4> QED
        BY <3>1, <4>1 DEF StretchFits
    <3>3. CASE last # 0
      <4>1. last \in 1 .. last /\ new[r - 1] = st[last] /\ st # <<>>
        BY <1>1, <1>4, <3>1, <3>3
      <4>2. st[last].to <= span.from
        BY <1>2, <1>3, <1>5, <3>3, <4>1
      <4>3. ~Backend!Joins(st[last], span)
        BY <1>1, <4>1
      <4> QED
        BY <3>1, <4>1, <4>2, <4>3 DEF StretchFits
    <3> QED
      BY <3>2, <3>3
  <2> QED
    BY <1>1, <2>1, <2>2
<1>7. new[Len(new)].to <= span.to
  BY <1>3, <1>4
<1>8. ASSUME NEW x
      PROVE  x \in Backend!StretchSteps(new) <=> x \in Backend!StretchSteps(st) \/ x \in span.from .. span.to - 1
  <2>1. x \in Backend!StretchSteps(new) <=> \E k \in 1 .. last + 1 : x \in new[k].from .. new[k].to - 1
    BY <1>4, StepOf
  <2>2. x \in Backend!StretchSteps(st) <=> \E k \in 1 .. last : x \in st[k].from .. st[k].to - 1
    BY <1>1, StepOf
  <2>3. last + 1 \in 1 .. last + 1 /\ (\A k \in 1 .. last : k \in 1 .. last + 1)
        /\ \A k \in 1 .. last + 1 : k = last + 1 \/ k \in 1 .. last
    BY <1>1
  <2> QED
    BY <1>4, <2>1, <2>2, <2>3
<1>9. Backend!StretchSteps(new) = steps \union (span.from .. span.to - 1)
  BY <1>5, <1>8
<1>10. Reported(new, span.to, steps \union (span.from .. span.to - 1))
  BY <1>4, <1>6, <1>7, <1>9 DEF Reported
<1> QED
  BY <1>4, <1>10 DEF new

ReportFits(report, end, steps) ==
    /\ SumOf(report.km) = report.total
    /\ Reported(report.stretches, end, steps)

LEMMA EnteredAs ==
    ASSUME NEW Tags, NEW report \in ReportOf(Tags), NEW span \in StretchOf(Tags)
    PROVE  LET new == Backend!Entered(report, span)
               last == Len(report.stretches)
               way == span.to - span.from
               longer == [report.stretches EXCEPT ![last].to = span.to]
           IN /\ way <= 0 => new = report
              /\ way > 0 =>
                    /\ new = [stretches |-> new.stretches, km |-> new.km, total |-> new.total]
                    /\ new.km = [report.km EXCEPT ![span.id] = @ + way] /\ new.total = report.total + way
                    /\ new.stretches = IF span.id \notin Backend!Warned THEN report.stretches
                                       ELSE IF report.stretches # <<>> /\ Backend!Joins(report.stretches[last], span)
                                            THEN longer ELSE Append(report.stretches, span)
<1> DEFINE last == Len(report.stretches)
           way == span.to - span.from
           st == report.stretches
           km == report.km
           total == report.total
           counted == [report EXCEPT !.km[span.id] = @ + way, !.total = @ + way]
           goesOn == st # <<>> /\ Backend!Joins(st[last], span)
           longer == [st EXCEPT ![last].to = span.to]
           new == Backend!Entered(report, span)
<1>1. way \in Int
  BY StretchType
<1>2. new = CASE way <= 0 -> report
              [] way > 0 /\ span.id \notin Backend!Warned -> counted
              [] OTHER -> [counted EXCEPT !.stretches = IF goesOn THEN [@ EXCEPT ![last].to = span.to]
                                                        ELSE Append(@, span)]
  BY DEF Backend!Entered
<1>3. report = [stretches |-> st, km |-> km, total |-> total]
  BY DEF ReportOf
<1>4. counted = [stretches |-> st, km |-> [km EXCEPT ![span.id] = @ + way], total |-> total + way]
  <2> HIDE DEF way, st, km, total
  <2>1. counted = [[stretches |-> st, km |-> km, total |-> total] EXCEPT !.km[span.id] = @ + way, !.total = @ + way]
    BY <1>3
  <2> HIDE DEF counted
  <2> QED
    BY <2>1
<1> DEFINE more == IF goesOn THEN longer ELSE Append(st, span)
<1>5. [counted EXCEPT !.stretches = IF goesOn THEN [@ EXCEPT ![last].to = span.to] ELSE Append(@, span)] =
        [stretches |-> more, km |-> [km EXCEPT ![span.id] = @ + way], total |-> total + way]
  <2> DEFINE c == [km EXCEPT ![span.id] = @ + way]
             t == total + way
  <2>1. counted = [stretches |-> st, km |-> c, total |-> t]
    BY <1>4
  <2> HIDE DEF counted, c, t
  <2>2. counted.stretches = st
    BY <2>1
  <2>3. [counted EXCEPT !.stretches = IF goesOn THEN [@ EXCEPT ![last].to = span.to] ELSE Append(@, span)] =
          [counted EXCEPT !.stretches = more]
    BY <2>2
  <2> HIDE DEF more
  <2>4. [counted EXCEPT !.stretches = more] = [stretches |-> more, km |-> c, total |-> t]
    BY <2>1
  <2> QED
    BY <2>3, <2>4 DEF c, t
<1> HIDE DEF counted
<1>6. CASE way <= 0
  <2>1. ~(way > 0)
    BY <1>1, <1>6
  <2> QED
    BY <1>2, <1>6, <2>1
<1>7. CASE way > 0
  <2> DEFINE c == [km EXCEPT ![span.id] = @ + way]
             t == total + way
             s == IF span.id \notin Backend!Warned THEN st ELSE more
  <2>1. ~(way <= 0)
    BY <1>1, <1>7
  <2>2. new = [stretches |-> s, km |-> c, total |-> t]
    <3>1. CASE span.id \notin Backend!Warned
      <4>1. new = counted /\ s = st
        BY <1>2, <1>7, <2>1, <3>1
      <4> QED
        BY <1>4, <4>1
    <3>2. CASE span.id \in Backend!Warned
      <4>1. new = [counted EXCEPT !.stretches = IF goesOn THEN [@ EXCEPT ![last].to = span.to] ELSE Append(@, span)]
        BY <1>2, <1>7, <2>1, <3>2
      <4>2. s = more
        BY <3>2
      <4> HIDE DEF more, s, new
      <4> QED
        BY <1>5, <4>1, <4>2
    <3> QED
      BY <3>1, <3>2
  <2> HIDE DEF c, t, s, new
  <2>3. new.stretches = s /\ new.km = c /\ new.total = t /\ new = [stretches |-> new.stretches, km |-> new.km, total |-> new.total]
    BY <2>2
  <2> QED
    BY <1>7, <2>1, <2>3 DEF c, t, s, new
<1> QED
  BY <1>1, <1>6, <1>7

LEMMA EnteredFits ==
    ASSUME NEW Tags, NEW report \in ReportOf(Tags), NEW end \in Int, NEW steps, ReportFits(report, end, steps),
           NEW span \in StretchOf(Tags), end <= span.from, span.from <= span.to
    PROVE  LET new == Backend!Entered(report, span)
               more == IF span.id \in Backend!Warned THEN span.from .. span.to - 1 ELSE {}
           IN new \in ReportOf(Tags) /\ ReportFits(new, span.to, steps \union more)
<1> DEFINE st == report.stretches
           new == Backend!Entered(report, span)
           way == span.to - span.from
           more == IF span.id \in Backend!Warned THEN span.from .. span.to - 1 ELSE {}
<1>1. /\ span.from \in Int /\ span.to \in Int /\ span.id \in Backend!AccessClasses /\ way \in Int
      /\ st \in Seq(StretchOf(Tags)) /\ report.km \in [Backend!AccessClasses -> Int] /\ report.total \in Int
  BY StretchType DEF ReportOf
<1>2. SumOf(report.km) = report.total /\ Reported(st, end, steps)
  BY DEF ReportFits
<1> HIDE DEF st
<1>3. Reported(st, span.to, steps)
  <2>1. st # <<>> => Len(st) \in DOMAIN st /\ st[Len(st)].to \in Int
    <3>1. st # <<>> => Len(st) \in 1 .. Len(st) /\ DOMAIN st = 1 .. Len(st)
      BY <1>1, LenProperties
    <3> QED
      BY <1>1, <3>1, ElementOfSeq, StretchType
  <2>2. st # <<>> => st[Len(st)].to <= span.to
    BY <1>1, <1>2, <2>1 DEF Reported
  <2> QED
    BY <1>2, <2>2 DEF Reported
<1>4. CASE way <= 0
  <2>1. new = report
    BY <1>4, EnteredAs, ZenonT(30)
  <2>2. span.from .. span.to - 1 = {}
    BY <1>1, <1>4
  <2>3. steps \union more = steps
    BY <2>2
  <2> HIDE DEF new, more
  <2> QED
    BY <1>2, <1>3, <2>1, <2>3 DEF ReportFits, st, new, more
<1>5. CASE way > 0
  <2> DEFINE longer == [st EXCEPT ![Len(st)].to = span.to]
             goesOn == st # <<>> /\ Backend!Joins(st[Len(st)], span)
  <2>1. /\ new = [stretches |-> new.stretches, km |-> new.km, total |-> new.total]
        /\ new.km = [report.km EXCEPT ![span.id] = @ + way] /\ new.total = report.total + way
        /\ new.stretches = IF span.id \notin Backend!Warned THEN st ELSE IF goesOn THEN longer ELSE Append(st, span)
    BY <1>5, EnteredAs DEF st
  <2>2. span.from < span.to
    BY <1>1, <1>5
  <2> HIDE DEF way
  <2>3. new.km \in [Backend!AccessClasses -> Int] /\ SumOf(new.km) = SumOf(report.km) + way
    <3> HIDE DEF new
    <3> QED
      BY <1>1, <2>1, CountedOnce
  <2>4. new.stretches \in Seq(StretchOf(Tags)) /\ Reported(new.stretches, span.to, steps \union more)
    <3>1. CASE span.id \notin Backend!Warned
      <4>1. more = {} /\ new.stretches = st
        BY <2>1, <3>1
      <4>2. steps \union more = steps
        BY <4>1
      <4> HIDE DEF new, more
      <4> QED
        BY <1>1, <1>3, <4>1, <4>2
    <3>2. CASE span.id \in Backend!Warned /\ goesOn
      <4>1. more = span.from .. span.to - 1 /\ new.stretches = longer
        BY <2>1, <3>2
      <4>2. longer \in Seq(StretchOf(Tags)) /\ Reported(longer, span.to, steps \union (span.from .. span.to - 1))
        BY <1>1, <1>2, <2>2, <3>2, StretchGoesOn
      <4> HIDE DEF new, more, longer
      <4> QED
        BY <4>1, <4>2
    <3>3. CASE span.id \in Backend!Warned /\ ~goesOn
      <4> DEFINE longest == Append(st, span)
      <4>1. more = span.from .. span.to - 1 /\ new.stretches = longest
        BY <2>1, <3>3
      <4>2. longest \in Seq(StretchOf(Tags)) /\ Reported(longest, span.to, steps \union (span.from .. span.to - 1))
        BY <1>1, <1>2, <2>2, <3>3, StretchBegins
      <4> HIDE DEF new, more, longest
      <4> QED
        BY <4>1, <4>2
    <3> QED
      BY <3>1, <3>2, <3>3
  <2>5. new.total \in Int /\ SumOf(new.km) = new.total
    BY <1>1, <1>2, <2>1, <2>3 DEF way
  <2> HIDE DEF new, more
  <2>6. new \in ReportOf(Tags)
    BY <2>1, <2>3, <2>4, <2>5 DEF ReportOf
  <2>7. ReportFits(new, span.to, steps \union more)
    BY <2>4, <2>5 DEF ReportFits
  <2> QED
    BY <2>6, <2>7 DEF new, more
<1> QED
  BY <1>1, <1>4, <1>5

LEMMA StretchLengths ==
    ASSUME NEW Tags, NEW st \in Seq(StretchOf(Tags)), \A r \in DOMAIN st : StretchFits(st, r)
    PROVE  LET way[r \in 0 .. Len(st)] == IF r = 0 THEN 0 ELSE way[r - 1] + st[r].to - st[r].from
           IN way[Len(st)] = Cardinality(Backend!StretchSteps(st))
<1> DEFINE n == Len(st)
           V == Int
           step == [s \in (0 .. n) \X V |-> IF s[1] = 0 THEN 0 ELSE s[2] + st[s[1]].to - st[s[1]].from]
           Fixed(f) == f = [r \in 0 .. n |-> IF r = 0 THEN 0 ELSE f[r - 1] + st[r].to - st[r].from]
           way == CHOOSE f : Fixed(f)
           Piece(r) == st[r].from .. st[r].to - 1
           Part(r) == UNION {Piece(k) : k \in 1 .. r}
           good == {r \in 0 .. n : /\ way[r] \in Int /\ way[r] = Cardinality(Part(r)) /\ IsFiniteSet(Part(r))
                                   /\ \A k \in 1 .. r : st[k].to <= st[r].to}
<1>1. n \in Nat /\ 0 \in Nat /\ 0 <= n /\ 0 \in 0 .. n /\ n \in 0 .. n /\ 0 \in V /\ DOMAIN st = 1 .. n /\ n = Len(st)
  BY LenProperties
<1>2. \A r \in 1 .. n : st[r].from \in Int /\ st[r].to \in Int
  BY ElementOfSeq, StretchType
<1>3. \A r \in 1 .. n : /\ st[r].from < st[r].to
                        /\ r > 1 => st[r - 1].to <= st[r].from
  BY <1>1 DEF StretchFits
<1>s. Backend!StretchSteps(st) = Part(n)
  BY <1>1 DEF Backend!StretchSteps
<1>w. way = CHOOSE f : Fixed(f)
  OBVIOUS
<1>4. \E f : Fixed(f)
  <2>1. step \in [(0 .. n) \X V -> V]
    <3>1. ASSUME NEW i \in 0 .. n, NEW v \in V, i # 0
          PROVE  v + st[i].to - st[i].from \in V
      <4>1. i \in 1 .. n
        BY <1>1, <3>1
      <4> QED
        BY <1>2, <4>1
    <3> QED
      BY <1>1, <3>1
  <2>2. PICK f \in [0 .. n -> V] : Recurses(f, 0, n, 0, step)
    <3> HIDE DEF step, V, n
    <3> QED
      BY <1>1, <2>1, Recursion
  <2>3. ASSUME NEW i \in 0 .. n
        PROVE  f[i] = IF i = 0 THEN 0 ELSE f[i - 1] + st[i].to - st[i].from
    <3>1. i # 0 => i - 1 \in 0 .. n
      BY <1>1
    <3>2. i # 0 => <<i, f[i - 1]>> \in (0 .. n) \X V
      <4> HIDE DEF V, n
      <4> QED
        BY <2>2, <3>1
    <3> QED
      BY <2>2, <3>1, <3>2 DEF Recurses
  <2>4. Fixed(f)
    BY <2>3
  <2> HIDE DEF Fixed
  <2> QED
    BY <2>4
<1>5. Fixed(way)
  BY <1>4
<1> HIDE DEF way
<1>6. \A r \in 0 .. n : way[r] = IF r = 0 THEN 0 ELSE way[r - 1] + st[r].to - st[r].from
  BY <1>5
<1> HIDE DEF n
<1>7. 0 \in good
  <2>1. Part(0) = {} /\ 1 .. 0 = {}
    OBVIOUS
  <2>2. way[0] = 0
    BY <1>1, <1>6
  <2>3. IsFiniteSet({}) /\ Cardinality({}) = 0
    BY FS_EmptySet
  <2> HIDE DEF Part
  <2> QED
    BY <1>1, <2>1, <2>2, <2>3
<1>8. ASSUME NEW r \in 0 .. n, r # 0, r - 1 \in good
      PROVE  r \in good
  <2>1. r \in 1 .. n /\ r \in 1 .. r /\ r - 1 \in 0 .. n /\ (\A k \in 1 .. r - 1 : k \in 1 .. r /\ k \in 1 .. n)
        /\ \A k \in 1 .. r : k = r \/ k \in 1 .. r - 1
    BY <1>1, <1>8
  <2>2. Part(r) = Part(r - 1) \union Piece(r)
    <3>1. 1 .. r = (1 .. r - 1) \union {r}
      BY <1>1, <2>1
    <3> HIDE DEF Piece
    <3> QED
      BY <3>1
  <2>3. \A k \in 1 .. r : st[k].to <= st[r].to
    <3>1. st[r].to \in Int /\ st[r].from \in Int /\ st[r].from < st[r].to /\ st[r].to <= st[r].to
      BY <1>2, <1>3, <2>1
    <3>2. ASSUME NEW k \in 1 .. r - 1 PROVE st[k].to <= st[r].to
      <4>1. r > 1 /\ r - 1 \in 1 .. n
        BY <2>1
      <4>2. st[k].to <= st[r - 1].to
        BY <1>8
      <4>3. st[r - 1].to <= st[r].from
        BY <1>3, <2>1, <4>1
      <4>4. st[k].to \in Int /\ st[r - 1].to \in Int
        BY <1>2, <2>1, <4>1
      <4> QED
        BY <3>1, <4>2, <4>3, <4>4
    <3> QED
      BY <2>1, <3>1, <3>2
  <2>4. Part(r - 1) \cap Piece(r) = {}
    <3>1. ASSUME NEW x \in Part(r - 1), x \in Piece(r) PROVE FALSE
      <4>1. PICK k \in 1 .. r - 1 : x \in Piece(k)
        BY <3>1
      <4>2. r > 1 /\ r - 1 \in 1 .. n
        BY <2>1
      <4>3. st[k].to <= st[r - 1].to /\ st[r - 1].to <= st[r].from
        BY <1>3, <1>8, <2>1, <4>2
      <4>4. st[k].to \in Int /\ st[k].from \in Int /\ st[r - 1].to \in Int /\ st[r].from \in Int /\ st[r].to \in Int
        BY <1>2, <2>1, <4>2
      <4>5. x \in Int /\ x < st[k].to
        BY <4>1, <4>4
      <4>6. st[r].from <= x
        BY <3>1, <4>4, <4>5
      <4> QED
        BY <4>3, <4>4, <4>5, <4>6
    <3> HIDE DEF Part, Piece
    <3> QED
      BY <3>1
  <2>5. IsFiniteSet(Piece(r)) /\ Cardinality(Piece(r)) = st[r].to - st[r].from
    <3>1. st[r].from \in Int /\ st[r].to \in Int /\ st[r].from < st[r].to
      BY <1>2, <1>3, <2>1
    <3> DEFINE a == st[r].from
               b == st[r].to
    <3>2. a \in Int /\ b \in Int /\ b - 1 \in Int /\ a <= b - 1
      BY <3>1
    <3> HIDE DEF a, b
    <3>3. IsFiniteSet(a .. b - 1) /\ Cardinality(a .. b - 1) = b - a
      BY <3>2, FS_Interval
    <3> QED
      BY <3>3 DEF a, b
  <2>6. way[r - 1] = Cardinality(Part(r - 1)) /\ IsFiniteSet(Part(r - 1)) /\ way[r - 1] \in Int
    BY <1>8
  <2>7. way[r] = way[r - 1] + st[r].to - st[r].from
    BY <1>6, <1>8
  <2>8. st[r].from \in Int /\ st[r].to \in Int
    BY <1>2, <2>1
  <2> HIDE DEF Part, Piece
  <2>9. IsFiniteSet(Part(r)) /\ Cardinality(Part(r)) = Cardinality(Part(r - 1)) + Cardinality(Piece(r))
    <3>1. /\ IsFiniteSet(Part(r - 1) \cup Piece(r))
          /\ Cardinality(Part(r - 1) \cup Piece(r)) =
               Cardinality(Part(r - 1)) + Cardinality(Piece(r)) - Cardinality(Part(r - 1) \cap Piece(r))
      BY <2>5, <2>6, FS_Union
    <3>2. Cardinality(Part(r - 1) \cap Piece(r)) = 0
      BY <2>4, FS_EmptySet
    <3> QED
      BY <2>2, <2>5, <2>6, <2>8, <3>1, <3>2
  <2>10. way[r] \in Int /\ way[r] = Cardinality(Part(r))
    BY <2>5, <2>6, <2>7, <2>8, <2>9
  <2> QED
    BY <2>3, <2>9, <2>10
<1>9. n \in good
  <2> HIDE DEF good
  <2> QED
    BY <1>1, <1>7, <1>8, Induction
<1>10. way[n] = Cardinality(Part(n))
  BY <1>9
<1> HIDE DEF Part
<1> QED
  BY <1>10, <1>s DEF way, n

LEMMA EnteredType ==
    ASSUME NEW Tags, NEW report \in ReportOf(Tags), NEW span \in StretchOf(Tags)
    PROVE  Backend!Entered(report, span) \in ReportOf(Tags)
<1> DEFINE st == report.stretches
           new == Backend!Entered(report, span)
           way == span.to - span.from
           last == Len(st)
           longer == [st EXCEPT ![last].to = span.to]
           one == [st[last] EXCEPT !.to = span.to]
<1>1. /\ span.from \in Int /\ span.to \in Int /\ span.id \in Backend!AccessClasses /\ way \in Int
      /\ st \in Seq(StretchOf(Tags)) /\ report.km \in [Backend!AccessClasses -> Int] /\ report.total \in Int
  BY StretchType DEF ReportOf
<1>2. CASE way <= 0
  BY <1>2, EnteredAs, ZenonT(30)
<1>3. CASE way > 0
  <2>1. /\ new = [stretches |-> new.stretches, km |-> new.km, total |-> new.total]
        /\ new.km = [report.km EXCEPT ![span.id] = @ + way] /\ new.total = report.total + way
        /\ new.stretches = IF span.id \notin Backend!Warned THEN st
                           ELSE IF st # <<>> /\ Backend!Joins(st[last], span) THEN longer ELSE Append(st, span)
    BY <1>3, EnteredAs
  <2> HIDE DEF way, new, st
  <2>2. new.km \in [Backend!AccessClasses -> Int]
    BY <1>1, <2>1, CountedOnce
  <2>3. new.total \in Int
    BY <1>1, <2>1
  <2>4. st # <<>> => longer \in Seq(StretchOf(Tags))
    <3>1. SUFFICES ASSUME st # <<>> PROVE longer \in Seq(StretchOf(Tags))
      OBVIOUS
    <3>2. last \in 1 .. Len(st)
      BY <1>1, <3>1, LenProperties
    <3>3. st[last] \in StretchOf(Tags)
      BY <1>1, <3>2, ElementOfSeq
    <3>4. one \in StretchOf(Tags)
      BY <1>1, <3>3, LongerStretch
    <3>5. longer = [st EXCEPT ![last] = one]
      OBVIOUS
    <3> HIDE DEF last, one, longer
    <3> QED
      BY <1>1, <3>2, <3>4, <3>5, ExceptSeq
  <2>5. Append(st, span) \in Seq(StretchOf(Tags))
    BY <1>1, AppendProperties
  <2> DEFINE longest == Append(st, span)
  <2>6. longest \in Seq(StretchOf(Tags))
    BY <2>5
  <2>7. new.stretches \in {st, longer, longest} /\ (st = <<>> => new.stretches # longer \/ new.stretches \in {st, longest})
    BY <2>1
  <2> HIDE DEF longer, longest
  <2>8. new.stretches \in Seq(StretchOf(Tags))
    BY <1>1, <2>4, <2>6, <2>7
  <2>9. new \in ReportOf(Tags)
    BY <2>1, <2>2, <2>3, <2>8 DEF ReportOf
  <2> QED
    BY <2>9 DEF new
<1> QED
  BY <1>1, <1>2, <1>3

LEMMA Accounted ==
    ASSUME NEW q, RoadQuestion(q)
    PROVE  LET report == Backend!AccessReport(q.spans, q.way)
           IN /\ Backend!StretchSteps(report.stretches) = Backend!WarnedSteps(q.spans, q.way)
              /\ report.warned = Cardinality(Backend!StretchSteps(report.stretches))
              /\ report.total = SumOf(report.km)
              /\ \A r \in 2 .. Len(report.stretches) :
                     /\ report.stretches[r - 1].to <= report.stretches[r].from
                     /\ ~Backend!Joins(report.stretches[r - 1], report.stretches[r])
<1> DEFINE spans == q.spans
           cum == q.way
           n == Len(spans)
           Tags == {Backend!ClassifyAccess(spans[k].road).tag : k \in 1 .. n}
           S(k) == Backend!Span(spans[k], cum)
           V == ReportOf(Tags)
           step == [s \in (0 .. n) \X V |-> IF s[1] = 0 THEN Backend!NoReport ELSE Backend!Entered(s[2], S(s[1]))]
           Fixed(f) == f = [k \in 0 .. n |-> IF k = 0 THEN Backend!NoReport ELSE Backend!Entered(f[k - 1], S(k))]
           report == CHOOSE f : Fixed(f)
           End(k) == IF k = 0 THEN 0 ELSE Backend!KmAt(cum, spans[k].to)
           Warns(k) == Backend!ClassifyAccess(spans[k].road).id \in Backend!Warned
           Piece(k) == Backend!KmAt(cum, spans[k].from) .. Backend!KmAt(cum, spans[k].to) - 1
           Steps(k) == UNION {Piece(j) : j \in {i \in 1 .. k : Warns(i)}}
           good == {k \in 0 .. n : report[k] \in V /\ ReportFits(report[k], End(k), Steps(k))}
<1>1. /\ cum \in Seq(Nat) /\ cum # <<>> /\ (\A i, j \in DOMAIN cum : i <= j => cum[i] <= cum[j])
      /\ spans \in Seq([from : Nat, to : Nat, road : SUBSET RoadTags])
      /\ \A k \in DOMAIN spans : spans[k].from <= spans[k].to
      /\ \A k \in 2 .. Len(spans) : spans[k - 1].to <= spans[k].from
  BY DEF RoadQuestion
<1> HIDE DEF spans, cum
<1>2. n \in Nat /\ 0 \in Nat /\ 0 <= n /\ 0 \in 0 .. n /\ n \in 0 .. n /\ DOMAIN spans = 1 .. n /\ n = Len(spans)
  BY <1>1, LenProperties
<1>3. ASSUME NEW k \in 1 .. n
      PROVE  spans[k].from \in Nat /\ spans[k].to \in Nat /\ spans[k].from <= spans[k].to
             /\ (k > 1 => spans[k - 1].to <= spans[k].from)
  <2> HIDE DEF n
  <2> DEFINE span == spans[k]
  <2>1. span \in [from : Nat, to : Nat, road : SUBSET RoadTags]
    BY <1>1, <1>2, ElementOfSeq
  <2>2. k > 1 => k \in 2 .. n
    BY <1>2
  <2> HIDE DEF span
  <2>3. span.from \in Nat /\ span.to \in Nat
    BY <2>1
  <2>4. spans[k].from <= spans[k].to
    BY <1>1, <1>2
  <2>5. k > 1 => spans[k - 1].to <= spans[k].from
    BY <1>1, <1>2, <2>2
  <2> QED
    BY <2>3, <2>4, <2>5 DEF span
<1>4. \A k \in 1 .. n : /\ Backend!KmAt(cum, spans[k].from) \in Nat /\ Backend!KmAt(cum, spans[k].to) \in Nat
                        /\ Backend!KmAt(cum, spans[k].from) <= Backend!KmAt(cum, spans[k].to)
                        /\ k > 1 => Backend!KmAt(cum, spans[k - 1].to) <= Backend!KmAt(cum, spans[k].from)
  <2> HIDE DEF n
  <2> TAKE k \in 1 .. n
  <2>1. Backend!KmAt(cum, spans[k].from) \in Nat /\ Backend!KmAt(cum, spans[k].to) \in Nat
    BY <1>1, <1>3, AlongTheWay
  <2>2. Backend!KmAt(cum, spans[k].from) <= Backend!KmAt(cum, spans[k].to)
    BY <1>1, <1>3, WayGrows
  <2>3. k > 1 => Backend!KmAt(cum, spans[k - 1].to) <= Backend!KmAt(cum, spans[k].from)
    <3>1. k > 1 => k - 1 \in 1 .. n
      BY <1>2
    <3> QED
      BY <1>1, <1>3, <3>1, WayGrows
  <2> QED
    BY <2>1, <2>2, <2>3
<1>5. \A k \in 1 .. n : /\ S(k).from = Backend!KmAt(cum, spans[k].from) /\ S(k).to = Backend!KmAt(cum, spans[k].to)
                        /\ S(k).id = Backend!ClassifyAccess(spans[k].road).id
                        /\ S(k).tag = Backend!ClassifyAccess(spans[k].road).tag
                        /\ S(k) = [from |-> S(k).from, to |-> S(k).to, id |-> S(k).id, tag |-> S(k).tag]
  BY DEF Backend!Span
<1> HIDE DEF S
<1>6. \A k \in 1 .. n : S(k) \in StretchOf(Tags)
  <2> TAKE k \in 1 .. n
  <2>1. S(k).id \in Backend!AccessClasses
    BY <1>5, ClassOfRoad
  <2>2. S(k).tag \in Tags
    BY <1>5
  <2>3. S(k).from \in Int /\ S(k).to \in Int
    BY <1>4, <1>5
  <2> HIDE DEF Tags
  <2> QED
    BY <1>5, <2>1, <2>2, <2>3 DEF StretchOf
<1>w. report = CHOOSE f : Fixed(f)
  OBVIOUS
<1>n. Backend!NoReport \in V /\ ReportFits(Backend!NoReport, 0, {})
  <2> HIDE DEF Tags
  <2>1. Backend!NoReport.stretches = <<>> /\ Backend!NoReport.total = 0
        /\ Backend!NoReport.km = [c \in Backend!AccessClasses |-> 0]
        /\ Backend!NoReport = [stretches |-> <<>>, km |-> [c \in Backend!AccessClasses |-> 0], total |-> 0]
    BY DEF Backend!NoReport
  <2>2. <<>> \in Seq(StretchOf(Tags)) /\ [c \in Backend!AccessClasses |-> 0] \in [Backend!AccessClasses -> Int]
    OBVIOUS
  <2> DEFINE km == [c \in Backend!AccessClasses |-> 0]
  <2>3. SumOf(km) = 0
    BY DEF SumOf, Backend!AccessClasses
  <2>4. Backend!NoReport \in V
    <3> HIDE DEF km
    <3>1. km \in [Backend!AccessClasses -> Int] /\ Backend!NoReport = [stretches |-> <<>>, km |-> km, total |-> 0]
      BY <2>1, <2>2 DEF km
    <3> QED
      BY <2>2, <3>1 DEF ReportOf
  <2>5. Reported(<<>>, 0, {})
    BY DEF Reported, Backend!StretchSteps
  <2> QED
    BY <2>1, <2>3, <2>4, <2>5 DEF ReportFits
<1>7. \E f : Fixed(f)
  <2>1. step \in [(0 .. n) \X V -> V]
    <3>1. ASSUME NEW i \in 0 .. n, NEW v \in V, i # 0
          PROVE  Backend!Entered(v, S(i)) \in V
      <4>1. i \in 1 .. n
        BY <1>2, <3>1
      <4>2. S(i) \in StretchOf(Tags)
        BY <1>6, <4>1
      <4> HIDE DEF Tags
      <4> QED
        BY <4>2, EnteredType
    <3> HIDE DEF V
    <3> QED
      BY <1>2, <1>n, <3>1
  <2>2. PICK f \in [0 .. n -> V] : Recurses(f, 0, n, Backend!NoReport, step)
    <3> HIDE DEF step, V, n
    <3> QED
      BY <1>2, <1>n, <2>1, Recursion
  <2> HIDE DEF V
  <2>3. ASSUME NEW i \in 0 .. n
        PROVE  f[i] = IF i = 0 THEN Backend!NoReport ELSE Backend!Entered(f[i - 1], S(i))
    <3>1. i # 0 => i - 1 \in 0 .. n
      BY <1>2
    <3>2. i # 0 => <<i, f[i - 1]>> \in (0 .. n) \X V
      <4> HIDE DEF V, n
      <4> QED
        BY <2>2, <3>1
    <3> QED
      BY <2>2, <3>1, <3>2 DEF Recurses
  <2>4. Fixed(f)
    BY <2>3
  <2> HIDE DEF Fixed
  <2> QED
    BY <2>4
<1>8. Fixed(report)
  BY <1>7
<1> HIDE DEF report
<1>9. \A k \in 0 .. n : report[k] = IF k = 0 THEN Backend!NoReport ELSE Backend!Entered(report[k - 1], S(k))
  BY <1>8
<1> HIDE DEF n, Tags
<1>10. 0 \in good
  <2>1. Steps(0) = {} /\ End(0) = 0
    BY <1>2
  <2> HIDE DEF Steps, End
  <2> QED
    BY <1>2, <1>9, <1>n, <2>1
<1>11. ASSUME NEW k \in 0 .. n, k # 0, k - 1 \in good
       PROVE  k \in good
  <2>1. k \in 1 .. n /\ k - 1 \in 0 .. n
    BY <1>2, <1>11
  <2>2. report[k] = Backend!Entered(report[k - 1], S(k))
    BY <1>9, <1>11
  <2>3. report[k - 1] \in V /\ ReportFits(report[k - 1], End(k - 1), Steps(k - 1))
    BY <1>11
  <2>4. End(k - 1) \in Int /\ End(k - 1) <= S(k).from /\ S(k).from <= S(k).to /\ End(k) = S(k).to
    <3>1. S(k).from \in Nat /\ S(k).from = Backend!KmAt(cum, spans[k].from) /\ S(k).to = Backend!KmAt(cum, spans[k].to)
          /\ S(k).from <= S(k).to
      BY <1>4, <1>5, <2>1
    <3>2. CASE k = 1
      BY <2>1, <3>1, <3>2
    <3>3. CASE k # 1
      <4>1. k - 1 \in 1 .. n /\ k - 1 # 0 /\ k > 1 /\ k # 0
        BY <1>2, <2>1, <3>3
      <4>2. Backend!KmAt(cum, spans[k - 1].to) \in Nat /\ Backend!KmAt(cum, spans[k - 1].to) <= Backend!KmAt(cum, spans[k].from)
        BY <1>4, <2>1, <4>1
      <4> QED
        BY <3>1, <4>1, <4>2
    <3> QED
      BY <3>2, <3>3
  <2> DEFINE more == IF S(k).id \in Backend!Warned THEN S(k).from .. S(k).to - 1 ELSE {}
  <2>5. Steps(k) = Steps(k - 1) \union more
    <3>1. more = IF Warns(k) THEN Piece(k) ELSE {}
      BY <1>5, <2>1
    <3>2. \A j : j \in 1 .. k <=> j = k \/ j \in 1 .. k - 1
      BY <1>2, <2>1
    <3> HIDE DEF Warns, Piece, more
    <3>3. {i \in 1 .. k : Warns(i)} = {i \in 1 .. k - 1 : Warns(i)} \union IF Warns(k) THEN {k} ELSE {}
      BY <3>2
    <3> QED
      BY <3>1, <3>3
  <2> HIDE DEF Steps, End, more
  <2>6. report[k] \in V /\ ReportFits(report[k], S(k).to, Steps(k - 1) \union more)
    <3> DEFINE span == S(k)
               old == report[k - 1]
               end == End(k - 1)
               steps == Steps(k - 1)
    <3>1. span \in StretchOf(Tags) /\ old \in ReportOf(Tags) /\ ReportFits(old, end, steps) /\ end \in Int
          /\ end <= span.from /\ span.from <= span.to
      BY <1>6, <2>1, <2>3, <2>4
    <3> DEFINE extra == IF span.id \in Backend!Warned THEN span.from .. span.to - 1 ELSE {}
               new == Backend!Entered(old, span)
    <3>2. extra = more /\ new = report[k]
      BY <2>2 DEF more
    <3> HIDE DEF span, old, end, steps
    <3>3. new \in ReportOf(Tags) /\ ReportFits(new, span.to, steps \union extra)
      BY <3>1, EnteredFits
    <3> HIDE DEF new, extra
    <3>4. report[k] \in ReportOf(Tags) /\ ReportFits(report[k], span.to, steps \union more)
      BY <3>2, <3>3
    <3> QED
      BY <3>4 DEF span, steps
  <2> QED
    BY <2>4, <2>5, <2>6
<1>12. n \in good
  <2> HIDE DEF good
  <2> QED
    BY <1>2, <1>10, <1>11, Induction
<1>13. report[n] \in V /\ ReportFits(report[n], End(n), Steps(n))
  BY <1>12
<1> DEFINE st == report[n].stretches
           out == Backend!AccessReport(spans, cum)
           way == CHOOSE f : f = [r \in 0 .. Len(st) |-> IF r = 0 THEN 0 ELSE f[r - 1] + st[r].to - st[r].from]
<1>14. out = [stretches |-> st, km |-> report[n].km, total |-> report[n].total, warned |-> way[Len(st)]]
  BY DEF Backend!AccessReport, report, S, n
<1>15. Backend!WarnedSteps(spans, cum) = Steps(n)
  BY <1>2 DEF Backend!WarnedSteps
<1> HIDE DEF Steps, End, st
<1>16. st \in Seq(StretchOf(Tags)) /\ SumOf(report[n].km) = report[n].total /\ Reported(st, End(n), Steps(n))
  BY <1>13 DEF ReportOf, ReportFits, st
<1>17. Backend!StretchSteps(st) = Steps(n) /\ \A r \in DOMAIN st : StretchFits(st, r)
  BY <1>16 DEF Reported
<1>18. way[Len(st)] = Cardinality(Backend!StretchSteps(st))
  BY <1>16, <1>17, StretchLengths
<1> HIDE DEF way, out
<1>19. out.stretches = st /\ out.km = report[n].km /\ out.total = report[n].total /\ out.warned = way[Len(st)]
  BY <1>14
<1>20. ASSUME NEW r \in 2 .. Len(st)
       PROVE  st[r - 1].to <= st[r].from /\ ~Backend!Joins(st[r - 1], st[r])
  <2>1. r \in DOMAIN st /\ r > 1
    BY <1>16, LenProperties
  <2> QED
    BY <1>17, <2>1 DEF StretchFits
<1> QED
  BY <1>15, <1>16, <1>17, <1>18, <1>19, <1>20 DEF out, spans, cum

-----------------------------------------------------------------------------
(* The edits that keep every point (reverseTrack, splitTrack and splitIntoStages  *)
(* of edit.ts): pieces that were cut where the last one ended are glued to the   *)
(* line they were cut from.                                                     *)
Tracks == [coordinates : Seq(Points), elevations : Seq(SUBSET Int), waypoints : SUBSET [lat : Int, lon : Int]]

LEMMA TwoFields ==
    ASSUME NEW c, NEW e, NEW w, NEW c2, NEW e2,
           NEW t, t = [coordinates |-> c, elevations |-> e, waypoints |-> w]
    PROVE  [t EXCEPT !.coordinates = c2, !.elevations = e2] = [coordinates |-> c2, elevations |-> e2, waypoints |-> w]
<1> DEFINE u == [t EXCEPT !.coordinates = c2]
<1>1. u = [coordinates |-> c2, elevations |-> e, waypoints |-> w]
  OBVIOUS
<1>2. [t EXCEPT !.coordinates = c2, !.elevations = e2] = [u EXCEPT !.elevations = e2]
  OBVIOUS
<1> HIDE DEF u
<1>3. [u EXCEPT !.elevations = e2] = [coordinates |-> c2, elevations |-> e2, waypoints |-> w]
  BY <1>1
<1> QED
  BY <1>2, <1>3

LEMMA RebuiltAs ==
    ASSUME NEW track \in Tracks, NEW line
    PROVE  LET new == Edits!Rebuild(track, line)
           IN /\ new = [coordinates |-> line, elevations |-> [i \in DOMAIN line |-> line[i].ele],
                        waypoints |-> track.waypoints]
              /\ new.coordinates = line /\ Edits!Aligned(new)
<1> DEFINE elevations == [i \in DOMAIN line |-> line[i].ele]
           new == [coordinates |-> line, elevations |-> elevations, waypoints |-> track.waypoints]
<1>1. track = [coordinates |-> track.coordinates, elevations |-> track.elevations, waypoints |-> track.waypoints]
  BY DEF Tracks
<1>2. Edits!Rebuild(track, line) = [track EXCEPT !.coordinates = line, !.elevations = elevations]
  BY DEF Edits!Rebuild
<1>e. elevations = [i \in DOMAIN line |-> line[i].ele]
  OBVIOUS
<1> HIDE DEF elevations
<1>3. Edits!Rebuild(track, line) = new
  BY <1>1, <1>2, TwoFields
<1>4. new.coordinates = line /\ new.elevations = elevations
  OBVIOUS
<1> HIDE DEF new
<1>5. Edits!Aligned(new)
  BY <1>e, <1>4 DEF Edits!Aligned
<1> QED
  BY <1>3, <1>4, <1>5 DEF new, elevations

LEMMA CutAs ==
    ASSUME NEW track \in Tracks, NEW a, NEW b
    PROVE  LET new == Edits!Cut(track, a, b)
           IN new.coordinates = SubSeq(track.coordinates, a, b) /\ Edits!Aligned(new)
<1> DEFINE line == SubSeq(track.coordinates, a, b)
           near == Edits!WaypointsNear(track.waypoints, line)
           base == Edits!Rebuild(track, line)
           new == Edits!Cut(track, a, b)
<1>1. new = [base EXCEPT !.waypoints = near]
  BY DEF Edits!Cut
<1> HIDE DEF line, near
<1>2. base = [coordinates |-> line, elevations |-> [i \in DOMAIN line |-> line[i].ele], waypoints |-> track.waypoints]
  BY RebuiltAs
<1>3. base.coordinates = line /\ base.elevations = [i \in DOMAIN line |-> line[i].ele]
      /\ base = [coordinates |-> base.coordinates, elevations |-> base.elevations, waypoints |-> base.waypoints]
  <2> HIDE DEF base
  <2> QED
    BY <1>2
<1> HIDE DEF base, new
<1>4. new.coordinates = line /\ new.elevations = [i \in DOMAIN line |-> line[i].ele]
  <2>1. new.coordinates = base.coordinates
    BY <1>1, <1>3
  <2>2. new.elevations = base.elevations
    BY <1>1, <1>3
  <2> QED
    BY <1>3, <2>1, <2>2
<1>5. Edits!Aligned(new)
  BY <1>4 DEF Edits!Aligned
<1> QED
  BY <1>4, <1>5 DEF new, line

LEMMA ReversedTwice ==
    ASSUME NEW track \in Tracks, Edits!Aligned(track)
    PROVE  LET new == Edits!ReverseTrack(track)
           IN Edits!Aligned(new) /\ Edits!ReverseTrack(new) = track
<1> DEFINE c == track.coordinates
           n == Len(c)
           back == Edits!Reverse(c)
           new == Edits!ReverseTrack(track)
<1>1. n \in Nat /\ DOMAIN c = 1 .. n /\ c \in Seq(Points)
  BY LenProperties DEF Tracks
<1>2. track = [coordinates |-> c, elevations |-> [i \in DOMAIN c |-> c[i].ele], waypoints |-> track.waypoints]
  BY DEF Tracks, Edits!Aligned
<1>3. new = [coordinates |-> back, elevations |-> [i \in DOMAIN back |-> back[i].ele], waypoints |-> track.waypoints]
      /\ Edits!Aligned(new)
  BY RebuiltAs DEF Edits!ReverseTrack
<1>4. back = [i \in 1 .. n |-> c[(n - i) + 1]]
  BY DEF Edits!Reverse
<1> HIDE DEF n, c
<1>5. \A i \in 1 .. n : c[i] \in Points /\ (n - i) + 1 \in 1 .. n /\ (n - ((n - i) + 1)) + 1 = i
  BY <1>1, ElementOfSeq DEF n
<1> HIDE DEF back
<1>6. back \in Seq(Points) /\ Len(back) = n /\ DOMAIN back = 1 .. n
  <2>1. \A i \in 1 .. n : back[i] \in Points
    BY <1>4, <1>5
  <2>2. DOMAIN back = 1 .. n /\ back = [i \in 1 .. n |-> back[i]]
    BY <1>4
  <2>3. back \in Seq(Points)
    BY <1>1, <2>1, <2>2, IsASeq
  <2> QED
    BY <1>1, <2>2, <2>3, LenProperties
<1>7. Edits!Reverse(back) = c
  <2>1. Edits!Reverse(back) = [i \in 1 .. n |-> back[(n - i) + 1]]
    BY <1>6 DEF Edits!Reverse
  <2>2. \A i \in 1 .. n : back[(n - i) + 1] = c[i]
    BY <1>4, <1>5
  <2>3. c = [i \in 1 .. n |-> c[i]]
    BY <1>1
  <2> QED
    BY <2>1, <2>2, <2>3
<1> HIDE DEF new
<1>8. new.coordinates = back /\ new.waypoints = track.waypoints /\ new \in Tracks
  <2> DEFINE e == [i \in DOMAIN back |-> back[i].ele]
  <2>1. \A i \in 1 .. n : back[i].ele \in SUBSET Int
    <3>1. \A i \in 1 .. n : back[i] \in Points
      BY <1>6, ElementOfSeq
    <3> QED
      BY <3>1 DEF Points
  <2>2. e \in Seq(SUBSET Int)
    <3> DEFINE T == SUBSET Int
    <3>1. \A i \in 1 .. n : back[i].ele \in T
      BY <2>1
    <3>2. e = [i \in 1 .. n |-> back[i].ele]
      BY <1>6
    <3> HIDE DEF T, e
    <3>3. [i \in 1 .. n |-> back[i].ele] \in Seq(T)
      BY <1>1, <3>1, IsASeq
    <3> QED
      BY <3>2, <3>3 DEF T
  <2>3. new = [coordinates |-> back, elevations |-> e, waypoints |-> track.waypoints]
    BY <1>3
  <2>4. track.waypoints \in SUBSET [lat : Int, lon : Int]
    BY DEF Tracks
  <2> DEFINE w == track.waypoints
  <2> HIDE DEF e, w
  <2>5. new = [coordinates |-> back, elevations |-> e, waypoints |-> w] /\ w \in SUBSET [lat : Int, lon : Int]
    BY <2>3, <2>4 DEF w
  <2>6. new.coordinates = back /\ new.waypoints = w /\ new \in Tracks
    BY <1>6, <2>2, <2>5 DEF Tracks
  <2> QED
    BY <2>6 DEF w
<1>9. Edits!ReverseTrack(new) =
        [coordinates |-> c, elevations |-> [i \in DOMAIN c |-> c[i].ele], waypoints |-> track.waypoints]
  <2>1. Edits!ReverseTrack(new) = Edits!Rebuild(new, c)
    BY <1>7, <1>8 DEF Edits!ReverseTrack
  <2> QED
    BY <1>8, <2>1, RebuiltAs
<1> QED
  BY <1>2, <1>3, <1>9 DEF new

Cuts(track) == {Edits!Cut(track, a, b) : a \in 1 .. Len(track.coordinates), b \in 1 .. Len(track.coordinates)}

\* The pieces are cut at ends, one after the other from the first point on.
CutAt(pieces, track, ends) ==
    /\ ends \in [1 .. Len(pieces) + 1 -> 1 .. Len(track.coordinates)]
    /\ ends[1] = 1
    /\ \A k \in 1 .. Len(pieces) : ends[k] <= ends[k + 1] /\ pieces[k] = Edits!Cut(track, ends[k], ends[k + 1])

LEMMA GluedPieces ==
    ASSUME NEW track \in Tracks, NEW T, NEW pieces \in Seq(T), pieces # <<>>, NEW ends, CutAt(pieces, track, ends)
    PROVE  Edits!Glued(pieces) = SubSeq(track.coordinates, 1, ends[Len(pieces) + 1])
<1> DEFINE c == track.coordinates
           n == Len(c)
           m == Len(pieces)
           V == Seq(Points)
           step == [s \in (1 .. m) \X V |-> s[2] \o Tail(pieces[s[1]].coordinates)]
           Fixed(f) == f = [k \in 1 .. m |-> IF k = 1 THEN pieces[1].coordinates
                                             ELSE f[k - 1] \o Tail(pieces[k].coordinates)]
           line == CHOOSE f : Fixed(f)
           good == {k \in 1 .. m : line[k] = SubSeq(c, 1, ends[k + 1])}
<1>1. m \in Nat /\ 1 \in Nat /\ 1 <= m /\ 1 \in 1 .. m /\ m \in 1 .. m /\ m = Len(pieces)
  BY LenProperties
<1>2. c \in Seq(Points) /\ n \in Nat
  BY LenProperties DEF Tracks
<1>3. /\ \A k \in 1 .. m + 1 : ends[k] \in 1 .. n
      /\ ends[1] = 1
      /\ \A k \in 1 .. m : ends[k] <= ends[k + 1] /\ pieces[k] = Edits!Cut(track, ends[k], ends[k + 1])
  BY DEF CutAt
<1> HIDE DEF m
<1>4. \A k \in 1 .. m : k \in 1 .. m + 1 /\ k + 1 \in 1 .. m + 1
  BY <1>1
<1>5. \A k \in 1 .. m : pieces[k].coordinates = SubSeq(c, ends[k], ends[k + 1])
  BY <1>3, CutAs
<1> HIDE DEF c, n
<1>6. ASSUME NEW k \in 1 .. m
      PROVE  /\ ends[k] \in 1 .. n /\ ends[k + 1] \in ends[k] .. n /\ ends[k] + 1 \in Int
             /\ Tail(pieces[k].coordinates) = SubSeq(c, ends[k] + 1, ends[k + 1])
             /\ Tail(pieces[k].coordinates) \in V /\ pieces[k].coordinates \in V
  <2>1. ends[k] \in 1 .. n /\ ends[k + 1] \in 1 .. n /\ ends[k] <= ends[k + 1]
    BY <1>3, <1>4
  <2>2. ends[k + 1] \in ends[k] .. n
    BY <1>2, <2>1
  <2> DEFINE a == ends[k]
             b == ends[k + 1]
  <2>3. a \in 1 .. n /\ b \in a .. n /\ n = Len(c) /\ a + 1 \in Int /\ a \in Int /\ b \in Int
    BY <1>2, <2>1, <2>2 DEF n
  <2> HIDE DEF a, b
  <2>4. Tail(SubSeq(c, a, b)) = SubSeq(c, a + 1, b)
    BY <1>2, <2>3, HeadTailOfSubSeq
  <2>5. \A i \in a .. b : c[i] \in Points
    BY <1>2, <2>3, ElementOfSeq
  <2>6. \A i \in a + 1 .. b : c[i] \in Points
    BY <2>3, <2>5
  <2>7. SubSeq(c, a, b) \in V /\ SubSeq(c, a + 1, b) \in V
    BY <2>3, <2>5, <2>6, SubSeqProperties
  <2> QED
    BY <1>5, <2>2, <2>3, <2>4, <2>7 DEF a, b
<1>7. \E f : Fixed(f)
  <2>0. pieces[1].coordinates \in V
    BY <1>1, <1>6
  <2>1. step \in [(1 .. m) \X V -> V]
    <3>1. ASSUME NEW i \in 1 .. m, NEW v \in V
          PROVE  v \o Tail(pieces[i].coordinates) \in V
      BY <1>6, ConcatProperties
    <3> HIDE DEF V
    <3> QED
      BY <3>1
  <2> DEFINE base == pieces[1].coordinates
  <2>2. PICK f \in [1 .. m -> V] : Recurses(f, 1, m, base, step)
    <3> HIDE DEF step, V, base
    <3> QED
      BY <1>1, <2>0, <2>1, Recursion DEF base
  <2>3. ASSUME NEW i \in 1 .. m
        PROVE  f[i] = IF i = 1 THEN base ELSE f[i - 1] \o Tail(pieces[i].coordinates)
    <3>1. i # 1 => i - 1 \in 1 .. m
      BY <1>1
    <3>2. i # 1 => <<i, f[i - 1]>> \in (1 .. m) \X V
      <4> HIDE DEF V
      <4> QED
        BY <2>2, <3>1
    <3> HIDE DEF V, base
    <3> QED
      BY <2>2, <3>1, <3>2 DEF Recurses
  <2>4. Fixed(f)
    <3> HIDE DEF V
    <3> QED
      BY <2>2, <2>3
  <2> HIDE DEF Fixed
  <2> QED
    BY <2>4
<1>8. Fixed(line)
  BY <1>7
<1>l. Edits!Glued(pieces) = line[m]
  BY DEF Edits!Glued, line, m
<1> HIDE DEF line
<1>9. \A k \in 1 .. m : line[k] = IF k = 1 THEN pieces[1].coordinates ELSE line[k - 1] \o Tail(pieces[k].coordinates)
  BY <1>8
<1>10. 1 \in good
  <2>1. line[1] = SubSeq(c, ends[1], ends[1 + 1])
    BY <1>1, <1>5, <1>9
  <2> QED
    BY <1>1, <1>3, <2>1
<1>11. ASSUME NEW k \in 1 .. m, k # 1, k - 1 \in good
       PROVE  k \in good
  <2>1. (k - 1) + 1 = k
    BY <1>1
  <2> DEFINE a == ends[k]
             b == ends[k + 1]
  <2>2. line[k] = SubSeq(c, 1, a) \o SubSeq(c, a + 1, b)
    BY <1>6, <1>9, <1>11, <2>1
  <2>3. a \in 1 .. n /\ b \in a .. n /\ n = Len(c) /\ 1 \in 1 .. n + 1 /\ a \in 0 .. n /\ 1 - 1 = 0
    <3>1. a \in 1 .. n /\ b \in a .. n
      BY <1>6
    <3>2. n = Len(c)
      BY DEF n
    <3> HIDE DEF a, b
    <3> QED
      BY <1>2, <3>1, <3>2
  <2> HIDE DEF a, b
  <2>4. SubSeq(c, 1, a) \o SubSeq(c, a + 1, b) = SubSeq(c, 1, b)
    BY <1>2, <2>3, ConcatAdjacentSubSeq
  <2> QED
    BY <2>2, <2>4 DEF b
<1>12. m \in good
  <2> HIDE DEF good
  <2> QED
    BY <1>1, <1>10, <1>11, Induction
<1>13. line[m] = SubSeq(c, 1, ends[m + 1])
  BY <1>12
<1> QED
  BY <1>l, <1>13 DEF c, m

LEMMA PartsGlued ==
    ASSUME NEW track \in Tracks, Len(track.coordinates) >= 2, NEW at \in Int
    PROVE  LET parts == Edits!SplitTrack(track, at)
           IN Edits!Glued(parts) = track.coordinates /\ \A k \in DOMAIN parts : Edits!Aligned(parts[k])
<1> DEFINE c == track.coordinates
           n == Len(c)
           cut == Edits!Max({2, Edits!Min({n - 1, at})})
           parts == Edits!SplitTrack(track, at)
           one == Edits!Cut(track, 1, cut)
           two == Edits!Cut(track, cut, n)
           ends == [k \in 1 .. 3 |-> IF k = 1 THEN 1 ELSE IF k = 2 THEN cut ELSE n]
<1>1. c \in Seq(Points) /\ n \in Nat /\ n >= 2
  BY LenProperties DEF Tracks
<1>2. cut \in 2 .. n
  <2> DEFINE low == Edits!Min({n - 1, at})
  <2>1. low = IF n - 1 <= at THEN n - 1 ELSE at
    BY <1>1, SameExtremes, LesserOfTwo
  <2>2. low \in Int /\ low <= n - 1
    BY <1>1, <2>1
  <2> HIDE DEF low
  <2>3. Edits!Max({2, low}) = IF 2 <= low THEN low ELSE 2
    BY <2>2, SameExtremes, LesserOfTwo
  <2> QED
    BY <1>1, <2>2, <2>3 DEF low
<1>3. parts = <<one, two>>
  BY DEF Edits!SplitTrack
<1> HIDE DEF cut, one, two, parts
<1>4. parts \in Seq({one, two}) /\ Len(parts) = 2 /\ parts[1] = one /\ parts[2] = two /\ DOMAIN parts = 1 .. 2 /\ parts # <<>>
  BY <1>3
<1>5. CutAt(parts, track, ends)
  <2>1. ends \in [1 .. 2 + 1 -> 1 .. n] /\ ends[1] = 1 /\ ends[2] = cut /\ ends[3] = n
    BY <1>1, <1>2
  <2>2. 1 <= cut /\ cut <= n
    BY <1>1, <1>2
  <2> HIDE DEF ends
  <2>3. \A k \in 1 .. 2 : k = 1 \/ k = 2
    OBVIOUS
  <2>4. \A k \in 1 .. 2 : ends[k] <= ends[k + 1] /\ parts[k] = Edits!Cut(track, ends[k], ends[k + 1])
    BY <1>4, <2>1, <2>2, <2>3 DEF one, two
  <2> QED
    BY <1>4, <2>1, <2>4 DEF CutAt
<1>6. Edits!Glued(parts) = SubSeq(c, 1, ends[2 + 1])
  <2> DEFINE T == {one, two}
  <2> HIDE DEF ends, T
  <2> QED
    BY <1>4, <1>5, GluedPieces DEF T
<1>7. ends[2 + 1] = n
  OBVIOUS
<1>8. Edits!Glued(parts) = c
  <2> HIDE DEF ends, c
  <2> QED
    BY <1>1, <1>6, <1>7, SubSeqFull
<1>9. Edits!Aligned(one) /\ Edits!Aligned(two)
  BY CutAs DEF one, two
<1> QED
  BY <1>4, <1>8, <1>9 DEF parts

SplitOf(track) == [start : 1 .. Len(track.coordinates), stages : Seq(Cuts(track))]

\* What is behind the start has been cut into stages.
SplitFits(split, track, i) ==
    /\ split.start <= i
    /\ \E ends : /\ CutAt(split.stages, track, ends)
                 /\ ends[Len(split.stages) + 1] = split.start

LEMMA OneMoreStage ==
    ASSUME NEW track \in Tracks, NEW before \in SplitOf(track), NEW i \in 1 .. Len(track.coordinates),
           NEW h \in Int, h <= i, SplitFits(before, track, h)
    PROVE  LET new == [start |-> i, stages |-> Append(before.stages, Edits!Cut(track, before.start, i))]
           IN new \in SplitOf(track) /\ SplitFits(new, track, i) /\ new.stages # <<>>
<1> DEFINE n == Len(track.coordinates)
           old == before.stages
           m == Len(old)
           cut == Edits!Cut(track, before.start, i)
           stages == Append(old, cut)
           new == [start |-> i, stages |-> stages]
<1>1. before.start \in 1 .. n /\ old \in Seq(Cuts(track)) /\ i \in 1 .. n
  BY DEF SplitOf
<1>2. n \in Nat /\ m \in Nat /\ m = Len(old)
  BY <1>1, LenProperties DEF Tracks
<1>3. before.start <= h /\ before.start <= i
  <2>1. before.start <= h
    BY DEF SplitFits
  <2> QED
    BY <1>1, <1>2, <2>1
<1>4. PICK ends : CutAt(old, track, ends) /\ ends[m + 1] = before.start
  BY DEF SplitFits
<1>5. cut \in Cuts(track)
  BY <1>1 DEF Cuts
<1> HIDE DEF old, m, stages, n
<1>6. /\ stages \in Seq(Cuts(track)) /\ Len(stages) = m + 1 /\ stages[m + 1] = cut /\ stages # <<>>
      /\ \A k \in 1 .. m : stages[k] = old[k]
  <2> HIDE DEF cut
  <2> QED
    BY <1>1, <1>2, <1>5, AppendProperties DEF stages
<1>7. /\ ends \in [1 .. m + 1 -> 1 .. n] /\ ends[1] = 1
      /\ \A k \in 1 .. m : ends[k] <= ends[k + 1] /\ old[k] = Edits!Cut(track, ends[k], ends[k + 1])
  BY <1>2, <1>4 DEF CutAt, n
<1> DEFINE ends2 == [k \in 1 .. m + 2 |-> IF k = m + 2 THEN i ELSE ends[k]]
<1>8. CutAt(stages, track, ends2) /\ ends2[Len(stages) + 1] = i
  <2>1. (m + 1) + 1 = m + 2 /\ m + 2 \in 1 .. m + 2 /\ 1 \in 1 .. m + 2 /\ 1 # m + 2 /\ 1 \in 1 .. m + 1
        /\ m + 1 \in 1 .. m + 1 /\ m + 1 # m + 2
        /\ \A k \in 1 .. m + 2 : k # m + 2 => k \in 1 .. m + 1
    BY <1>2
  <2>2. ends2 \in [1 .. m + 2 -> 1 .. n]
    BY <1>1, <1>7, <2>1
  <2>3. \A k \in 1 .. m + 1 : k \in 1 .. m + 2 /\ ends2[k] = ends[k]
    BY <1>2
  <2>4. ends2[m + 2] = i /\ ends2[1] = 1
    BY <1>7, <2>1
  <2> HIDE DEF ends2
  <2>5. ASSUME NEW k \in 1 .. m + 1
        PROVE  ends2[k] <= ends2[k + 1] /\ stages[k] = Edits!Cut(track, ends2[k], ends2[k + 1])
    <3>1. CASE k = m + 1
      <4>1. ends2[k] = before.start /\ ends2[k + 1] = i
        BY <1>4, <2>1, <2>3, <2>4, <3>1
      <4> QED
        BY <1>3, <1>6, <3>1, <4>1
    <3>2. CASE k # m + 1
      <4>1. k \in 1 .. m /\ k + 1 \in 1 .. m + 1
        BY <1>2, <3>2
      <4>2. ends2[k] = ends[k] /\ ends2[k + 1] = ends[k + 1] /\ stages[k] = old[k]
        BY <1>6, <2>3, <4>1
      <4> QED
        BY <1>7, <4>1, <4>2
    <3> QED
      BY <3>1, <3>2
  <2> QED
    BY <1>6, <2>1, <2>2, <2>4, <2>5 DEF CutAt, n
<1>9. new.start = i /\ new.stages = stages /\ new \in SplitOf(track)
  <2>1. new \in SplitOf(track)
    BY <1>1, <1>6 DEF SplitOf, n
  <2> QED
    BY <2>1
<1>10. i <= i
  BY <1>1, <1>2
<1> HIDE DEF new, ends2
<1>11. SplitFits(new, track, i)
  BY <1>8, <1>9, <1>10 DEF SplitFits
<1> QED
  BY <1>6, <1>9, <1>11 DEF new, stages, old

LEMMA StagesGlued ==
    ASSUME NEW track \in Tracks, Edits!Aligned(track), Len(track.coordinates) >= 2, NEW stageKm
    PROVE  LET stages == Edits!SplitIntoStages(track, stageKm)
           IN Edits!Glued(stages) = track.coordinates /\ \A k \in DOMAIN stages : Edits!Aligned(stages[k])
<1> DEFINE c == track.coordinates
           cum == Edits!CumulativeKm(c)
           n == Len(c)
           V == SplitOf(track)
           base == [start |-> 1, stages |-> <<>>]
           Ends(before, i) == cum[i] >= cum[before.start] + stageKm \/ i = n
           Next(before, i) == IF Ends(before, i)
                              THEN [start |-> i, stages |-> Append(before.stages, Edits!Cut(track, before.start, i))]
                              ELSE before
           step == [s \in (1 .. n) \X V |-> Next(s[2], s[1])]
           Fixed(f) == f = [i \in 1 .. n |-> IF i = 1 THEN base ELSE Next(f[i - 1], i)]
           split == CHOOSE f : Fixed(f)
           stages == Edits!SplitIntoStages(track, stageKm)
           good == {i \in 1 .. n : split[i] \in V /\ SplitFits(split[i], track, i)}
<1>1. c \in Seq(Points) /\ n \in Nat /\ n >= 2 /\ 1 \in Nat /\ 1 <= n /\ 1 \in 1 .. n /\ n \in 1 .. n /\ n = Len(c) /\ n # 1 /\ n # 0
  <2>1. c \in Seq(Points)
    BY DEF Tracks
  <2>2. n \in Nat
    <3> HIDE DEF c
    <3> QED
      BY <2>1, LenProperties
  <2>3. n >= 2 /\ n = Len(c)
    OBVIOUS
  <2> HIDE DEF n
  <2>4. 1 <= n /\ 1 \in 1 .. n /\ n \in 1 .. n /\ n # 1 /\ n # 0
    <3>1. \A k \in Nat : k >= 2 => 1 <= k /\ 1 \in 1 .. k /\ k \in 1 .. k /\ k # 1 /\ k # 0
      OBVIOUS
    <3> QED
      BY <2>2, <2>3, <3>1
  <2> QED
    BY <2>1, <2>2, <2>3, <2>4
<1>s. stages = IF n = 0 \/ stageKm <= 0 \/ cum[n] <= stageKm THEN <<track>> ELSE split[n].stages
  BY DEF Edits!SplitIntoStages, split
<1> HIDE DEF stages
<1>2. CASE stageKm <= 0 \/ cum[n] <= stageKm
  <2>1. stages = <<track>>
    BY <1>1, <1>s, <1>2
  <2>2. Edits!Glued(<<track>>) = c
    <3> DEFINE Line(f) == f = [k \in 1 .. Len(<<track>>) |->
                                 IF k = 1 THEN <<track>>[1].coordinates ELSE f[k - 1] \o Tail(<<track>>[k].coordinates)]
               g == [k \in 1 .. 1 |-> c]
               line == CHOOSE f : Line(f)
    <3>1. Len(<<track>>) = 1 /\ <<track>>[1].coordinates = c
      OBVIOUS
    <3>2. Line(g)
      BY <3>1
    <3>3. Line(line)
      <4> HIDE DEF Line
      <4> QED
        BY <3>2
    <3>4. Edits!Glued(<<track>>) = line[1]
      BY <3>1 DEF Edits!Glued
    <3> HIDE DEF line
    <3>5. line[1] = c
      BY <3>1, <3>3
    <3> QED
      BY <3>4, <3>5
  <2>3. DOMAIN <<track>> = {1} /\ <<track>>[1] = track
    OBVIOUS
  <2> HIDE DEF c
  <2>4. \A k \in DOMAIN stages : Edits!Aligned(stages[k])
    BY <2>1, <2>3
  <2> QED
    BY <2>1, <2>2, <2>4, SMTT(30) DEF stages, c
<1>3. CASE ~(stageKm <= 0 \/ cum[n] <= stageKm)
  <2>1. stages = split[n].stages
    BY <1>1, <1>s, <1>3
  <2> HIDE DEF cum
  <2>2. base \in V /\ SplitFits(base, track, 1)
    <3> DEFINE none == <<>>
               ends == [k \in 1 .. 1 |-> 1]
    <3>1. none \in Seq(Cuts(track)) /\ Len(none) = 0 /\ 1 .. 0 = {}
      OBVIOUS
    <3>2. ends \in [1 .. 0 + 1 -> 1 .. n] /\ ends[1] = 1 /\ ends[0 + 1] = 1
      BY <1>1
    <3> HIDE DEF none, ends
    <3>3. CutAt(none, track, ends) /\ ends[Len(none) + 1] = 1
      BY <3>1, <3>2 DEF CutAt
    <3>4. base = [start |-> 1, stages |-> none] /\ base.start = 1 /\ base.stages = none
      BY DEF none
    <3> HIDE DEF base
    <3>5. base \in V
      BY <1>1, <3>1, <3>4 DEF SplitOf
    <3>6. 1 <= 1
      OBVIOUS
    <3> QED
      BY <3>3, <3>4, <3>5, <3>6 DEF SplitFits
  <2> HIDE DEF base
  <2>3. ASSUME NEW i \in 1 .. n, NEW v \in V
        PROVE  Next(v, i) \in V
    <3>1. v.start \in 1 .. n /\ v.stages \in Seq(Cuts(track))
      BY DEF SplitOf
    <3> DEFINE cut == Edits!Cut(track, v.start, i)
               more == Append(v.stages, cut)
    <3>2. cut \in Cuts(track)
      BY <3>1 DEF Cuts
    <3>3. more \in Seq(Cuts(track))
      <4> HIDE DEF cut
      <4> QED
        BY <3>1, <3>2, AppendProperties
    <3> HIDE DEF more
    <3>4. [start |-> i, stages |-> more] \in V
      BY <3>3 DEF SplitOf
    <3>5. Next(v, i) = IF Ends(v, i) THEN [start |-> i, stages |-> more] ELSE v
      BY DEF more
    <3> HIDE DEF Next, V
    <3> QED
      BY <3>4, <3>5
  <2>t. split = CHOOSE f : Fixed(f)
    OBVIOUS
  <2> HIDE DEF Ends
  <2>n. \A v, i : Next(v, i) = IF Ends(v, i)
                               THEN [start |-> i, stages |-> Append(v.stages, Edits!Cut(track, v.start, i))]
                               ELSE v
    OBVIOUS
  <2> HIDE DEF Next
  <2>4. \E f : Fixed(f)
    <3>1. step \in [(1 .. n) \X V -> V]
      <4> HIDE DEF V
      <4> QED
        BY <2>3
    <3>2. PICK f \in [1 .. n -> V] : Recurses(f, 1, n, base, step)
      <4> HIDE DEF step, V, n
      <4> QED
        BY <1>1, <2>2, <3>1, Recursion
    <3> HIDE DEF V
    <3>3. ASSUME NEW i \in 1 .. n
          PROVE  f[i] = IF i = 1 THEN base ELSE Next(f[i - 1], i)
      <4>1. i # 1 => i - 1 \in 1 .. n
        BY <1>1
      <4>2. i # 1 => <<i, f[i - 1]>> \in (1 .. n) \X V
        <5> HIDE DEF n
        <5> QED
          BY <3>2, <4>1
      <4> QED
        BY <3>2, <4>1, <4>2 DEF Recurses
    <3>4. Fixed(f)
      BY <3>2, <3>3
    <3> HIDE DEF Fixed
    <3> QED
      BY <3>4
  <2>5. Fixed(split)
    BY <2>4, <2>t
  <2> HIDE DEF split
  <2>6. \A i \in 1 .. n : split[i] = IF i = 1 THEN base ELSE Next(split[i - 1], i)
    BY <2>5
  <2> HIDE DEF n
  <2>7. 1 \in good
    BY <1>1, <2>2, <2>6
  <2>8. ASSUME NEW i \in 1 .. n, i # 1, split[i - 1] \in V, SplitFits(split[i - 1], track, i - 1)
        PROVE  /\ split[i] \in V /\ SplitFits(split[i], track, i)
               /\ i = n => split[i].stages # <<>> /\ split[i].start = n
    <3> DEFINE before == split[i - 1]
               new == [start |-> i, stages |-> Append(before.stages, Edits!Cut(track, before.start, i))]
    <3>1. split[i] = IF Ends(before, i) THEN new ELSE before
      BY <2>6, <2>8, <2>n
    <3>2. i - 1 \in Int /\ i - 1 <= i /\ i \in 1 .. Len(track.coordinates)
      BY <1>1 DEF n
    <3>3. CASE Ends(before, i)
      <4>1. new.start = i
        OBVIOUS
      <4>2. split[i] = new
        BY <3>1, <3>3
      <4> HIDE DEF before
      <4>3. new \in V /\ SplitFits(new, track, i) /\ new.stages # <<>>
        BY <2>8, <3>2, OneMoreStage DEF before
      <4> HIDE DEF new
      <4> QED
        BY <4>1, <4>2, <4>3
    <3>4. CASE ~Ends(before, i)
      <4>1. i # n
        BY <3>4 DEF Ends
      <4>2. split[i] = before
        BY <3>1, <3>4
      <4>3. before.start \in 1 .. n
        BY <2>8 DEF SplitOf, n
      <4>4. before.start <= i - 1
        BY <2>8 DEF SplitFits
      <4>5. before.start <= i
        BY <1>1, <4>3, <4>4
      <4> HIDE DEF before
      <4>6. SplitFits(before, track, i - 1) /\ before \in V
        BY <2>8 DEF before
      <4>7. SplitFits(before, track, i)
        BY <4>5, <4>6 DEF SplitFits
      <4> QED
        BY <4>1, <4>2, <4>6, <4>7
    <3> QED
      BY <3>3, <3>4
  <2>9. ASSUME NEW i \in 1 .. n, i # 1, i - 1 \in good
        PROVE  i \in good
    BY <2>8, <2>9
  <2>10. n - 1 \in good
    <3>1. n - 1 \in 1 .. n
      BY <1>1
    <3> HIDE DEF good
    <3> QED
      BY <1>1, <2>7, <2>9, <3>1, Induction
  <2>11. split[n] \in V /\ SplitFits(split[n], track, n) /\ split[n].stages # <<>> /\ split[n].start = n
    BY <1>1, <2>8, <2>10
  <2>12. PICK ends : CutAt(stages, track, ends) /\ ends[Len(stages) + 1] = n
    BY <2>1, <2>11 DEF SplitFits
  <2>13. stages \in Seq(Cuts(track)) /\ stages # <<>>
    BY <2>1, <2>11 DEF SplitOf
  <2>14. Edits!Glued(stages) = SubSeq(c, 1, n)
    BY <2>12, <2>13, GluedPieces
  <2>15. SubSeq(c, 1, n) = c
    <3> HIDE DEF c
    <3> QED
      BY <1>1, SubSeqFull
  <2>16. ASSUME NEW k \in DOMAIN stages PROVE Edits!Aligned(stages[k])
    <3>1. k \in 1 .. Len(stages)
      BY <2>13, LenProperties
    <3>2. stages[k] = Edits!Cut(track, ends[k], ends[k + 1])
      BY <2>12, <3>1 DEF CutAt
    <3> QED
      BY <3>2, CutAs
  <2> QED
    BY <2>14, <2>15, <2>16, SMTT(30) DEF stages
<1> QED
  BY <1>2, <1>3

-----------------------------------------------------------------------------
(* Simplifying (keepSegment of edit.ts): the recursion over spans is unrolled in  *)
(* rounds, one for each width, and a span that is done has, for every point it   *)
(* drops, two neighbours on the line that the point is within tolerance of.      *)
Placed(p) == p.lat \in Int /\ p.lon \in Int

LEMMA Products ==
    ASSUME NEW a \in Int, NEW b \in Int
    PROVE  a * b \in Int /\ a - b \in Int /\ a + b \in Int
OBVIOUS

LEMMA SegmentSquareType ==
    ASSUME NEW p, Placed(p), NEW q, Placed(q)
    PROVE  Edits!SegmentSquare(p, q) \in Int /\ Edits!Scale(p, q) \in Int
<1> DEFINE x == q.lon - p.lon
           y == q.lat - p.lat
<1>1. x \in Int /\ y \in Int
  BY DEF Placed
<1>2. Edits!SegmentSquare(p, q) = x * x + y * y
  BY DEF Edits!SegmentSquare
<1> HIDE DEF x, y
<1>3. Edits!SegmentSquare(p, q) \in Int
  BY <1>1, <1>2, Products
<1>4. Edits!Scale(p, q) = IF 1 <= Edits!SegmentSquare(p, q) THEN Edits!SegmentSquare(p, q) ELSE 1
  BY <1>3, SameExtremes, LesserOfTwo DEF Edits!Scale
<1> QED
  BY <1>3, <1>4

LEMMA ScaledSquareType ==
    ASSUME NEW p, Placed(p), NEW q, Placed(q), NEW r, Placed(r)
    PROVE  Edits!ScaledSquare(p, q, r) \in Int
<1> DEFINE dx == q.lon - p.lon
           dy == q.lat - p.lat
           px == r.lon - p.lon
           py == r.lat - p.lat
           dot == px * dx + py * dy
           cross == px * dy - py * dx
<1>1. dx \in Int /\ dy \in Int /\ px \in Int /\ py \in Int
  BY DEF Placed
<1>2. Edits!ScaledSquare(p, q, r) =
        CASE dot <= 0 -> Edits!SegmentSquare(p, r) * Edits!Scale(p, q)
          [] dot > 0 /\ dot >= Edits!SegmentSquare(p, q) -> Edits!SegmentSquare(q, r) * Edits!Scale(p, q)
          [] OTHER -> cross * cross
  BY DEF Edits!ScaledSquare
<1> HIDE DEF dx, dy, px, py
<1>3. px * dy \in Int /\ py * dx \in Int /\ px * dx \in Int /\ py * dy \in Int
  BY <1>1, Products
<1>4. cross \in Int /\ dot \in Int
  BY <1>3, Products
<1> HIDE DEF cross, dot
<1>5. /\ cross * cross \in Int
      /\ Edits!SegmentSquare(p, r) * Edits!Scale(p, q) \in Int
      /\ Edits!SegmentSquare(q, r) * Edits!Scale(p, q) \in Int
  BY <1>4, SegmentSquareType, Products
<1>6. \/ Edits!ScaledSquare(p, q, r) = cross * cross
      \/ Edits!ScaledSquare(p, q, r) = Edits!SegmentSquare(p, r) * Edits!Scale(p, q)
      \/ Edits!ScaledSquare(p, q, r) = Edits!SegmentSquare(q, r) * Edits!Scale(p, q)
  BY <1>2, <1>4
<1> QED
  BY <1>5, <1>6

\* One step of Kept, by what has been found for shorter spans.
SpanKept(points, tolerance, keep, s) ==
    LET Off(a, b, i) == Edits!ScaledSquare(points[a], points[b], points[i])
        a == s[1]
        b == s[2]
        inner == a + 1 .. b - 1
        far == Edits!Min({i \in inner : \A j \in inner : Off(a, b, j) <= Off(a, b, i)})
    IN IF b - a < 2 \/ Edits!WithinTolerance(points[a], points[b], points[far], tolerance)
       THEN {a, b}
       ELSE keep[<<a, far>>] \union keep[<<far, b>>]

\* Where a span is split, and what is then kept of it.
SplitsAt(points, tolerance, a, b, far) ==
    /\ \A j \in a + 1 .. b - 1 : Edits!ScaledSquare(points[a], points[b], points[j])
                                   <= Edits!ScaledSquare(points[a], points[b], points[far])
    /\ \A kept : SpanKept(points, tolerance, kept, <<a, b>>) =
           IF Edits!WithinTolerance(points[a], points[b], points[far], tolerance)
           THEN {a, b} ELSE kept[<<a, far>>] \union kept[<<far, b>>]

LEMMA SpanSplit ==
    ASSUME NEW n \in Nat, NEW points, \A i \in 1 .. n : Placed(points[i]), NEW tolerance,
           NEW a \in 1 .. n, NEW b \in 1 .. n, b - a >= 2
    PROVE  \E far \in a + 1 .. b - 1 : SplitsAt(points, tolerance, a, b, far)
<1> DEFINE Off(i) == Edits!ScaledSquare(points[a], points[b], points[i])
           inner == a + 1 .. b - 1
           tops == {i \in inner : \A j \in inner : Off(j) <= Off(i)}
           far == Edits!Min(tops)
           heights == {Off(i) : i \in inner}
<1>1. a + 1 \in inner /\ inner \subseteq 1 .. n /\ inner \subseteq Int
  OBVIOUS
<1>2. \A i \in inner : Off(i) \in Int
  BY <1>1, ScaledSquareType
<1>3. IsFiniteSet(inner)
  BY FS_Interval
<1>4. IsFiniteSet(heights) /\ heights \subseteq Int /\ heights # {}
  <2> DEFINE f == [i \in inner |-> Off(i)]
  <2>1. DOMAIN f = inner /\ heights = {f[i] : i \in inner}
    OBVIOUS
  <2> HIDE DEF f, heights
  <2>2. IsFiniteSet(heights)
    <3> HIDE DEF inner
    <3> QED
      BY <1>3, <2>1, FiniteImage
  <2> QED
    BY <1>1, <1>2, <2>2 DEF heights
<1>5. \E m \in heights : \A k \in heights : k <= m
  <2> HIDE DEF heights
  <2> QED
    BY <1>4, Greatest
<1>6. tops # {} /\ tops \subseteq inner
  BY <1>5
<1>7. far \in tops
  <2>1. IsFiniteSet(tops)
    <3> HIDE DEF tops, inner
    <3> QED
      BY <1>3, <1>6, FS_Subset
  <2> HIDE DEF tops, inner
  <2>2. tops \subseteq Int
    BY <1>1, <1>6
  <2> QED
    BY <1>6, <2>1, <2>2, SameExtremes, MinOf
<1>8. \A kept : SpanKept(points, tolerance, kept, <<a, b>>) =
          IF Edits!WithinTolerance(points[a], points[b], points[far], tolerance)
          THEN {a, b} ELSE kept[<<a, far>>] \union kept[<<far, b>>]
  <2>1. ~(b - a < 2)
    OBVIOUS
  <2>2. <<a, b>>[1] = a /\ <<a, b>>[2] = b
    OBVIOUS
  <2> QED
    BY <2>1, <2>2 DEF SpanKept
<1>9. far \in inner /\ \A j \in inner : Off(j) <= Off(far)
  <2> HIDE DEF far
  <2> QED
    BY <1>7
<1> HIDE DEF far, tops, heights
<1> QED
  BY <1>8, <1>9 DEF SplitsAt

LEMMA ShortSpan ==
    ASSUME NEW points, NEW tolerance, NEW a, NEW b, b - a < 2, NEW keep
    PROVE  SpanKept(points, tolerance, keep, <<a, b>>) = {a, b}
BY DEF SpanKept

LEMMA SpanType ==
    ASSUME NEW n \in Nat, NEW points, \A i \in 1 .. n : Placed(points[i]), NEW tolerance,
           NEW keep \in [(1 .. n) \X (1 .. n) -> SUBSET (1 .. n)], NEW a \in 1 .. n, NEW b \in 1 .. n
    PROVE  SpanKept(points, tolerance, keep, <<a, b>>) \in SUBSET (1 .. n)
<1>1. CASE b - a < 2
  BY <1>1, ShortSpan
<1>2. CASE b - a >= 2
  <2>1. PICK far \in a + 1 .. b - 1 : SplitsAt(points, tolerance, a, b, far)
    BY <1>2, SpanSplit
  <2>2. far \in 1 .. n
    OBVIOUS
  <2>3. keep[<<a, far>>] \in SUBSET (1 .. n) /\ keep[<<far, b>>] \in SUBSET (1 .. n)
    BY <2>2
  <2> QED
    BY <2>1, <2>3 DEF SplitsAt
<1> QED
  BY <1>1, <1>2

Spans(n) == (1 .. n) \X (1 .. n)

IsKeep(points, tolerance, n, keep) ==
    keep = [s \in Spans(n) |-> SpanKept(points, tolerance, keep, s)]

\* Round d of the recursion knows the spans up to a width of d.
KnownUpTo(points, tolerance, n, keep, d) ==
    \A a, b \in 1 .. n : b - a <= d => SpanKept(points, tolerance, keep, <<a, b>>) = keep[<<a, b>>]

AgreeUpTo(n, g, h, d) == \A a, b \in 1 .. n : b - a <= d => g[<<a, b>>] = h[<<a, b>>]

LEMMA SpanSame ==
    ASSUME NEW n \in Nat, NEW points, \A i \in 1 .. n : Placed(points[i]), NEW tolerance,
           NEW d \in Nat, NEW g, NEW h,
           AgreeUpTo(n, g, h, d),
           NEW a \in 1 .. n, NEW b \in 1 .. n, b - a <= d + 1
    PROVE  SpanKept(points, tolerance, g, <<a, b>>) = SpanKept(points, tolerance, h, <<a, b>>)
<1>1. CASE b - a < 2
  <2>1. SpanKept(points, tolerance, g, <<a, b>>) = {a, b}
    BY <1>1, ShortSpan
  <2>2. SpanKept(points, tolerance, h, <<a, b>>) = {a, b}
    BY <1>1, ShortSpan
  <2> QED
    BY <2>1, <2>2
<1>2. CASE b - a >= 2
  <2>1. PICK far \in a + 1 .. b - 1 : SplitsAt(points, tolerance, a, b, far)
    BY <1>2, SpanSplit
  <2>2. far \in 1 .. n /\ far - a <= d /\ b - far <= d
    BY <1>2
  <2>3. g[<<a, far>>] = h[<<a, far>>] /\ g[<<far, b>>] = h[<<far, b>>]
    BY <2>2 DEF AgreeUpTo
  <2> QED
    BY <2>1, <2>3 DEF SplitsAt
<1> QED
  BY <1>1, <1>2

LEMMA KnownFurther ==
    ASSUME NEW n \in Nat, NEW points, \A i \in 1 .. n : Placed(points[i]), NEW tolerance,
           NEW d \in Nat, NEW g, NEW h, KnownUpTo(points, tolerance, n, g, d),
           h = [s \in Spans(n) |-> SpanKept(points, tolerance, g, s)]
    PROVE  KnownUpTo(points, tolerance, n, h, d + 1)
<1> SUFFICES ASSUME NEW a \in 1 .. n, NEW b \in 1 .. n, b - a <= d + 1
             PROVE  SpanKept(points, tolerance, h, <<a, b>>) = h[<<a, b>>]
  BY DEF KnownUpTo
<1>1. ASSUME NEW x \in 1 .. n, NEW y \in 1 .. n
      PROVE  h[<<x, y>>] = SpanKept(points, tolerance, g, <<x, y>>)
  BY DEF Spans
<1>2. AgreeUpTo(n, h, g, d)
  BY <1>1 DEF KnownUpTo, AgreeUpTo
<1>3. SpanKept(points, tolerance, h, <<a, b>>) = SpanKept(points, tolerance, g, <<a, b>>)
  BY <1>2, SpanSame
<1> QED
  BY <1>1, <1>3

LEMMA KeepExists ==
    ASSUME NEW n \in Nat, NEW points, \A i \in 1 .. n : Placed(points[i]), NEW tolerance
    PROVE  \E keep \in [Spans(n) -> SUBSET (1 .. n)] : IsKeep(points, tolerance, n, keep)
<1> DEFINE V == [Spans(n) -> SUBSET (1 .. n)]
           base == [s \in Spans(n) |-> {s[1], s[2]}]
           step == [r \in (0 .. n) \X V |-> [s \in Spans(n) |-> SpanKept(points, tolerance, r[2], s)]]
<1>1. base \in V
  BY DEF Spans
<1>2. ASSUME NEW g \in V
      PROVE  [s \in Spans(n) |-> SpanKept(points, tolerance, g, s)] \in V
  <2>1. ASSUME NEW s \in Spans(n)
        PROVE  SpanKept(points, tolerance, g, s) \in SUBSET (1 .. n)
    <3>1. s = <<s[1], s[2]>> /\ s[1] \in 1 .. n /\ s[2] \in 1 .. n
      BY DEF Spans
    <3>2. SpanKept(points, tolerance, g, <<s[1], s[2]>>) \in SUBSET (1 .. n)
      BY <3>1, SpanType DEF Spans
    <3> QED
      BY <3>1, <3>2
  <2> QED
    BY <2>1
<1>3. step \in [(0 .. n) \X V -> V]
  <2>1. ASSUME NEW r \in (0 .. n) \X V PROVE step[r] \in V
    <3>1. r[2] \in V
      OBVIOUS
    <3> HIDE DEF V
    <3>2. step[r] = [s \in Spans(n) |-> SpanKept(points, tolerance, r[2], s)]
      OBVIOUS
    <3> QED
      BY <1>2, <3>1, <3>2
  <2> HIDE DEF V
  <2> QED
    BY <2>1
<1> HIDE DEF V
<1>4. PICK g \in [0 .. n -> V] : Recurses(g, 0, n, base, step)
  <2> HIDE DEF base, step
  <2>1. 0 <= n
    OBVIOUS
  <2> QED
    BY <1>1, <1>3, <2>1, Recursion
<1> DEFINE good == {d \in 0 .. n : KnownUpTo(points, tolerance, n, g[d], d)}
<1>5. 0 \in good
  <2>1. g[0] = base
    <3> HIDE DEF base, step
    <3>1. 0 \in 0 .. n
      OBVIOUS
    <3> QED
      BY <1>4, <3>1 DEF Recurses
  <2>2. ASSUME NEW a \in 1 .. n, NEW b \in 1 .. n, b - a <= 0
        PROVE  SpanKept(points, tolerance, base, <<a, b>>) = base[<<a, b>>]
    <3>1. base[<<a, b>>] = {a, b}
      BY DEF Spans
    <3>2. b - a < 2
      BY <2>2
    <3> HIDE DEF base
    <3> QED
      BY <3>1, <3>2, ShortSpan
  <2>3. KnownUpTo(points, tolerance, n, base, 0)
    <3> HIDE DEF base
    <3> QED
      BY <2>2 DEF KnownUpTo
  <2>4. 0 \in 0 .. n
    OBVIOUS
  <2> HIDE DEF base
  <2> QED
    BY <2>1, <2>3, <2>4
<1>6. ASSUME NEW d \in 0 .. n, d # 0, d - 1 \in good
      PROVE  d \in good
  <2>1. g[d - 1] \in V
    BY <1>4, <1>6
  <2>2. g[d] = step[<<d, g[d - 1]>>]
    <3> HIDE DEF step, base
    <3> QED
      BY <1>4, <1>6 DEF Recurses
  <2>3. g[d] = [s \in Spans(n) |-> SpanKept(points, tolerance, g[d - 1], s)]
    <3>1. <<d, g[d - 1]>> \in (0 .. n) \X V /\ <<d, g[d - 1]>>[2] = g[d - 1]
      BY <2>1
    <3> DEFINE r == <<d, g[d - 1]>>
    <3>2. step[r] = [s \in Spans(n) |-> SpanKept(points, tolerance, r[2], s)]
      BY <3>1
    <3> HIDE DEF step
    <3> QED
      BY <2>2, <3>1, <3>2
  <2>4. d - 1 \in Nat /\ KnownUpTo(points, tolerance, n, g[d - 1], d - 1) /\ (d - 1) + 1 = d
    BY <1>6
  <2>5. KnownUpTo(points, tolerance, n, g[d], (d - 1) + 1)
    <3> HIDE DEF good, step
    <3> DEFINE k == d - 1
    <3>1. k \in Nat /\ KnownUpTo(points, tolerance, n, g[k], k)
          /\ g[d] = [s \in Spans(n) |-> SpanKept(points, tolerance, g[k], s)]
      BY <2>3, <2>4
    <3> HIDE DEF k
    <3>2. KnownUpTo(points, tolerance, n, g[d], k + 1)
      BY <3>1, KnownFurther
    <3> QED
      BY <3>2 DEF k
  <2> QED
    BY <2>4, <2>5
<1>7. \A d \in 0 .. n : d \in good
  <2> HIDE DEF good
  <2> QED
    BY <1>5, <1>6, Induction
<1> DEFINE keep == g[n]
<1>8. keep \in V
  BY <1>4
<1>9. ASSUME NEW s \in Spans(n)
      PROVE  keep[s] = SpanKept(points, tolerance, keep, s)
  <2>1. s = <<s[1], s[2]>> /\ s[1] \in 1 .. n /\ s[2] \in 1 .. n
    BY DEF Spans
  <2>2. s[2] - s[1] <= n
    BY <2>1
  <2>3. n \in 0 .. n
    OBVIOUS
  <2>4. KnownUpTo(points, tolerance, n, keep, n)
    BY <1>7, <2>3
  <2> HIDE DEF keep, good
  <2>5. SpanKept(points, tolerance, keep, <<s[1], s[2]>>) = keep[<<s[1], s[2]>>]
    BY <2>1, <2>2, <2>4 DEF KnownUpTo
  <2> QED
    BY <2>1, <2>5
<1> HIDE DEF keep
<1>10. IsKeep(points, tolerance, n, keep)
  BY <1>8, <1>9 DEF IsKeep, V
<1> QED
  BY <1>8, <1>10 DEF V

\* i is between two neighbours of the line, within tolerance of them.
Bridged(points, tolerance, line, i) ==
    \E x, y \in line : /\ x < i /\ i < y /\ \A k \in line : k <= x \/ k >= y
                       /\ Edits!WithinTolerance(points[x], points[y], points[i], tolerance)

Bridges(points, tolerance, line, a, b) ==
    /\ line \subseteq a .. b /\ a \in line /\ b \in line
    /\ \A i \in a .. b : i \notin line => Bridged(points, tolerance, line, i)

LEMMA EndsBridge ==
    ASSUME NEW n \in Nat, NEW points, \A i \in 1 .. n : Placed(points[i]), NEW tolerance \in Nat,
           NEW a \in 1 .. n, NEW b \in 1 .. n, a <= b, NEW far \in a + 1 .. b - 1,
           SplitsAt(points, tolerance, a, b, far),
           Edits!WithinTolerance(points[a], points[b], points[far], tolerance)
    PROVE  Bridges(points, tolerance, {a, b}, a, b)
<1> DEFINE Off(i) == Edits!ScaledSquare(points[a], points[b], points[i])
           limit == tolerance * tolerance * Edits!Scale(points[a], points[b])
<1>1. limit \in Int
  <2>1. tolerance * tolerance \in Int /\ Edits!Scale(points[a], points[b]) \in Int
    BY SegmentSquareType, Products
  <2> DEFINE u == tolerance * tolerance
             v == Edits!Scale(points[a], points[b])
  <2> HIDE DEF u, v
  <2>2. u \in Int /\ v \in Int
    BY <2>1 DEF u, v
  <2>3. u * v \in Int
    BY <2>2, Products
  <2> QED
    BY <2>3 DEF u, v
<1>2. \A i \in a .. b : Off(i) \in Int
  BY ScaledSquareType
<1>3. Off(far) <= limit
  BY DEF Edits!WithinTolerance
<1>4. ASSUME NEW i \in a .. b, i \notin {a, b}
      PROVE  Bridged(points, tolerance, {a, b}, i)
  <2>1. i \in a + 1 .. b - 1 /\ far \in a .. b
    BY <1>4
  <2>2. Off(i) <= Off(far)
    BY <2>1 DEF SplitsAt
  <2>3. Off(i) \in Int /\ Off(far) \in Int
    BY <1>2, <2>1
  <2> HIDE DEF limit, Off
  <2>4. Off(i) <= limit
    BY <1>1, <1>3, <2>2, <2>3
  <2>5. Edits!WithinTolerance(points[a], points[b], points[i], tolerance)
    BY <2>4 DEF limit, Off, Edits!WithinTolerance
  <2> QED
    BY <2>1, <2>5 DEF Bridged
<1> QED
  BY <1>4 DEF Bridges

LEMMA BridgesMeet ==
    ASSUME NEW points, NEW tolerance, NEW a \in Int, NEW far \in Int, NEW b \in Int, a <= far, far <= b,
           NEW left, Bridges(points, tolerance, left, a, far),
           NEW right, Bridges(points, tolerance, right, far, b)
    PROVE  Bridges(points, tolerance, left \union right, a, b)
<1> DEFINE line == left \union right
<1>1. line \subseteq a .. b /\ a \in line /\ b \in line
  BY DEF Bridges
<1>2. ASSUME NEW i \in a .. b, i \notin line
      PROVE  Bridged(points, tolerance, line, i)
  <2>1. CASE i <= far
    <3>1. Bridged(points, tolerance, left, i)
      BY <1>2, <2>1 DEF Bridges
    <3>2. PICK x, y \in left : /\ x < i /\ i < y /\ \A k \in left : k <= x \/ k >= y
                               /\ Edits!WithinTolerance(points[x], points[y], points[i], tolerance)
      BY <3>1 DEF Bridged
    <3>3. ASSUME NEW k \in right PROVE k <= x \/ k >= y
      BY DEF Bridges
    <3>4. x \in line /\ y \in line
      OBVIOUS
    <3>5. \A k \in line : k <= x \/ k >= y
      BY <3>2, <3>3
    <3> HIDE DEF line
    <3> QED
      BY <3>2, <3>4, <3>5 DEF Bridged
  <2>2. CASE i >= far
    <3>1. Bridged(points, tolerance, right, i)
      BY <1>2, <2>2 DEF Bridges
    <3>2. PICK x, y \in right : /\ x < i /\ i < y /\ \A k \in right : k <= x \/ k >= y
                                /\ Edits!WithinTolerance(points[x], points[y], points[i], tolerance)
      BY <3>1 DEF Bridged
    <3>3. ASSUME NEW k \in left PROVE k <= x \/ k >= y
      BY DEF Bridges
    <3>4. x \in line /\ y \in line
      OBVIOUS
    <3>5. \A k \in line : k <= x \/ k >= y
      BY <3>2, <3>3
    <3> HIDE DEF line
    <3> QED
      BY <3>2, <3>4, <3>5 DEF Bridged
  <2> QED
    BY <2>1, <2>2
<1> QED
  BY <1>1, <1>2 DEF Bridges

BridgedUpTo(points, tolerance, n, keep, d) ==
    \A a, b \in 1 .. n : a <= b /\ b - a <= d => Bridges(points, tolerance, keep[<<a, b>>], a, b)

LEMMA WiderSpans ==
    ASSUME NEW n \in Nat, NEW points, \A i \in 1 .. n : Placed(points[i]), NEW tolerance \in Nat,
           NEW keep, IsKeep(points, tolerance, n, keep), NEW d \in Nat,
           d # 0 => BridgedUpTo(points, tolerance, n, keep, d - 1)
    PROVE  BridgedUpTo(points, tolerance, n, keep, d)
<1> SUFFICES ASSUME NEW a \in 1 .. n, NEW b \in 1 .. n, a <= b, b - a <= d
             PROVE  Bridges(points, tolerance, keep[<<a, b>>], a, b)
  BY DEF BridgedUpTo
<1>1. keep[<<a, b>>] = SpanKept(points, tolerance, keep, <<a, b>>)
  BY DEF IsKeep, Spans
<1>2. CASE b - a < 2
  <2>1. keep[<<a, b>>] = {a, b}
    BY <1>1, <1>2, ShortSpan
  <2>2. Bridges(points, tolerance, {a, b}, a, b)
    BY <1>2 DEF Bridges
  <2> QED
    BY <2>1, <2>2
<1>3. CASE b - a >= 2
  <2>1. PICK far \in a + 1 .. b - 1 : SplitsAt(points, tolerance, a, b, far)
    BY <1>3, SpanSplit
  <2>2. CASE Edits!WithinTolerance(points[a], points[b], points[far], tolerance)
    <3>1. keep[<<a, b>>] = {a, b}
      BY <1>1, <2>1, <2>2 DEF SplitsAt
    <3>2. Bridges(points, tolerance, {a, b}, a, b)
      BY <2>1, <2>2, EndsBridge
    <3> QED
      BY <3>1, <3>2
  <2>3. CASE ~Edits!WithinTolerance(points[a], points[b], points[far], tolerance)
    <3>1. keep[<<a, b>>] = keep[<<a, far>>] \union keep[<<far, b>>]
      BY <1>1, <2>1, <2>3 DEF SplitsAt
    <3>2. far \in 1 .. n /\ a <= far /\ far <= b /\ far - a <= d - 1 /\ b - far <= d - 1 /\ d # 0
      BY <1>3
    <3>3. Bridges(points, tolerance, keep[<<a, far>>], a, far)
      BY <3>2 DEF BridgedUpTo
    <3>4. Bridges(points, tolerance, keep[<<far, b>>], far, b)
      BY <3>2 DEF BridgedUpTo
    <3> DEFINE left == keep[<<a, far>>]
               right == keep[<<far, b>>]
    <3> HIDE DEF left, right
    <3>5. Bridges(points, tolerance, left \union right, a, b)
      BY <3>2, <3>3, <3>4, BridgesMeet DEF left, right
    <3> QED
      BY <3>1, <3>5 DEF left, right
  <2> QED
    BY <2>2, <2>3
<1> QED
  BY <1>2, <1>3

LEMMA KeptLine ==
    ASSUME NEW n \in Nat, NEW points, \A i \in 1 .. n : Placed(points[i]), NEW tolerance \in Nat,
           NEW keep, IsKeep(points, tolerance, n, keep), NEW a \in 1 .. n, NEW b \in 1 .. n, a <= b
    PROVE  Bridges(points, tolerance, keep[<<a, b>>], a, b)
<1> DEFINE good == {d \in 0 .. n : BridgedUpTo(points, tolerance, n, keep, d)}
<1>1. 0 \in good
  <2>1. BridgedUpTo(points, tolerance, n, keep, 0)
    BY WiderSpans
  <2> QED
    BY <2>1
<1>2. ASSUME NEW d \in 0 .. n, d # 0, d - 1 \in good PROVE d \in good
  <2>1. BridgedUpTo(points, tolerance, n, keep, d)
    BY <1>2, WiderSpans
  <2> QED
    BY <2>1
<1>3. n \in 0 .. n
  OBVIOUS
<1>4. n \in good
  <2> HIDE DEF good
  <2> QED
    BY <1>1, <1>2, <1>3, Induction
<1>5. BridgedUpTo(points, tolerance, n, keep, n)
  BY <1>4
<1> QED
  BY <1>5 DEF BridgedUpTo

LEMMA TheMax ==
    ASSUME NEW S, S \subseteq Int, NEW x \in S, \A k \in S : k <= x
    PROVE  Edits!Max(S) = x
<1>1. \E m \in S : \A k \in S : m >= k
  OBVIOUS
<1> DEFINE m == Edits!Max(S)
<1>2. m \in S /\ \A k \in S : m >= k
  BY <1>1 DEF Edits!Max
<1> HIDE DEF m
<1>3. m >= x /\ x >= m
  BY <1>2
<1>4. m \in Int /\ x \in Int
  BY <1>2
<1>5. m = x
  BY <1>3, <1>4
<1> QED
  BY <1>5 DEF m

LEMMA TheMin ==
    ASSUME NEW S, S \subseteq Int, NEW x \in S, \A k \in S : x <= k
    PROVE  Edits!Min(S) = x
<1>1. \E m \in S : \A k \in S : m <= k
  OBVIOUS
<1> DEFINE m == Edits!Min(S)
<1>2. m \in S /\ \A k \in S : m <= k
  BY <1>1 DEF Edits!Min
<1> HIDE DEF m
<1>3. m <= x /\ x <= m
  BY <1>2
<1>4. m \in Int /\ x \in Int
  BY <1>2
<1>5. m = x
  BY <1>3, <1>4
<1> QED
  BY <1>5 DEF m

LEMMA Simplified ==
    ASSUME NEW points \in Seq(Points), Len(points) >= 2, NEW tolerance \in Nat
    PROVE  Edits!StaysOnLine(points, Edits!Kept(points, tolerance), tolerance)
<1> DEFINE n == Len(points)
           Fixed(f) == IsKeep(points, tolerance, n, f)
           keep == CHOOSE f : Fixed(f)
           line == keep[<<1, n>>]
<1>1. n \in Nat /\ DOMAIN points = 1 .. n /\ 1 \in 1 .. n /\ n \in 1 .. n /\ 1 <= n
  OBVIOUS
<1>2. \A i \in 1 .. n : Placed(points[i])
  <2>1. \A i \in 1 .. n : points[i] \in Points
    OBVIOUS
  <2> QED
    BY <2>1 DEF Points, Placed
<1>3. Fixed(keep)
  <2> HIDE DEF n
  <2>1. \E f : Fixed(f)
    BY <1>1, <1>2, KeepExists
  <2> HIDE DEF Fixed
  <2> QED
    BY <2>1
<1>4. Edits!Kept(points, tolerance) = IF n < 3 \/ tolerance <= 0 THEN DOMAIN points ELSE line
  BY DEF Edits!Kept, IsKeep, SpanKept, Spans
<1> HIDE DEF keep
<1>5. Bridges(points, tolerance, line, 1, n)
  <2> HIDE DEF n
  <2> QED
    BY <1>1, <1>2, <1>3, KeptLine
<1> HIDE DEF line, n
<1>6. ASSUME NEW i \in 1 .. n, i \notin line
      PROVE  LET before == Edits!Max({k \in line : k < i})
                 after == Edits!Min({k \in line : k > i})
             IN Edits!WithinTolerance(points[before], points[after], points[i], tolerance)
  <2>1. PICK x, y \in line : /\ x < i /\ i < y /\ \A k \in line : k <= x \/ k >= y
                             /\ Edits!WithinTolerance(points[x], points[y], points[i], tolerance)
    BY <1>5, <1>6 DEF Bridges, Bridged
  <2>2. line \subseteq Int /\ i \in Int
    BY <1>1, <1>5 DEF Bridges
  <2>3. Edits!Max({k \in line : k < i}) = x
    <3> DEFINE S == {k \in line : k < i}
    <3>1. S \subseteq Int /\ x \in S
      BY <2>1, <2>2
    <3>2. ASSUME NEW k \in S PROVE k <= x
      <4>1. k \in line /\ k \in Int /\ x \in Int /\ y \in Int /\ x < i /\ i < y /\ k < i
        BY <2>1, <2>2
      <4>2. k <= x \/ k >= y
        BY <2>1, <4>1
      <4> QED
        BY <2>2, <4>1, <4>2
    <3> HIDE DEF S
    <3>3. Edits!Max(S) = x
      BY <3>1, <3>2, TheMax
    <3> QED
      BY <3>3 DEF S
  <2>4. Edits!Min({k \in line : k > i}) = y
    <3> DEFINE S == {k \in line : k > i}
    <3>1. S \subseteq Int /\ y \in S
      BY <2>1, <2>2
    <3>2. ASSUME NEW k \in S PROVE y <= k
      <4>1. k \in line /\ k \in Int /\ x \in Int /\ y \in Int /\ x < i /\ i < y /\ k > i
        BY <2>1, <2>2
      <4>2. k <= x \/ k >= y
        BY <2>1, <4>1
      <4> QED
        BY <2>2, <4>1, <4>2
    <3> HIDE DEF S
    <3>3. Edits!Min(S) = y
      BY <3>1, <3>2, TheMin
    <3> QED
      BY <3>3 DEF S
  <2> QED
    BY <2>1, <2>3, <2>4
<1> QED
  BY <1>1, <1>4, <1>6 DEF Edits!StaysOnLine

-----------------------------------------------------------------------------
(* Smoothing (smoothElevations of geo.ts): the sums over two windows that meet    *)
(* add up, the window around a point holds what is between its ends, its ends    *)
(* are past nothing that a later point needs, and so it slides to the points     *)
(* that are near the next one.                                                  *)
\* What point i adds to the sum over some points.
Adds(elevations, points, i) ==
    IF i \in points /\ elevations[i] # {} THEN CHOOSE e \in elevations[i] : TRUE ELSE 0

IsSum(f, elevations, points) ==
    \A i \in 0 .. Len(elevations) : f[i] = IF i = 0 THEN 0 ELSE f[i - 1] + Adds(elevations, points, i)

LEMMA AddsType ==
    ASSUME NEW elevations \in Seq(SUBSET Int), NEW points, NEW i \in 1 .. Len(elevations)
    PROVE  Adds(elevations, points, i) \in Int
<1>1. elevations[i] \in SUBSET Int
  OBVIOUS
<1> QED
  BY <1>1 DEF Adds

LEMMA SumFound ==
    ASSUME NEW elevations \in Seq(SUBSET Int), NEW points
    PROVE  \E f \in [0 .. Len(elevations) -> Int] :
              IsSum(f, elevations, points) /\ Edits!SumOver(elevations, points) = f[Len(elevations)]
<1> DEFINE n == Len(elevations)
           Fixed(f) == f = [i \in 0 .. n |-> IF i = 0 THEN 0 ELSE f[i - 1] + Adds(elevations, points, i)]
           sum == CHOOSE f : Fixed(f)
           step == [s \in (0 .. n) \X Int |-> IF s[1] = 0 THEN 0 ELSE s[2] + Adds(elevations, points, s[1])]
<1>1. n \in Nat /\ 0 \in Nat /\ 0 <= n /\ 0 \in Int
  OBVIOUS
<1>2. \E f : Fixed(f)
  <2>1. step \in [(0 .. n) \X Int -> Int]
    <3>1. ASSUME NEW s \in (0 .. n) \X Int PROVE step[s] \in Int
      <4>1. s[1] # 0 => Adds(elevations, points, s[1]) \in Int
        BY AddsType
      <4> QED
        BY <4>1
    <3> QED
      BY <3>1
  <2>2. PICK f \in [0 .. n -> Int] : Recurses(f, 0, n, 0, step)
    <3> HIDE DEF step, n
    <3> QED
      BY <1>1, <2>1, Recursion
  <2>3. ASSUME NEW i \in 0 .. n PROVE f[i] = IF i = 0 THEN 0 ELSE f[i - 1] + Adds(elevations, points, i)
    <3>1. i # 0 => i - 1 \in 0 .. n
      BY <1>1
    <3>2. i # 0 => <<i, f[i - 1]>> \in (0 .. n) \X Int
      BY <2>2, <3>1
    <3> QED
      BY <2>2, <3>1, <3>2 DEF Recurses
  <2>4. Fixed(f)
    BY <2>3
  <2> HIDE DEF Fixed
  <2> QED
    BY <2>4
<1>3. Fixed(sum)
  BY <1>2
<1>4. Edits!SumOver(elevations, points) = sum[n]
  BY DEF Edits!SumOver, Adds
<1> HIDE DEF sum
<1> DEFINE good == {i \in 0 .. n : sum[i] \in Int}
<1>5. 0 \in good
  BY <1>3
<1>6. ASSUME NEW i \in 0 .. n, i # 0, i - 1 \in good PROVE i \in good
  <2>1. sum[i] = sum[i - 1] + Adds(elevations, points, i)
    BY <1>3, <1>6
  <2>2. i \in 1 .. n
    BY <1>6
  <2>3. sum[i - 1] \in Int /\ Adds(elevations, points, i) \in Int
    BY <1>6, <2>2, AddsType
  <2> QED
    BY <2>1, <2>3
<1>7. \A i \in 0 .. n : i \in good
  <2> HIDE DEF good, n
  <2> QED
    BY <1>1, <1>5, <1>6, Induction
<1>8. sum \in [0 .. n -> Int]
  <2>1. \A i \in 0 .. n : sum[i] \in Int
    BY <1>7
  <2> QED
    BY <1>3, <2>1
<1>9. IsSum(sum, elevations, points)
  BY <1>3 DEF IsSum
<1> QED
  BY <1>4, <1>8, <1>9

LEMMA SumType ==
    ASSUME NEW elevations \in Seq(SUBSET Int), NEW points
    PROVE  Edits!SumOver(elevations, points) \in Int
<1>1. PICK f \in [0 .. Len(elevations) -> Int] : Edits!SumOver(elevations, points) = f[Len(elevations)]
  BY SumFound
<1>2. Len(elevations) \in 0 .. Len(elevations)
  OBVIOUS
<1> QED
  BY <1>1, <1>2

LEMMA SumsAddUp ==
    ASSUME NEW elevations \in Seq(SUBSET Int), NEW P, NEW Q, \A i \in P : i \notin Q
    PROVE  Edits!SumOver(elevations, P \union Q) = Edits!SumOver(elevations, P) + Edits!SumOver(elevations, Q)
<1> DEFINE n == Len(elevations)
<1>1. n \in Nat /\ 0 \in 0 .. n /\ n \in 0 .. n
  OBVIOUS
<1>2. PICK f \in [0 .. n -> Int] : IsSum(f, elevations, P) /\ Edits!SumOver(elevations, P) = f[n]
  BY SumFound
<1>3. PICK g \in [0 .. n -> Int] : IsSum(g, elevations, Q) /\ Edits!SumOver(elevations, Q) = g[n]
  BY SumFound
<1>4. PICK h \in [0 .. n -> Int] : IsSum(h, elevations, P \union Q)
                                   /\ Edits!SumOver(elevations, P \union Q) = h[n]
  BY SumFound
<1> DEFINE good == {i \in 0 .. n : h[i] = f[i] + g[i]}
<1>5. 0 \in good
  BY <1>1, <1>2, <1>3, <1>4 DEF IsSum
<1>6. ASSUME NEW i \in 0 .. n, i # 0, i - 1 \in good PROVE i \in good
  <2>1. i \in 1 .. n /\ i - 1 \in 0 .. n
    BY <1>6
  <2>2. /\ f[i] = f[i - 1] + Adds(elevations, P, i) /\ g[i] = g[i - 1] + Adds(elevations, Q, i)
        /\ h[i] = h[i - 1] + Adds(elevations, P \union Q, i)
    BY <1>2, <1>3, <1>4, <1>6 DEF IsSum
  <2>3. Adds(elevations, P, i) \in Int /\ Adds(elevations, Q, i) \in Int
    BY <2>1, AddsType
  <2>4. Adds(elevations, P \union Q, i) = Adds(elevations, P, i) + Adds(elevations, Q, i)
    <3>1. CASE i \in P
      <4>1. i \notin Q /\ i \in P \union Q
        BY <3>1
      <4>2. Adds(elevations, Q, i) = 0 /\ Adds(elevations, P \union Q, i) = Adds(elevations, P, i)
        BY <3>1, <4>1 DEF Adds
      <4> QED
        BY <2>3, <4>2
    <3>2. CASE i \notin P
      <4>1. i \in Q <=> i \in P \union Q
        BY <3>2
      <4>2. Adds(elevations, P, i) = 0 /\ Adds(elevations, P \union Q, i) = Adds(elevations, Q, i)
        BY <3>2, <4>1 DEF Adds
      <4> QED
        BY <2>3, <4>2
    <3> QED
      BY <3>1, <3>2
  <2>5. h[i - 1] = f[i - 1] + g[i - 1] /\ f[i - 1] \in Int /\ g[i - 1] \in Int
    BY <1>6, <2>1
  <2> QED
    BY <2>2, <2>3, <2>4, <2>5
<1>7. n \in good
  <2>1. \A i \in 0 .. n : i \in good
    <3> HIDE DEF good, n
    <3>1. 0 \in Nat
      OBVIOUS
    <3> QED
      BY <1>1, <1>5, <1>6, <3>1, Induction
  <2> QED
    BY <1>1, <2>1
<1> QED
  BY <1>2, <1>3, <1>4, <1>7

\* The points of a window, summed up and counted.
KnownIn(elevations, points) == Cardinality({j \in points : elevations[j] # {}})

LEMMA CountsAddUp ==
    ASSUME NEW elevations, NEW P, IsFiniteSet(P), NEW Q, IsFiniteSet(Q), \A i \in P : i \notin Q
    PROVE  /\ KnownIn(elevations, P \union Q) = KnownIn(elevations, P) + KnownIn(elevations, Q)
           /\ KnownIn(elevations, P) \in Nat /\ KnownIn(elevations, Q) \in Nat
<1> DEFINE p == {j \in P : elevations[j] # {}}
           q == {j \in Q : elevations[j] # {}}
<1>1. IsFiniteSet(p) /\ IsFiniteSet(q)
  BY FS_Subset
<1>2. p \cap q = {} /\ {j \in P \union Q : elevations[j] # {}} = p \union q
  OBVIOUS
<1>k. /\ KnownIn(elevations, P) = Cardinality(p) /\ KnownIn(elevations, Q) = Cardinality(q)
      /\ KnownIn(elevations, P \union Q) = Cardinality(p \union q)
  BY <1>2 DEF KnownIn
<1> HIDE DEF p, q
<1>3. Cardinality(p \union q) = Cardinality(p) + Cardinality(q) - Cardinality(p \cap q)
  BY <1>1, FS_Union
<1>4. Cardinality({}) = 0 /\ Cardinality(p) \in Nat /\ Cardinality(q) \in Nat
  BY <1>1, FS_EmptySet, FS_CardinalityType
<1> QED
  <2>1. Cardinality(p \cap q) = 0
    BY <1>2, <1>4
  <2>2. Cardinality(p \union q) = Cardinality(p) + Cardinality(q)
    BY <1>3, <1>4, <2>1
  <2> QED
    BY <1>4, <1>k, <2>2

LEMMA WindowsAddUp ==
    ASSUME NEW elevations \in Seq(SUBSET Int), NEW a \in Int, NEW b \in Int, NEW c \in Int, a <= b, b <= c
    PROVE  /\ Edits!SumOver(elevations, a .. c - 1) =
                 Edits!SumOver(elevations, a .. b - 1) + Edits!SumOver(elevations, b .. c - 1)
           /\ KnownIn(elevations, a .. c - 1) = KnownIn(elevations, a .. b - 1) + KnownIn(elevations, b .. c - 1)
<1> DEFINE P == a .. b - 1
           Q == b .. c - 1
<1>1. P \union Q = a .. c - 1 /\ \A i \in P : i \notin Q
  OBVIOUS
<1>2. IsFiniteSet(P) /\ IsFiniteSet(Q)
  BY FS_Interval
<1> HIDE DEF P, Q
<1>3. /\ Edits!SumOver(elevations, P \union Q) = Edits!SumOver(elevations, P) + Edits!SumOver(elevations, Q)
      /\ KnownIn(elevations, P \union Q) = KnownIn(elevations, P) + KnownIn(elevations, Q)
  BY <1>1, <1>2, SumsAddUp, CountsAddUp
<1> QED
  BY <1>1, <1>3 DEF P, Q

LEMMA WindowType ==
    ASSUME NEW elevations \in Seq(SUBSET Int), NEW a \in Int, NEW b \in Int
    PROVE  Edits!SumOver(elevations, a .. b) \in Int /\ KnownIn(elevations, a .. b) \in Nat
<1>1. IsFiniteSet(a .. b)
  BY FS_Interval
<1>2. KnownIn(elevations, a .. b) \in Nat
  <2> DEFINE P == a .. b
  <2> HIDE DEF P
  <2>1. KnownIn(elevations, P) \in Nat
    <3>1. IsFiniteSet({j \in P : elevations[j] # {}})
      BY <1>1, FS_Subset DEF P
    <3> QED
      BY <3>1, FS_CardinalityType DEF KnownIn
  <2> QED
    BY <2>1 DEF P
<1> QED
  BY <1>2, SumType

LEMMA WayBetween ==
    ASSUME NEW p, p.lat \in Int, p.lon \in Int, NEW q, q.lat \in Int, q.lon \in Int
    PROVE  Edits!HaversineDistance(p, q) \in Nat
<1> DEFINE a == Edits!AbsDiff(p.lat, q.lat)
           b == Edits!AbsDiff(p.lon, q.lon)
           round == 2 * Half
           e == Edits!AbsDiff(b, round)
           d == Edits!LonDiff(p.lon, q.lon)
<1>1. \A x, y \in Int : Edits!AbsDiff(x, y) \in Nat
  BY DEF Edits!AbsDiff
<1>2. a \in Nat /\ b \in Nat
  BY <1>1
<1>3. e \in Nat
  <2>1. round \in Int
    BY LibraryAssumption
  <2>2. b \in Int
    BY <1>2
  <2> HIDE DEF b, round
  <2> QED
    BY <1>1, <2>1, <2>2, Zenon
<1>4. d = Edits!Min({b, e}) /\ Edits!HaversineDistance(p, q) = Edits!Max({a, d})
  BY Zenon DEF Edits!HaversineDistance, Edits!LonDiff
<1> HIDE DEF a, b, round, e, d
<1>5. d \in Nat
  BY <1>2, <1>3, <1>4, SameExtremes, LesserOfTwo
<1>6. Edits!Max({a, d}) = IF a <= d THEN d ELSE a
  BY <1>2, <1>5, SameExtremes, LesserOfTwo
<1> QED
  BY <1>2, <1>4, <1>5, <1>6

Grows(cum, n) == \A i, j \in 1 .. n : i <= j => cum[i] <= cum[j]

LEMMA WayOfPoints ==
    ASSUME NEW points \in Seq(Points), points # <<>>
    PROVE  LET cum == Edits!CumulativeKm(points)
           IN cum \in [1 .. Len(points) -> Nat] /\ Grows(cum, Len(points))
<1> DEFINE n == Len(points)
           Dist(i) == Edits!HaversineDistance(points[i - 1], points[i])
           Fixed(f) == f = [i \in 1 .. n |-> IF i = 1 THEN 0 ELSE f[i - 1] + Dist(i)]
           cum == CHOOSE f : Fixed(f)
           step == [s \in (1 .. n) \X Nat |-> IF s[1] = 1 THEN 0 ELSE s[2] + Dist(s[1])]
<1>1. n \in Nat /\ 1 \in Nat /\ 1 <= n /\ 0 \in Nat /\ 1 \in 1 .. n
  OBVIOUS
<1>2. \A i \in 1 .. n : i # 1 => Dist(i) \in Nat
  <2> SUFFICES ASSUME NEW i \in 1 .. n, i # 1 PROVE Dist(i) \in Nat
    OBVIOUS
  <2>1. points[i - 1] \in Points /\ points[i] \in Points
    OBVIOUS
  <2> QED
    BY <2>1, WayBetween DEF Points
<1>3. \E f : Fixed(f)
  <2>1. step \in [(1 .. n) \X Nat -> Nat]
    <3>1. ASSUME NEW s \in (1 .. n) \X Nat PROVE step[s] \in Nat
      <4>1. s[1] # 1 => Dist(s[1]) \in Nat
        BY <1>2
      <4> HIDE DEF Dist
      <4> QED
        BY <4>1
    <3> HIDE DEF Dist
    <3> QED
      BY <3>1
  <2>2. PICK f \in [1 .. n -> Nat] : Recurses(f, 1, n, 0, step)
    <3> HIDE DEF step, n
    <3> QED
      BY <1>1, <2>1, Recursion
  <2> HIDE DEF Dist
  <2>3. ASSUME NEW i \in 1 .. n PROVE f[i] = IF i = 1 THEN 0 ELSE f[i - 1] + Dist(i)
    <3>1. i # 1 => i - 1 \in 1 .. n
      BY <1>1
    <3>2. i # 1 => <<i, f[i - 1]>> \in (1 .. n) \X Nat
      BY <2>2, <3>1
    <3> QED
      BY <2>2, <3>1, <3>2 DEF Recurses
  <2>4. Fixed(f)
    BY <2>3
  <2> HIDE DEF Fixed
  <2> QED
    BY <2>4
<1>4. Fixed(cum)
  BY <1>3
<1>5. Edits!CumulativeKm(points) = cum
  BY DEF Edits!CumulativeKm
<1> HIDE DEF cum, Dist
<1> DEFINE good == {i \in 1 .. n : cum[i] \in Nat}
<1>6. 1 \in good
  BY <1>1, <1>4
<1>7. ASSUME NEW i \in 1 .. n, i # 1, i - 1 \in good PROVE i \in good
  BY <1>2, <1>4, <1>7, SMTT(30)
<1>8. \A i \in 1 .. n : i \in good
  <2> HIDE DEF good, n
  <2> QED
    BY <1>1, <1>6, <1>7, Induction
<1>9. cum \in [1 .. n -> Nat]
  <2>1. \A i \in 1 .. n : cum[i] \in Nat
    BY <1>8
  <2> QED
    BY <1>4, <2>1
<1>10. ASSUME NEW i \in 1 .. n, i # 1 PROVE cum[i - 1] <= cum[i]
  <2>1. cum[i] = cum[i - 1] + Dist(i)
    BY <1>4, <1>10
  <2>2. i - 1 \in 1 .. n /\ Dist(i) \in Nat
    BY <1>2, <1>10
  <2> QED
    BY <1>9, <2>1, <2>2
<1>11. ASSUME NEW i \in 1 .. n, NEW j \in 1 .. n, i <= j PROVE cum[i] <= cum[j]
  <2> DEFINE up == {k \in i .. n : cum[i] <= cum[k]}
  <2>1. i \in up
    BY <1>9
  <2>2. ASSUME NEW k \in i .. n, k # i, k - 1 \in up PROVE k \in up
    <3>1. k \in 1 .. n /\ k # 1 /\ k - 1 \in 1 .. n
      BY <2>2
    <3>2. cum[k - 1] <= cum[k] /\ cum[i] <= cum[k - 1]
      BY <1>10, <2>2, <3>1
    <3>3. cum[i] \in Nat /\ cum[k - 1] \in Nat /\ cum[k] \in Nat
      BY <1>9, <3>1
    <3> QED
      BY <3>2, <3>3
  <2>3. \A k \in i .. n : k \in up
    <3>1. i \in Nat
      OBVIOUS
    <3> HIDE DEF up, n
    <3> QED
      BY <1>1, <2>1, <2>2, <3>1, Induction
  <2>4. j \in i .. n
    BY <1>11
  <2> QED
    BY <2>3, <2>4
<1> QED
  BY <1>5, <1>9, <1>11 DEF Grows

Windows == [lo : Int, hi : Int, sum : Int, count : Int]

\* What the window holds is what is between its ends.
Holds(elevations, w) ==
    /\ w.lo \in 1 .. w.hi /\ w.hi \in 1 .. Len(elevations) + 1
    /\ w.sum = Edits!SumOver(elevations, w.lo .. w.hi - 1) /\ w.count = KnownIn(elevations, w.lo .. w.hi - 1)

\* No end is past where it has to be for point i.
NotPast(cum, n, half, w, i) ==
    \A k \in 1 .. n : (k < w.hi => cum[k] <= cum[i] + half) /\ (k < w.lo => cum[k] < cum[i] - half)

\* The ends are where they have to be.
Around(cum, n, half, w, i) ==
    \A k \in 1 .. n : (k < w.hi <=> cum[k] <= cum[i] + half) /\ (k < w.lo <=> cum[k] < cum[i] - half)

LEMMA EarliestBeyond ==
    ASSUME NEW a \in Int, NEW b \in Int, a <= b + 1, NEW P
    PROVE  LET m == Edits!Min({k \in a .. b : k \in P} \union {b + 1})
           IN /\ m \in a .. b + 1 /\ (m <= b => m \in P)
              /\ \A k \in a .. b : k < m => k \notin P
<1> DEFINE S == {k \in a .. b : k \in P} \union {b + 1}
           m == Edits!Min(S)
<1>1. S \subseteq a .. b + 1 /\ S # {} /\ S \subseteq Int
  OBVIOUS
<1>2. IsFiniteSet(S)
  <2>1. IsFiniteSet(a .. b + 1)
    BY FS_Interval
  <2> HIDE DEF S
  <2> QED
    BY <1>1, <2>1, FS_Subset
<1>3. m \in S /\ \A k \in S : m <= k
  <2> HIDE DEF S
  <2> QED
    BY <1>1, <1>2, SameExtremes, MinOf
<1> HIDE DEF m
<1>4. m \in a .. b + 1 /\ (m <= b => m \in P)
  BY <1>3
<1>5. ASSUME NEW k \in a .. b, k < m PROVE k \notin P
  BY <1>3, <1>5
<1> QED
  BY <1>4, <1>5 DEF m

LEMMA TakenOff ==
    ASSUME NEW a \in Int, NEW on \in Int, NEW off \in Int, NEW kept \in Int, NEW whole,
           whole = a + on, whole = off + kept
    PROVE  a + on - off = kept
OBVIOUS

LEMMA Slid ==
    ASSUME NEW elevations \in Seq(SUBSET Int), NEW cum \in [1 .. Len(elevations) -> Int],
           Grows(cum, Len(elevations)), NEW half \in Nat, NEW i \in 1 .. Len(elevations),
           NEW w \in Windows, Holds(elevations, w), NotPast(cum, Len(elevations), half, w, i)
    PROVE  LET v == Edits!Slide(elevations, cum, half, w, i)
           IN v \in Windows /\ Holds(elevations, v) /\ Around(cum, Len(elevations), half, v, i)
<1> DEFINE n == Len(elevations)
           beyond == {k \in 1 .. n : cum[k] > cum[i] + half}
           within == {k \in 1 .. n : cum[k] >= cum[i] - half}
           hi == Edits!Min({k \in w.hi .. n : cum[k] > cum[i] + half} \union {n + 1})
           lo == Edits!Min({k \in w.lo .. hi - 1 : cum[k] >= cum[i] - half} \union {hi})
           sum == w.sum + Edits!SumOver(elevations, w.hi .. hi - 1) - Edits!SumOver(elevations, w.lo .. lo - 1)
           count == w.count + KnownIn(elevations, w.hi .. hi - 1) - KnownIn(elevations, w.lo .. lo - 1)
           v == [lo |-> lo, hi |-> hi, sum |-> sum, count |-> count]
<1>1. Edits!Slide(elevations, cum, half, w, i) = v
  <2>1. \A S : Edits!Cardinality(S) = Cardinality(S)
    BY DEF Edits!Cardinality, Cardinality
  <2> QED
    BY <2>1 DEF Edits!Slide, KnownIn
<1>2. n \in Nat /\ cum[i] \in Int /\ w.lo \in Int /\ w.hi \in Int /\ 1 <= w.lo /\ w.lo <= w.hi /\ w.hi <= n + 1
  BY DEF Holds
<1>3. /\ hi \in w.hi .. n + 1 /\ (hi <= n => hi \in beyond)
      /\ \A k \in w.hi .. n : k < hi => k \notin beyond
  <2> DEFINE a == w.hi
             S == {k \in a .. n : k \in beyond} \union {n + 1}
             m == Edits!Min(S)
  <2>1. S = {k \in w.hi .. n : cum[k] > cum[i] + half} \union {n + 1}
    BY <1>2
  <2>2. /\ m \in a .. n + 1 /\ (m <= n => m \in beyond)
        /\ \A k \in a .. n : k < m => k \notin beyond
    <3>1. a \in Int /\ a <= n + 1 /\ n \in Int
      BY <1>2
    <3> HIDE DEF a, n, beyond
    <3> QED
      BY <3>1, EarliestBeyond
  <2>3. m = hi
    BY <2>1
  <2> HIDE DEF m, hi
  <2> QED
    BY <2>2, <2>3
<1> HIDE DEF hi
<1>4. /\ lo \in w.lo .. hi /\ (lo <= hi - 1 => lo \in within)
      /\ \A k \in w.lo .. hi - 1 : k < lo => k \notin within
  <2> DEFINE b == hi - 1
             a == w.lo
             S == {k \in a .. b : k \in within} \union {b + 1}
             m == Edits!Min(S)
  <2>1. b + 1 = hi /\ hi \in Int /\ hi <= n + 1 /\ w.hi <= hi
    BY <1>2, <1>3
  <2>2. S = {k \in w.lo .. hi - 1 : cum[k] >= cum[i] - half} \union {hi}
    BY <1>2, <2>1
  <2>3. /\ m \in a .. b + 1 /\ (m <= b => m \in within)
        /\ \A k \in a .. b : k < m => k \notin within
    <3>1. a \in Int /\ a <= b + 1 /\ b \in Int
      BY <1>2, <2>1
    <3> HIDE DEF a, b, within
    <3> QED
      BY <3>1, EarliestBeyond
  <2>4. m = lo
    BY <2>2
  <2> HIDE DEF m, lo
  <2> QED
    BY <2>1, <2>3, <2>4
<1> HIDE DEF lo
<1>5. /\ lo \in Int /\ hi \in Int /\ 1 <= lo /\ lo <= hi /\ hi <= n + 1
      /\ w.lo <= lo /\ w.hi <= hi
  BY <1>2, <1>3, <1>4
<1>6. v.lo = lo /\ v.hi = hi /\ v.sum = sum /\ v.count = count
  <2> HIDE DEF sum, count
  <2> QED
    OBVIOUS
<1>7. Around(cum, n, half, v, i)
  <2> SUFFICES ASSUME NEW k \in 1 .. n
               PROVE  (k < hi <=> cum[k] <= cum[i] + half) /\ (k < lo <=> cum[k] < cum[i] - half)
    <3> HIDE DEF v, n
    <3> QED
      BY <1>6 DEF Around
  <2>1. cum[k] \in Int /\ k \in Int
    OBVIOUS
  <2>2. k < hi => cum[k] <= cum[i] + half
    <3>1. CASE k < w.hi
      BY <3>1 DEF NotPast
    <3>2. CASE k >= w.hi
      BY <1>2, <1>3, <2>1, <3>2
    <3> QED
      BY <1>2, <3>1, <3>2
  <2>3. k >= hi => cum[k] > cum[i] + half
    <3> SUFFICES ASSUME k >= hi PROVE cum[k] > cum[i] + half
      OBVIOUS
    <3>1. hi \in 1 .. n /\ hi \in beyond
      BY <1>3, <1>5
    <3>2. cum[hi] <= cum[k] /\ cum[hi] \in Int
      BY <3>1 DEF Grows
    <3> QED
      BY <1>2, <2>1, <3>1, <3>2
  <2>4. k < lo => cum[k] < cum[i] - half
    <3>1. CASE k < w.lo
      BY <3>1 DEF NotPast
    <3>2. CASE k >= w.lo
      BY <1>2, <1>4, <1>5, <2>1, <3>2
    <3> QED
      BY <1>2, <3>1, <3>2
  <2>5. k >= lo => cum[k] >= cum[i] - half
    <3> SUFFICES ASSUME k >= lo PROVE cum[k] >= cum[i] - half
      OBVIOUS
    <3>1. CASE lo < hi
      <4>1. lo \in 1 .. n /\ lo \in within
        BY <1>4, <1>5, <3>1
      <4>2. cum[lo] <= cum[k] /\ cum[lo] \in Int
        BY <4>1 DEF Grows
      <4> QED
        BY <1>2, <2>1, <4>1, <4>2
    <3>2. CASE lo = hi
      BY <1>2, <1>5, <2>1, <2>3, <3>2
    <3> QED
      BY <1>5, <3>1, <3>2
  <2> QED
    BY <1>2, <1>5, <2>1, <2>2, <2>3, <2>4, <2>5
<1>8. /\ sum = Edits!SumOver(elevations, lo .. hi - 1) /\ sum \in Int
      /\ count = KnownIn(elevations, lo .. hi - 1) /\ count \in Int
  <2>1. /\ Edits!SumOver(elevations, w.lo .. hi - 1) = w.sum + Edits!SumOver(elevations, w.hi .. hi - 1)
        /\ KnownIn(elevations, w.lo .. hi - 1) = w.count + KnownIn(elevations, w.hi .. hi - 1)
    BY <1>2, <1>5, WindowsAddUp DEF Holds
  <2>2. /\ Edits!SumOver(elevations, w.lo .. hi - 1) =
              Edits!SumOver(elevations, w.lo .. lo - 1) + Edits!SumOver(elevations, lo .. hi - 1)
        /\ KnownIn(elevations, w.lo .. hi - 1) =
              KnownIn(elevations, w.lo .. lo - 1) + KnownIn(elevations, lo .. hi - 1)
    <3> DEFINE a == w.lo
    <3>1. a \in Int /\ lo \in Int /\ hi \in Int /\ a <= lo /\ lo <= hi
      BY <1>2, <1>5
    <3> HIDE DEF a, sum, count, v
    <3>2. /\ Edits!SumOver(elevations, a .. hi - 1) =
                Edits!SumOver(elevations, a .. lo - 1) + Edits!SumOver(elevations, lo .. hi - 1)
          /\ KnownIn(elevations, a .. hi - 1) =
                KnownIn(elevations, a .. lo - 1) + KnownIn(elevations, lo .. hi - 1)
      BY <3>1, WindowsAddUp
    <3> QED
      BY <3>2 DEF a
  <2>3. lo - 1 \in Int /\ hi - 1 \in Int
    BY <1>5
  <2>4. /\ Edits!SumOver(elevations, lo .. hi - 1) \in Int /\ KnownIn(elevations, lo .. hi - 1) \in Nat
        /\ Edits!SumOver(elevations, w.lo .. lo - 1) \in Int /\ KnownIn(elevations, w.lo .. lo - 1) \in Nat
        /\ Edits!SumOver(elevations, w.hi .. hi - 1) \in Int /\ KnownIn(elevations, w.hi .. hi - 1) \in Nat
    BY <1>2, <1>5, <2>3, WindowType
  <2>5. w.sum \in Int /\ w.count \in Int
    BY DEF Windows
  <2> DEFINE whole == Edits!SumOver(elevations, w.lo .. hi - 1)
             kept == Edits!SumOver(elevations, lo .. hi - 1)
             off == Edits!SumOver(elevations, w.lo .. lo - 1)
             on == Edits!SumOver(elevations, w.hi .. hi - 1)
             allKnown == KnownIn(elevations, w.lo .. hi - 1)
             keptKnown == KnownIn(elevations, lo .. hi - 1)
             offKnown == KnownIn(elevations, w.lo .. lo - 1)
             onKnown == KnownIn(elevations, w.hi .. hi - 1)
  <2>6. sum = w.sum + on - off /\ count = w.count + onKnown - offKnown
    OBVIOUS
  <2> HIDE DEF whole, kept, off, on, allKnown, keptKnown, offKnown, onKnown, sum, count, v
  <2>7. sum = kept /\ sum \in Int /\ count = keptKnown /\ count \in Int
    <3>1. whole = w.sum + on /\ allKnown = w.count + onKnown /\ whole = off + kept /\ allKnown = offKnown + keptKnown
      BY <2>1, <2>2 DEF whole, kept, off, on, allKnown, keptKnown, offKnown, onKnown
    <3>2. /\ kept \in Int /\ off \in Int /\ on \in Int
          /\ keptKnown \in Int /\ offKnown \in Int /\ onKnown \in Int
      BY <2>4 DEF whole, kept, off, on, allKnown, keptKnown, offKnown, onKnown
    <3> QED
      <4> DEFINE ws == w.sum
                 wc == w.count
      <4>1. ws \in Int /\ whole = ws + on /\ whole = off + kept /\ sum = ws + on - off
        BY <2>5, <2>6, <3>1
      <4>2. wc \in Int /\ allKnown = wc + onKnown /\ allKnown = offKnown + keptKnown /\ count = wc + onKnown - offKnown
        BY <2>5, <2>6, <3>1
      <4> HIDE DEF ws, wc
      <4>3. sum = kept
        BY <3>2, <4>1, TakenOff
      <4>4. count = keptKnown
        BY <3>2, <4>2, TakenOff
      <4> QED
        BY <3>2, <4>3, <4>4
  <2> QED
    BY <2>7 DEF kept, keptKnown
<1> HIDE DEF sum, count
<1>9. v \in Windows
  BY <1>5, <1>8 DEF Windows
<1>10. Holds(elevations, v)
  <2> HIDE DEF v
  <2> QED
    BY <1>5, <1>6, <1>8 DEF Holds
<1> QED
  BY <1>1, <1>7, <1>9, <1>10

LEMMA MinType ==
    ASSUME NEW a \in Int, NEW b \in Int, NEW c \in Int, NEW P
    PROVE  Edits!Min({k \in a .. b : k \in P} \union {c}) \in Int
<1> DEFINE S == {k \in a .. b : k \in P} \union {c}
           T == {k \in a .. b : k \in P}
<1>1. S \subseteq Int /\ S # {} /\ S = T \union {c}
  OBVIOUS
<1>2. IsFiniteSet(T)
  <2>1. IsFiniteSet(a .. b) /\ T \subseteq a .. b
    BY FS_Interval
  <2> QED
    BY <2>1, FS_Subset
<1>3. IsFiniteSet(S)
  <2> HIDE DEF S, T
  <2> QED
    BY <1>1, <1>2, FS_AddElement
<1>4. Edits!Min(S) \in S
  <2> HIDE DEF S
  <2> QED
    BY <1>1, <1>3, SameExtremes, MinOf
<1> QED
  BY <1>1, <1>4

LEMMA SlideType ==
    ASSUME NEW elevations \in Seq(SUBSET Int), NEW cum, NEW half, NEW i, NEW w \in Windows
    PROVE  Edits!Slide(elevations, cum, half, w, i) \in Windows
<1> DEFINE n == Len(elevations)
           beyond == {k \in Int : cum[k] > cum[i] + half}
           within == {k \in Int : cum[k] >= cum[i] - half}
           hi == Edits!Min({k \in w.hi .. n : cum[k] > cum[i] + half} \union {n + 1})
           lo == Edits!Min({k \in w.lo .. hi - 1 : cum[k] >= cum[i] - half} \union {hi})
           sum == w.sum + Edits!SumOver(elevations, w.hi .. hi - 1) - Edits!SumOver(elevations, w.lo .. lo - 1)
           count == w.count + KnownIn(elevations, w.hi .. hi - 1) - KnownIn(elevations, w.lo .. lo - 1)
<1>1. Edits!Slide(elevations, cum, half, w, i) = [lo |-> lo, hi |-> hi, sum |-> sum, count |-> count]
  <2>1. \A S : Edits!Cardinality(S) = Cardinality(S)
    BY DEF Edits!Cardinality, Cardinality
  <2> QED
    BY <2>1 DEF Edits!Slide, KnownIn
<1>2. n \in Int /\ w.lo \in Int /\ w.hi \in Int /\ w.sum \in Int /\ w.count \in Int
  BY DEF Windows
<1>3. hi \in Int
  <2> DEFINE a == w.hi
             c == n + 1
             m == Edits!Min({k \in a .. n : k \in beyond} \union {c})
  <2>1. m = hi
    <3>1. {k \in a .. n : k \in beyond} = {k \in w.hi .. n : cum[k] > cum[i] + half}
      BY <1>2
    <3> QED
      BY <3>1
  <2>2. m \in Int
    <3>1. a \in Int /\ c \in Int /\ n \in Int
      BY <1>2
    <3> HIDE DEF a, c, n, beyond
    <3> QED
      BY <3>1, MinType
  <2> QED
    BY <2>1, <2>2
<1> HIDE DEF hi
<1>4. lo \in Int
  <2> DEFINE a == w.lo
             b == hi - 1
             m == Edits!Min({k \in a .. b : k \in within} \union {hi})
  <2>1. m = lo
    <3>1. {k \in a .. b : k \in within} = {k \in w.lo .. hi - 1 : cum[k] >= cum[i] - half}
      BY <1>2, <1>3
    <3> QED
      BY <3>1
  <2>2. m \in Int
    <3>1. a \in Int /\ b \in Int
      BY <1>2, <1>3
    <3> HIDE DEF a, b, within
    <3> QED
      BY <1>3, <3>1, MinType
  <2> QED
    BY <2>1, <2>2
<1> HIDE DEF lo
<1>5. /\ Edits!SumOver(elevations, w.lo .. lo - 1) \in Int /\ KnownIn(elevations, w.lo .. lo - 1) \in Nat
      /\ Edits!SumOver(elevations, w.hi .. hi - 1) \in Int /\ KnownIn(elevations, w.hi .. hi - 1) \in Nat
  <2>1. lo - 1 \in Int /\ hi - 1 \in Int
    BY <1>3, <1>4
  <2> QED
    BY <1>2, <2>1, WindowType
<1>6. sum \in Int /\ count \in Int
  BY <1>2, <1>5
<1> HIDE DEF sum, count
<1> QED
  BY <1>1, <1>3, <1>4, <1>6 DEF Windows

\* The windows of all points, one after the other.
Slides(elevations, cum, half, slid) ==
    \A i \in 0 .. Len(elevations) :
       slid[i] = IF i = 0 THEN [lo |-> 1, hi |-> 1, sum |-> 0, count |-> 0]
                 ELSE Edits!Slide(elevations, cum, half, slid[i - 1], i)

SmoothedBy(elevations, slid, smooth) ==
    smooth = [i \in DOMAIN elevations |->
                 IF elevations[i] = {} \/ slid[i].count <= 0 THEN elevations[i] ELSE {slid[i].sum \div slid[i].count}]

LEMMA WindowsFollow ==
    ASSUME NEW elevations \in Seq(SUBSET Int), NEW cum, NEW half
    PROVE  \E slid : /\ slid \in [0 .. Len(elevations) -> Windows] /\ Slides(elevations, cum, half, slid)
                     /\ SmoothedBy(elevations, slid, Edits!SmoothElevations(elevations, cum, half))
<1> DEFINE n == Len(elevations)
           zero == [lo |-> 1, hi |-> 1, sum |-> 0, count |-> 0]
           Go(w, i) == Edits!Slide(elevations, cum, half, w, i)
           Fixed(f) == f = [i \in 0 .. n |-> IF i = 0 THEN zero ELSE Go(f[i - 1], i)]
           slid == CHOOSE f : Fixed(f)
           step == [s \in (0 .. n) \X Windows |-> Go(s[2], s[1])]
<1>1. n \in Nat /\ 0 \in Nat /\ 0 <= n /\ zero \in Windows
  BY DEF Windows
<1>2. \A w \in Windows : \A i : Go(w, i) \in Windows
  BY SlideType
<1>3. SmoothedBy(elevations, slid, Edits!SmoothElevations(elevations, cum, half))
  BY DEF Edits!SmoothElevations, SmoothedBy
<1> HIDE DEF zero, Go, n
<1>4. step \in [(0 .. n) \X Windows -> Windows]
  BY <1>2
<1>5. PICK f \in [0 .. n -> Windows] : Recurses(f, 0, n, zero, step)
  <2> HIDE DEF step
  <2> QED
    BY <1>1, <1>4, Recursion
<1>6. ASSUME NEW i \in 0 .. n PROVE f[i] = IF i = 0 THEN zero ELSE Go(f[i - 1], i)
  <2>1. i # 0 => i - 1 \in 0 .. n
    BY <1>1
  <2>2. i # 0 => <<i, f[i - 1]>> \in (0 .. n) \X Windows
    BY <1>5, <2>1
  <2> QED
    BY <1>5, <2>1, <2>2 DEF Recurses
<1>7. Fixed(f)
  BY <1>6
<1>8. Fixed(slid)
  <2> HIDE DEF Fixed
  <2> QED
    BY <1>7
<1> HIDE DEF slid, step
<1> DEFINE good == {i \in 0 .. n : slid[i] \in Windows}
<1>9. 0 \in good
  BY <1>1, <1>8
<1>10. ASSUME NEW i \in 0 .. n, i # 0, i - 1 \in good PROVE i \in good
  <2>1. slid[i] = Go(slid[i - 1], i)
    BY <1>8, <1>10
  <2>2. slid[i - 1] \in Windows
    BY <1>10
  <2> QED
    BY <1>2, <2>1, <2>2
<1>11. \A i \in 0 .. n : i \in good
  <2> HIDE DEF good
  <2> QED
    BY <1>1, <1>9, <1>10, Induction
<1>12. slid \in [0 .. n -> Windows]
  <2>1. \A i \in 0 .. n : slid[i] \in Windows
    BY <1>11
  <2> QED
    BY <1>8, <2>1
<1>13. Slides(elevations, cum, half, slid)
  BY <1>8 DEF Slides, zero, Go, n
<1> QED
  BY <1>3, <1>12, <1>13 DEF n

LEMMA WindowsFit ==
    ASSUME NEW elevations \in Seq(SUBSET Int), NEW cum \in [1 .. Len(elevations) -> Int],
           Grows(cum, Len(elevations)), NEW half \in Nat,
           NEW slid \in [0 .. Len(elevations) -> Windows], Slides(elevations, cum, half, slid),
           NEW point \in 1 .. Len(elevations)
    PROVE  Holds(elevations, slid[point]) /\ Around(cum, Len(elevations), half, slid[point], point)
<1> DEFINE n == Len(elevations)
           good == {i \in 0 .. n : Holds(elevations, slid[i]) /\ (i # 0 => Around(cum, n, half, slid[i], i))}
<1>1. n \in Nat /\ 0 \in Nat /\ 0 \in 0 .. n
  OBVIOUS
<1>2. slid[0] = [lo |-> 1, hi |-> 1, sum |-> 0, count |-> 0]
  BY <1>1 DEF Slides
<1>3. 0 \in good
  <2>1. Edits!SumOver(elevations, 1 .. 0) = 0 /\ KnownIn(elevations, 1 .. 0) = 0
    <3>1. /\ Edits!SumOver(elevations, 1 .. 1 - 1) =
                Edits!SumOver(elevations, 1 .. 1 - 1) + Edits!SumOver(elevations, 1 .. 1 - 1)
          /\ KnownIn(elevations, 1 .. 1 - 1) = KnownIn(elevations, 1 .. 1 - 1) + KnownIn(elevations, 1 .. 1 - 1)
      BY WindowsAddUp
    <3>2. 1 - 1 = 0
      OBVIOUS
    <3>3. Edits!SumOver(elevations, 1 .. 0) \in Int /\ KnownIn(elevations, 1 .. 0) \in Nat
      BY WindowType
    <3> DEFINE s == Edits!SumOver(elevations, 1 .. 0)
               k == KnownIn(elevations, 1 .. 0)
    <3>4. s = s + s /\ k = k + k
      BY <3>1, <3>2
    <3> HIDE DEF s, k
    <3>5. s = 0 /\ k = 0
      BY <3>3, <3>4, SMTT(30) DEF s, k
    <3> QED
      BY <3>5 DEF s, k
  <2> DEFINE w == slid[0]
  <2>2. w.lo = 1 /\ w.hi = 1 /\ w.sum = 0 /\ w.count = 0
    BY <1>2
  <2> HIDE DEF w
  <2>3. w.hi - 1 = 0 /\ w.lo \in 1 .. w.hi /\ w.hi \in 1 .. n + 1
    BY <2>2, <1>1
  <2>4. Holds(elevations, w)
    BY <2>1, <2>2, <2>3 DEF Holds
  <2> QED
    BY <1>1, <2>4 DEF w
<1>4. ASSUME NEW i \in 0 .. n, i # 0, i - 1 \in good PROVE i \in good
  <2> DEFINE w == slid[i - 1]
  <2>1. i \in 1 .. n /\ i - 1 \in 0 .. n
    BY <1>4
  <2>2. w \in Windows /\ Holds(elevations, w)
    BY <1>4, <2>1
  <2>3. slid[i] = Edits!Slide(elevations, cum, half, w, i)
    BY <1>4 DEF Slides
  <2>4. NotPast(cum, n, half, w, i)
    <3>1. CASE i = 1
      <4>1. w = slid[0]
        BY <3>1
      <4>2. w.lo = 1 /\ w.hi = 1
        BY <1>2, <4>1
      <4> HIDE DEF w
      <4> QED
        BY <4>2 DEF NotPast
    <3>2. CASE i # 1
      <4>1. i - 1 \in 1 .. n /\ i - 1 # 0
        BY <2>1, <3>2
      <4>2. Around(cum, n, half, w, i - 1)
        BY <1>4, <4>1
      <4>3. cum[i - 1] <= cum[i] /\ cum[i - 1] \in Int /\ cum[i] \in Int
        BY <2>1, <4>1 DEF Grows
      <4> HIDE DEF w, good
      <4>4. ASSUME NEW k \in 1 .. n
            PROVE  (k < w.hi => cum[k] <= cum[i] + half) /\ (k < w.lo => cum[k] < cum[i] - half)
        <5>1. (k < w.hi <=> cum[k] <= cum[i - 1] + half) /\ (k < w.lo <=> cum[k] < cum[i - 1] - half)
          BY <4>2 DEF Around
        <5>2. cum[k] \in Int
          OBVIOUS
        <5> QED
          BY <4>3, <5>1, <5>2, SMTT(30)
      <4> QED
        BY <4>4 DEF NotPast
    <3> QED
      BY <3>1, <3>2
  <2> HIDE DEF w
  <2>5. Holds(elevations, slid[i]) /\ Around(cum, n, half, slid[i], i)
    BY <2>1, <2>2, <2>3, <2>4, Slid
  <2> QED
    BY <2>5
<1>5. \A i \in 0 .. n : i \in good
  <2> HIDE DEF good, n
  <2> QED
    BY <1>1, <1>3, <1>4, Induction
<1>6. point \in 0 .. n /\ point # 0
  OBVIOUS
<1> QED
  BY <1>5, <1>6

LEMMA SomeKnown ==
    ASSUME NEW elevations, NEW P, IsFiniteSet(P), NEW i \in P, elevations[i] # {}
    PROVE  KnownIn(elevations, P) \in Nat /\ KnownIn(elevations, P) > 0
<1> DEFINE S == {j \in P : elevations[j] # {}}
<1>1. i \in S /\ IsFiniteSet(S)
  BY FS_Subset
<1> HIDE DEF S
<1>2. Cardinality(S) \in Nat /\ Cardinality(S) # 0
  BY <1>1, FS_EmptySet, FS_CardinalityType
<1> QED
  BY <1>2 DEF KnownIn, S

LEMMA Averaged ==
    ASSUME NEW elevations \in Seq(SUBSET Int), NEW cum \in [1 .. Len(elevations) -> Int],
           Grows(cum, Len(elevations)), NEW half \in Nat, NEW i \in DOMAIN elevations
    PROVE  Edits!SmoothElevations(elevations, cum, half)[i] = Edits!AverageAround(elevations, cum, half, i)
<1> DEFINE n == Len(elevations)
           near == {j \in DOMAIN elevations : Edits!AbsDiff(cum[j], cum[i]) <= half}
<1>1. PICK slid : /\ slid \in [0 .. n -> Windows] /\ Slides(elevations, cum, half, slid)
                  /\ SmoothedBy(elevations, slid, Edits!SmoothElevations(elevations, cum, half))
  BY WindowsFollow
<1> DEFINE w == slid[i]
<1>2. i \in 1 .. n /\ DOMAIN elevations = 1 .. n
  OBVIOUS
<1>3. Holds(elevations, w) /\ Around(cum, n, half, w, i)
  BY <1>1, <1>2, WindowsFit
<1>4. Edits!SmoothElevations(elevations, cum, half)[i] =
          IF elevations[i] = {} \/ w.count <= 0 THEN elevations[i] ELSE {w.sum \div w.count}
  BY <1>1 DEF SmoothedBy
<1> HIDE DEF w
<1>5. near = w.lo .. w.hi - 1
  <2>1. w.lo \in Int /\ w.hi \in Int /\ 1 <= w.lo /\ w.hi <= n + 1 /\ cum[i] \in Int
    BY <1>2, <1>3 DEF Holds
  <2>2. ASSUME NEW k \in 1 .. n
        PROVE  Edits!AbsDiff(cum[k], cum[i]) <= half <=> k \in w.lo .. w.hi - 1
    <3>1. (k < w.hi <=> cum[k] <= cum[i] + half) /\ (k < w.lo <=> cum[k] < cum[i] - half) /\ cum[k] \in Int
      BY <1>3 DEF Around
    <3>2. Edits!AbsDiff(cum[k], cum[i]) <= half <=> cum[k] <= cum[i] + half /\ ~(cum[k] < cum[i] - half)
      BY <2>1, <3>1 DEF Edits!AbsDiff
    <3> QED
      BY <2>1, <3>1, <3>2
  <2>3. ASSUME NEW k \in w.lo .. w.hi - 1 PROVE k \in 1 .. n
    BY <2>1
  <2> QED
    BY <1>2, <2>2, <2>3
<1>6. IsFiniteSet(near)
  <2>1. w.lo \in Int /\ w.hi - 1 \in Int
    BY <1>3 DEF Holds
  <2> HIDE DEF near
  <2> QED
    BY <1>5, <2>1, FS_Interval
<1>7. i \in near
  BY <1>2 DEF Edits!AbsDiff
<1>8. w.sum = Edits!SumOver(elevations, near) /\ w.count = KnownIn(elevations, near)
  <2> HIDE DEF near
  <2> QED
    BY <1>3, <1>5 DEF Holds
<1>9. \A S : Edits!Cardinality(S) = Cardinality(S)
  BY DEF Edits!Cardinality, Cardinality
<1>10. Edits!AverageAround(elevations, cum, half, i) =
           IF elevations[i] = {} THEN {}
           ELSE {Edits!SumOver(elevations, near) \div KnownIn(elevations, near)}
  BY <1>9 DEF Edits!AverageAround, KnownIn
<1> HIDE DEF near
<1>11. CASE elevations[i] = {}
  BY <1>4, <1>10, <1>11
<1>12. CASE elevations[i] # {}
  <2>1. KnownIn(elevations, near) \in Nat /\ KnownIn(elevations, near) > 0
    BY <1>6, <1>7, <1>12, SomeKnown
  <2>2. ~(w.count <= 0)
    BY <1>8, <2>1
  <2> QED
    BY <1>4, <1>8, <1>10, <1>12, <2>2
<1> QED
  BY <1>11, <1>12

LEMMA Smoothed ==
    ASSUME NEW track \in Tracks, Edits!Aligned(track), track.coordinates # <<>>, NEW half \in Nat
    PROVE  LET new == Edits!SmoothTrackElevation(track, half)
           IN /\ Edits!Aligned(new)
              /\ \A i \in DOMAIN track.elevations :
                    new.elevations[i] =
                        Edits!AverageAround(track.elevations, Edits!CumulativeKm(track.coordinates), half, i)
<1> DEFINE c == track.coordinates
           e == track.elevations
           cum == Edits!CumulativeKm(c)
           smooth == Edits!SmoothElevations(e, cum, half)
           line == [i \in DOMAIN c |-> [c[i] EXCEPT !.ele = smooth[i]]]
           new == Edits!SmoothTrackElevation(track, half)
<1>1. /\ c \in Seq(Points) /\ e \in Seq(SUBSET Int) /\ c # <<>>
      /\ track = [coordinates |-> c, elevations |-> e, waypoints |-> track.waypoints]
  BY DEF Tracks
<1>2. DOMAIN e = DOMAIN c /\ Len(e) = Len(c)
  <2>1. DOMAIN e = DOMAIN c
    BY DEF Edits!Aligned
  <2>2. DOMAIN e = 1 .. Len(e) /\ DOMAIN c = 1 .. Len(c) /\ Len(e) \in Nat /\ Len(c) \in Nat
    BY <1>1
  <2> DEFINE m == Len(e)
             n == Len(c)
  <2>3. m \in Nat /\ n \in Nat /\ 1 .. m = 1 .. n
    BY <2>1, <2>2
  <2> HIDE DEF m, n
  <2>4. m = n
    <3>1. (m # 0 => m \in 1 .. n) /\ (n # 0 => n \in 1 .. m)
      BY <2>3
    <3> QED
      BY <2>3, <3>1
  <2> QED
    BY <2>1, <2>4 DEF m, n
<1>3. new = [track EXCEPT !.coordinates = line, !.elevations = smooth]
  BY DEF Edits!SmoothTrackElevation, Edits!WithElevations
<1>4. DOMAIN smooth = DOMAIN e
  <2> HIDE DEF e, cum, c
  <2> QED
    BY DEF Edits!SmoothElevations
<1>5. cum \in [1 .. Len(c) -> Nat] /\ Grows(cum, Len(c))
  <2> HIDE DEF c
  <2> QED
    BY <1>1, WayOfPoints
<1>6. ASSUME NEW i \in DOMAIN e PROVE smooth[i] = Edits!AverageAround(e, cum, half, i)
  <2>1. cum \in [1 .. Len(e) -> Int] /\ Grows(cum, Len(e))
    <3> HIDE DEF cum, e, c
    <3> QED
      BY <1>2, <1>5
  <2> HIDE DEF cum, e
  <2> QED
    BY <1>1, <2>1, Averaged
<1>7. ASSUME NEW i \in DOMAIN c PROVE line[i].ele = smooth[i]
  <2>1. c[i] \in Points
    BY <1>1
  <2> HIDE DEF c, smooth
  <2> QED
    BY <2>1 DEF Points
<1>8. DOMAIN line = DOMAIN c
  OBVIOUS
<1> HIDE DEF c, e, smooth, line, cum
<1>9. new = [coordinates |-> line, elevations |-> smooth, waypoints |-> track.waypoints]
  BY <1>1, <1>3, TwoFields
<1>10. new.coordinates = line /\ new.elevations = smooth
  <2> HIDE DEF new
  <2> QED
    BY <1>9
<1> HIDE DEF new
<1>11. smooth = [i \in DOMAIN line |-> line[i].ele]
  <2>1. \E E, f : smooth = [k \in E |-> f[k]]
    <3>1. smooth = [k \in DOMAIN e |-> IF e[k] = {} THEN e[k] ELSE smooth[k]]
      <4>1. \E slid : SmoothedBy(e, slid, smooth)
        BY <1>1, WindowsFollow DEF smooth
      <4> QED
        BY <4>1 DEF SmoothedBy
    <3> QED
      BY <3>1, <1>4
  <2> QED
    BY <1>2, <1>4, <1>7, <1>8, <2>1
<1>12. Edits!Aligned(new)
  BY <1>10, <1>11 DEF Edits!Aligned
<1> QED
  BY <1>6, <1>10, <1>12 DEF new, c, e, cum

-----------------------------------------------------------------------------
(* The library answers the question it was asked, and what it answers is what    *)
(* the lemmas above say of its functions.                                       *)
Asked == question \in Questions

Answered == reply # <<>> => reply = <<Answer(question)>>

LibraryInv == Asked /\ Answered

LEMMA LibraryStarts == LibraryInit => LibraryInv
BY DEF LibraryInit, LibraryInv, Asked, Answered

LEMMA LibraryKeeps == LibraryInv /\ [LibraryNext]_libraryVars => LibraryInv'
BY DEF LibraryInv, Asked, Answered, LibraryNext, libraryVars

\* What an answer is about a subject.
LEMMA GotOf ==
    ASSUME LibraryInv, NEW subject, About(subject)
    PROVE  question.about = subject /\ Got = Answer(question) /\ question \in Questions
<1>1. reply = <<Answer(question)>>
  BY DEF LibraryInv, Answered, About
<1> QED
  BY <1>1 DEF LibraryInv, Asked, About, Got

LEMMA TiledTiles ==
    ASSUME NEW parts, NEW b, Tiled([k \in DOMAIN parts |-> parts[k].bounds], DOMAIN parts, b)
    PROVE  Plans!Tiles(parts, b)
<1> DEFINE boxes == [k \in DOMAIN parts |-> parts[k].bounds]
<1>1. \A k \in DOMAIN parts : boxes[k] = parts[k].bounds
  OBVIOUS
<1>2. Tiled(boxes, DOMAIN parts, b)
  OBVIOUS
<1> HIDE DEF boxes
<1>3. /\ \A k \in DOMAIN parts : Plans!Squares(parts[k].bounds) \subseteq Plans!Squares(b)
      /\ \A s \in Plans!Squares(b) : \E k \in DOMAIN parts : s \in Plans!Squares(parts[k].bounds)
      /\ \A j, k \in DOMAIN parts :
            j # k => Plans!Squares(parts[j].bounds) \cap Plans!Squares(parts[k].bounds) = {}
  BY <1>1, <1>2 DEF Tiled
<1>4. UNION {Plans!Squares(parts[k].bounds) : k \in DOMAIN parts} = Plans!Squares(b)
  BY <1>3
<1> QED
  BY <1>3, <1>4 DEF Plans!Tiles

\* Of two that come in order.
LEMMA InOrder ==
    ASSUME NEW x \in Int, NEW y \in Int, x <= y
    PROVE  Plans!Min({x, y}) = x /\ Plans!Max({x, y}) = y
<1>1. Plans!Max({x, y}) = y
  BY PairMax
<1> DEFINE m == Plans!Min({x, y})
<1>2. m \in {x, y} /\ m <= x /\ m <= y
  BY PairMin
<1> HIDE DEF m
<1>3. m = x
  BY <1>2
<1> QED
  BY <1>1, <1>3 DEF m

LEMMA Backwards ==
    ASSUME NEW x \in Int, NEW y \in Int, y <= x
    PROVE  Plans!Min({x, y}) = y
BY PairMin

LEMMA NormalizedAgain ==
    ASSUME NEW b \in Plans!Boxes, b.west <= b.east,
           NEW n \in Plans!NormalizePackBounds(Plans!Corner(b.south, b.west), Plans!Corner(b.north, b.east))
    PROVE  n = b
<1> DEFINE p == Plans!Corner(b.south, b.west)
           q == Plans!Corner(b.north, b.east)
           south == Plans!Max({0, Plans!Min({p.lat, q.lat})})
           north == Plans!Min({Plans!Circle, Plans!Max({p.lat, q.lat})})
           west == Plans!Min({p.lon, q.lon})
           east == Plans!Max({p.lon, q.lon})
<1>1. /\ b.south \in Int /\ b.north \in Int /\ b.west \in Int /\ b.east \in Int /\ Plans!Circle \in Int
      /\ 0 <= b.south /\ b.south <= b.north /\ b.north <= Plans!Circle
      /\ -Half <= b.west /\ b.west < Half /\ -Half <= b.east /\ b.east < Half
      /\ b = [south |-> b.south, west |-> b.west, north |-> b.north, east |-> b.east]
  BY BoxFields, RegionConstants
<1>2. p.lat = b.south /\ p.lon = b.west /\ q.lat = b.north /\ q.lon = b.east
  BY DEF Plans!Corner
<1>3. west = b.west /\ east = b.east
  BY <1>1, <1>2, InOrder
<1>4. Plans!Min({p.lat, q.lat}) = b.south /\ Plans!Max({p.lat, q.lat}) = b.north
  BY <1>1, <1>2, InOrder
<1>5. south = b.south /\ north = b.north
  <2>1. Plans!Max({0, b.south}) = b.south
    BY <1>1, InOrder
  <2>2. Plans!Min({Plans!Circle, b.north}) = b.north
    BY <1>1, Backwards
  <2> QED
    BY <1>4, <2>1, <2>2
<1>6. Plans!NormalizedLongitude(b.west) = b.west /\ Plans!NormalizedLongitude(b.east) = b.east
  BY <1>1 DEF Plans!NormalizedLongitude
<1>7. n \in IF south >= north \/ east = west \/ east - west >= Plans!Circle THEN {}
            ELSE {[south |-> south, west |-> Plans!NormalizedLongitude(west),
                   north |-> north, east |-> Plans!NormalizedLongitude(east)]}
  BY Zenon DEF Plans!NormalizePackBounds, p, q, south, north, west, east
<1> HIDE DEF south, north, west, east
<1>8. n = [south |-> south, west |-> Plans!NormalizedLongitude(west), north |-> north, east |-> Plans!NormalizedLongitude(east)]
  BY <1>7
<1> QED
  BY <1>1, <1>3, <1>5, <1>6, <1>8

\* Two families of sets that fill one another.
Filling(f, R, g, P) ==
    /\ \A r \in R : \E j \in P : f[r] \subseteq g[j]
    /\ \A j \in P : \A s \in g[j] : \E r \in R : s \in f[r]

Spread(f, R) == UNION {f[r] : r \in R}

LEMMA SameUnion ==
    ASSUME NEW R, NEW P, NEW f, NEW g, Filling(f, R, g, P)
    PROVE  Spread(f, R) = Spread(g, P)
<1>1. Spread(f, R) \subseteq Spread(g, P)
  BY DEF Filling, Spread
<1>2. Spread(g, P) \subseteq Spread(f, R)
  BY DEF Filling, Spread
<1> QED
  BY <1>1, <1>2

LEMMA SpannedExactly ==
    ASSUME NEW plan \in PlanSet, plan.skipped = 0, NEW parts \in Seq(Pieces), AsksParts(plan, parts)
    PROVE  UNION {Plans!Squares(plan.requests[k]) : k \in DOMAIN plan.requests}
               = UNION {Plans!Squares(parts[k].bounds) : k \in DOMAIN parts}
<1> DEFINE R == DOMAIN plan.requests
           P == DOMAIN parts
           f == [r \in R |-> Plans!Squares(plan.requests[r])]
           g == [j \in P |-> Plans!Squares(parts[j].bounds)]
<1>1. P = 1 .. Len(parts)
  BY LenProperties
<1>2. /\ \A r \in R : \E j \in P : Plans!Squares(plan.requests[r]) \subseteq Plans!Squares(parts[j].bounds)
      /\ \A j \in P : \A s \in Plans!Squares(parts[j].bounds) : \E r \in R : s \in Plans!Squares(plan.requests[r])
  BY <1>1 DEF AsksParts, PartsPlanned
<1>3. /\ \A r \in R : f[r] = Plans!Squares(plan.requests[r])
      /\ \A j \in P : g[j] = Plans!Squares(parts[j].bounds)
  OBVIOUS
<1> HIDE DEF R, P, f, g
<1>4. Spread(f, R) = Spread(g, P)
  <2>1. ASSUME NEW r \in R PROVE \E j \in P : f[r] \subseteq g[j]
    <3>1. PICK j \in P : Plans!Squares(plan.requests[r]) \subseteq Plans!Squares(parts[j].bounds)
      BY <1>2
    <3> QED
      BY <1>3, <3>1
  <2>2. ASSUME NEW j \in P, NEW s \in g[j] PROVE \E r \in R : s \in f[r]
    <3>1. s \in Plans!Squares(parts[j].bounds)
      BY <1>3
    <3>2. PICK r \in R : s \in Plans!Squares(plan.requests[r])
      BY <1>2, <3>1
    <3> QED
      BY <1>3, <3>2
  <2> QED
    BY <2>1, <2>2, SameUnion DEF Filling
<1>5. /\ {f[r] : r \in R} = {Plans!Squares(plan.requests[r]) : r \in R}
      /\ {g[j] : j \in P} = {Plans!Squares(parts[j].bounds) : j \in P}
  BY <1>3
<1> QED
  BY <1>4, <1>5 DEF Spread, R, P

LEMMA AreasHold == LibraryInv => PartsTile
<1> SUFFICES ASSUME LibraryInv, About("area") PROVE PartsTile
  BY DEF PartsTile
<1> DEFINE area == question.area
           b == area.bounds
<1>1. question.about = "area" /\ Got = Answer(question) /\ question \in Questions
  BY GotOf
<1>2. area \in Plans!Areas /\ b \in Plans!Boxes /\ area.parts \in Seq(Pieces)
  BY <1>1, LibraryAssumption DEF AreaQuestion, Plans!Areas, Pieces
<1>3. Got = AreaReply(question)
  BY <1>1 DEF Answer
<1>4. Got.parts = Plans!DownloadParts(area) /\ Got.plans = Plans!StartPlans(area, question.limit)
  BY <1>3 DEF AreaReply
<1>5. ASSUME area.parts = <<>>, Got.parts # <<>> PROVE Plans!Tiles(Got.parts, b)
  <2>1. ~Plans!FitsOnePack(b) /\ Got.parts = Plans!GridParts(b)
    BY <1>4, <1>5 DEF Plans!DownloadParts
  <2>2. Cut(Got.parts, b)
    BY <1>2, <2>1, GridCut
  <2> QED
    BY <2>2, TiledTiles DEF Cut
<1>6. ASSUME NEW plan \in Got.plans, plan.skipped = 0, ~Plans!CrossesDateline(b)
      PROVE  /\ \/ UNION {Plans!Squares(plan.requests[k]) : k \in DOMAIN plan.requests} = Plans!Squares(b)
                \/ /\ area.parts # <<>>
                   /\ UNION {Plans!Squares(plan.requests[k]) : k \in DOMAIN plan.requests}
                           = UNION {Plans!Squares(area.parts[k].bounds) : k \in DOMAIN area.parts}
             /\ area.parts = <<>> => Plans!Tiles(Plans!Pieces(plan.requests), b)
  <2>0. b.west \in Int /\ b.east \in Int
    BY <1>2, BoxFields, RegionConstants
  <2>1. b.west <= b.east
    BY <1>6, <2>0 DEF Plans!CrossesDateline
  <2>2. PICK n \in Plans!NormalizePackBounds(Plans!Corner(b.south, b.west), Plans!Corner(b.north, b.east)) :
            plan = Plans!PlanMapPacks([area EXCEPT !.bounds = n], question.limit)
    BY <1>4, <1>6 DEF Plans!StartPlans
  <2>3. n = b
    BY <1>2, <2>1, <2>2, NormalizedAgain
  <2>4. [area EXCEPT !.bounds = b] = area
    BY <1>2 DEF Plans!Areas
  <2>5. plan \in PlanSet /\ WellPlanned(plan, area)
    BY <1>2, <2>2, <2>3, <2>4, PlanCovers
  <2> DEFINE pieces == Plans!Pieces(plan.requests)
  <2>6. ASSUME Good(plan, b)
        PROVE  Plans!Tiles(pieces, b)
    <3>1. Tiled(plan.requests, DOMAIN plan.requests, b)
      BY <1>6, <2>6 DEF Good
    <3>2. DOMAIN pieces = DOMAIN plan.requests /\ \A k \in DOMAIN plan.requests : pieces[k].bounds = plan.requests[k]
      BY DEF Plans!Pieces, Plans!Piece
    <3> HIDE DEF pieces
    <3>3. Tiled([k \in DOMAIN pieces |-> pieces[k].bounds], DOMAIN pieces, b)
      BY <3>1, <3>2 DEF Tiled
    <3> QED
      BY <3>3, TiledTiles
  <2>7. ASSUME Good(plan, b)
        PROVE  UNION {Plans!Squares(plan.requests[k]) : k \in DOMAIN plan.requests} = Plans!Squares(b)
    BY <1>6, <2>7 DEF Good, Tiled
  <2>8. CASE Good(plan, b)
    BY <2>6, <2>7, <2>8
  <2>9. CASE area.parts # <<>> /\ AsksParts(plan, area.parts)
    BY <1>2, <1>6, <2>5, <2>9, SpannedExactly
  <2> HIDE DEF b, area
  <2>10. Good(plan, area.bounds) \/ (area.parts # <<>> /\ AsksParts(plan, area.parts))
    BY <2>5 DEF WellPlanned
  <2> QED
    BY <2>8, <2>9, <2>10 DEF b
<1> HIDE DEF About
<1> QED
  BY <1>5, <1>6, Zenon DEF PartsTile

(* The grid a large area is cut into covers it without overlap, and the packs that *)
(* are asked for an area that does not cross the date line cover it, or exactly    *)
(* its parts in the catalogue: for every area and every limit of the server         *)
(* (gridParts, planMapPacks and startRegionDownload of offlineRegions.ts).         *)
THEOREM PartsTileHeld == LibrarySpec => []PartsTile
BY AreasHold, LibraryStarts, LibraryKeeps, PTL DEF LibrarySpec

LEMMA PacksHold == LibraryInv => DoneIsDownloaded
<1> DEFINE area == question.area
           group == question.group
           Arrived(p) == /\ Plans!PackSettled(p)
                         /\ p.progress[group].failed = 0 /\ p.progress[group].done = p.progress[group].total
                         /\ group = "maps" => p.progress[group].total > 0
           held == {p \in question.packs : Arrived(p)}
<1> SUFFICES ASSUME LibraryInv, About("packs"), Got = "done", \A b \in Plans!BoundsOf(area) : ~Plans!CrossesDateline(b)
             PROVE  Plans!WhollyIn(area, UNION {Plans!Squares(p.bbox) : p \in held})
  BY Zenon DEF DoneIsDownloaded
<1>1. question.about = "packs" /\ Got = Answer(question) /\ question \in Questions
  BY GotOf
<1>2. area \in Plans!Areas /\ \A p \in question.packs : p.bbox \in Plans!Boxes
  BY <1>1, LibraryAssumption DEF PackQuestion
<1>3. Plans!GroupStatus(question.packs, area, group) = "done"
  BY <1>1 DEF Answer
<1>4. Straight(area)
  <2>1. ASSUME NEW b \in Plans!BoundsOf(area), b \in Plans!Boxes PROVE b.west <= b.east
    BY <2>1, BoxFields, RegionConstants DEF Plans!CrossesDateline
  <2>2. area.bounds \in Plans!BoundsOf(area) /\ area.bounds \in Plans!Boxes
    BY <1>2 DEF Plans!BoundsOf, Plans!Areas
  <2>3. ASSUME NEW k \in DOMAIN area.parts
        PROVE  area.parts[k].bounds \in Plans!BoundsOf(area) /\ area.parts[k].bounds \in Plans!Boxes
    <3>1. area.parts \in Seq(Pieces)
      BY <1>2 DEF Plans!Areas, Pieces
    <3>2. area.parts[k] \in Pieces
      BY <3>1, ElementOfSeq, LenProperties
    <3> QED
      BY <3>2 DEF Plans!BoundsOf, Pieces
  <2> QED
    BY <2>1, <2>2, <2>3 DEF Straight
<1>5. Plans!WhollyIn(area, Under({p \in question.packs : Plans!PackFinished(p, group)}))
  BY <1>2, <1>3, <1>4, DoneCovers
<1>6. {p \in question.packs : Plans!PackFinished(p, group)} = held
  BY DEF Plans!PackFinished
<1> QED
  BY <1>5, <1>6 DEF Under

(* An area that is shown as downloaded, or each of its parts in the catalogue, lies *)
(* inside packs that settled with nothing of the group failed or missing: for       *)
(* every group, all packs and every area that does not cross the date line          *)
(* (areaDownloadState and groupStatus of offlineRegions.ts).                       *)
THEOREM DoneIsDownloadedHeld == LibrarySpec => []DoneIsDownloaded
BY PacksHold, LibraryStarts, LibraryKeeps, PTL DEF LibrarySpec

LEMMA RangeHolds == LibraryInv => RangeWarned
<1> SUFFICES ASSUME LibraryInv, About("fuel") PROVE RangeWarned
  BY DEF RangeWarned
<1>1. question.about = "fuel" /\ Got = Answer(question) /\ question \in Questions
  BY GotOf
<1>2. FuelQuestion(question)
  BY <1>1, LibraryAssumption
<1>3. Got = Backend!PlanFuelRange(question.total, question.stops, question.input)
  BY <1>1 DEF Answer
<1> QED
  BY <1>2, <1>3, Ranged DEF RangeWarned

LEMMA AccessHolds == LibraryInv => AccessAccounted
<1> SUFFICES ASSUME LibraryInv, About("roads") PROVE AccessAccounted
  BY DEF AccessAccounted
<1>1. question.about = "roads" /\ Got = Answer(question) /\ question \in Questions
  BY GotOf
<1>2. RoadQuestion(question)
  BY <1>1, LibraryAssumption
<1>3. Got = Backend!AccessReport(question.spans, question.way)
  BY <1>1 DEF Answer
<1> QED
  BY <1>2, <1>3, Accounted DEF AccessAccounted, SumOf

(* A rider is warned of every dry stretch and of every way that may be closed,   *)
(* and of nothing else, for every track, tank, station and match of roads.       *)
THEOREM RiderWarnedHeld == LibrarySpec => []RiderWarned
<1>1. LibraryInv => RiderWarned
  BY RangeHolds, AccessHolds DEF RiderWarned
<1> QED
  BY <1>1, LibraryStarts, LibraryKeeps, PTL DEF LibrarySpec

LEMMA ShapeHolds == LibraryInv => TrackKeepsShape
<1> SUFFICES ASSUME LibraryInv, About("edit") PROVE TrackKeepsShape
  BY DEF TrackKeepsShape
<1> DEFINE track == question.track
           cum == Edits!CumulativeKm(track.coordinates)
<1>1. question.about = "edit" /\ Got = Answer(question) /\ question \in Questions
  BY GotOf
<1>2. EditQuestion(question)
  BY <1>1, LibraryAssumption
<1>3. Got = EditReply(question)
  BY <1>1 DEF Answer
<1>4. /\ Got.reversed = Edits!ReverseTrack(track) /\ Got.parts = Edits!SplitTrack(track, question.at)
      /\ Got.stages = Edits!SplitIntoStages(track, question.stage)
      /\ Got.smooth = Edits!SmoothTrackElevation(track, question.half)
      /\ Got.kept = Edits!Kept(track.coordinates, question.tolerance)
  BY <1>3 DEF EditReply
<1>5. /\ track \in Tracks /\ Edits!Aligned(track) /\ Len(track.coordinates) >= 2
      /\ question.at \in Int /\ question.half \in Nat /\ question.tolerance \in Nat
  BY <1>2 DEF EditQuestion, Tracks
<1>6. track.coordinates \in Seq(Points) /\ track.coordinates # <<>>
  BY <1>5 DEF Tracks
<1> HIDE DEF track
<1>7. /\ Edits!Glued(Got.parts) = track.coordinates
      /\ \A k \in DOMAIN Got.parts : Edits!Aligned(Got.parts[k])
  BY <1>4, <1>5, PartsGlued
<1>8. /\ Edits!Glued(Got.stages) = track.coordinates
      /\ \A k \in DOMAIN Got.stages : Edits!Aligned(Got.stages[k])
  BY <1>4, <1>5, StagesGlued
<1>9. Edits!ReverseTrack(Got.reversed) = track /\ Edits!Aligned(Got.reversed)
  BY <1>4, <1>5, ReversedTwice
<1>10. /\ Edits!Aligned(Got.smooth)
       /\ \A i \in DOMAIN track.elevations :
             Got.smooth.elevations[i] = Edits!AverageAround(track.elevations, cum, question.half, i)
  BY <1>4, <1>5, <1>6, Smoothed
<1>11. Edits!StaysOnLine(track.coordinates, Got.kept, question.tolerance)
  BY <1>4, <1>5, <1>6, Simplified
<1> QED
  BY <1>7, <1>8, <1>9, <1>10, <1>11 DEF TrackKeepsShape, track

(* Edits keep the shape of the track, for every track of two points and more:    *)
(* parts and stages put together are the track, a track reversed twice is        *)
(* itself, elevations stay those of their points, smoothing is the average       *)
(* around each point, and what simplifying leaves out is within tolerance of the *)
(* line that is left (edit.ts).                                                 *)
THEOREM TrackKeepsShapeHeld == LibrarySpec => []TrackKeepsShape
BY ShapeHolds, LibraryStarts, LibraryKeeps, PTL DEF LibrarySpec

LEMMA TripHolds == LibraryInv => RoundTrip
<1> SUFFICES ASSUME LibraryInv, About("gpx") PROVE RoundTrip
  BY DEF RoundTrip
<1> DEFINE before == question.track
           Read(track, guessed) == Gpx!The(Gpx!ParseGPX(Gpx!BuildGPX(track, guessed, question.now)))
           once == Read(before, question.guessed)
           after == Reread(before, question.guessed, question.now)
<1>1. question.about = "gpx" /\ Got = Answer(question) /\ question \in Questions
  BY GotOf
<1>2. GpxQuestion(question)
  BY <1>1, LibraryAssumption
<1>3. Got = GpxReply(question)
  BY <1>1 DEF Answer
<1>4. Got.once = once /\ Got.again = Read(once[1], {})
  BY <1>3 DEF GpxReply
<1>5. before.coordinates \in Seq(Points) /\ before.coordinates # <<>> /\ before.waypoints \in Seq(Waypoints)
  BY <1>2 DEF GpxQuestion
<1>6. once = <<after>>
  <2> HIDE DEF before
  <2> QED
    BY <1>5, WrittenAndRead
<1>7. /\ after.coordinates \in Seq(Points) /\ after.coordinates # <<>> /\ after.waypoints \in Seq(Waypoints)
      /\ Reread(after, {}, question.now) = after
  <2> HIDE DEF before
  <2> QED
    BY <1>5, ReadAgain
<1>8. Len(Got.once) = 1 /\ Got.once[1] = after
  <2> HIDE DEF once, after
  <2> QED
    BY <1>4, <1>6
<1>9. Got.again = Got.once
  <2> HIDE DEF after, once
  <2>1. once[1] = after
    BY <1>6
  <2>2. Read(after, {}) = <<Reread(after, {}, question.now)>>
    BY <1>7, WrittenAndRead
  <2> QED
    BY <1>4, <1>6, <1>7, <2>1, <2>2
<1>10. /\ after.coordinates = PointsKept(before, question.guessed) /\ after.waypoints = Marked(before)
       /\ after.elevations = [i \in DOMAIN after.coordinates |-> after.coordinates[i].ele]
  <2> HIDE DEF before
  <2> QED
    BY DEF Reread
<1> HIDE DEF after, once
<1> QED
  BY <1>8, <1>9, <1>10 DEF RoundTrip, PointsKept, Marked

(* A track that is written and read again is that track, to the precision of the *)
(* file and but for the heights that were guessed, and written once more nothing *)
(* changes, for every track with a point (buildGPX and parseGPX of gpx.ts).      *)
THEOREM RoundTripHeld == LibrarySpec => []RoundTrip
BY TripHolds, LibraryStarts, LibraryKeeps, PTL DEF LibrarySpec

LEMMA DrawingHolds == LibraryInv => DrawnWhole
<1> SUFFICES ASSUME LibraryInv PROVE DrawnWhole
  OBVIOUS
<1>1. ASSUME About("line") PROVE Screen!DrawsTrack(Got, question.colors, Len(question.colors))
  <2>1. question.about = "line" /\ Got = Answer(question) /\ question \in Questions
    BY <1>1, GotOf
  <2>2. question.colors \in Seq(STRING)
    BY <2>1, LibraryAssumption DEF LineQuestion
  <2>3. Got = Screen!Runs(question.colors)
    BY <2>1 DEF Answer
  <2> QED
    BY <2>2, <2>3, Drawn
<1>2. ASSUME About("card") PROVE Screen!CardCovered(Got)
  <2>1. question.about = "card" /\ Got = Answer(question) /\ question \in Questions
    BY <1>2, GotOf
  <2>2. CardQuestion(question)
    BY <2>1, LibraryAssumption
  <2>3. Got = Screen!ThumbLayout(question.points)
    BY <2>1 DEF Answer
  <2> QED
    BY <2>2, <2>3, Covered
<1> QED
  BY <1>1, <1>2 DEF DrawnWhole

(* The line of a track is drawn whole, in runs of one colour that meet, for      *)
(* every sequence of colours, and every pixel of a card that is on the map has   *)
(* its tile, for every track and size of card (ColoredTrack.tsx, TrackCard.tsx). *)
THEOREM DrawnWholeHeld == LibrarySpec => []DrawnWhole
BY DrawingHolds, LibraryStarts, LibraryKeeps, PTL DEF LibrarySpec

-----------------------------------------------------------------------------
(* The configuration.  What the server rendered cache-only, or a backend that   *)
(* has not answered, is decoded from a text without services, and is what a      *)
(* failed load falls back on.                                                   *)
Unread == {"refused", "unreadable", "down"}

Closed(config) == \A service : Backend!SelectRuntimeTransport(config, service) = "unavailable"

LEMMA EmbeddedIsClosed ==
    ASSUME NEW base
    PROVE  Closed(Backend!Embedded("cache-only", base))
<1> DEFINE managed == Backend!Obj([enabled |-> Backend!Flag(TRUE), mode |-> Backend!Txt("cache-only")])
           root == Backend!Obj([offline |-> managed])
           config == Backend!DecodeRuntimeConfig(root, base)
           services == [k \in Services |-> Backend!Endpoint(Backend!At(Backend!At(root, "services"), k), base)]
<1>1. \A key : Backend!At(root, "services") = Backend!Absent /\ Backend!At(Backend!Absent, key) = Backend!Absent
  BY DEF Backend!At, Backend!IsRecord, Backend!Obj, Backend!Absent
<1>2. Backend!Text(Backend!Absent) = {}
  BY DEF Backend!Text, Backend!Absent
<1>3. \A k \in Services : services[k] = {}
  BY <1>1, <1>2, Zenon DEF Backend!Endpoint
<1>4. DOMAIN config.services = {}
  BY <1>3 DEF Backend!DecodeRuntimeConfig, Backend!Only
<1>5. Backend!At(root, "offline") = managed
  BY DEF Backend!At, Backend!IsRecord, Backend!Obj
<1>6. Backend!At(managed, "enabled") = Backend!Flag(TRUE) /\ Backend!At(managed, "mode") = Backend!Txt("cache-only")
  BY DEF Backend!At, Backend!IsRecord, Backend!Obj
<1>7. Backend!IsTrue(Backend!Flag(TRUE)) /\ Backend!Text(Backend!Txt("cache-only")) = {"cache-only"}
  BY DEF Backend!IsTrue, Backend!Boolean, Backend!Flag, Backend!Text, Backend!Txt
<1>8. Backend!CacheOnly(config)
  <2> HIDE DEF root, managed
  <2>1. \E o \in config.offline : o.mode = "cache-only"
    BY <1>5, <1>6, <1>7 DEF Backend!DecodeRuntimeConfig
  <2> QED
    BY <2>1 DEF Backend!CacheOnly
<1>9. Closed(config)
  BY <1>4, <1>8 DEF Closed, Backend!SelectRuntimeTransport
<1> QED
  BY <1>9 DEF Backend!Embedded

LEMMA UnreadIsFirst ==
    ASSUME NEW answered, answered.state \in Unread, NEW base, NEW first
    PROVE  Backend!LoadRuntimeConfig(answered, base, {first}) = {first}
BY DEF Unread, Backend!LoadRuntimeConfig, Backend!Or, Backend!Else

LEMMA FirstIsClosed ==
    ASSUME NEW q, q.embedded = "cache-only" \/ (q.embedded = "" /\ q.base # "")
    PROVE  Backend!BootstrapRuntimeConfig(q.base, q.embedded) = Backend!Embedded("cache-only", q.base)
BY DEF Backend!BootstrapRuntimeConfig

LEMMA ClosedHolds == LibraryInv => FailsClosed
<1> SUFFICES ASSUME LibraryInv, About("config"), question.reply.state \in Unread,
                    question.embedded = "cache-only" \/ (question.embedded = "" /\ question.base # ""),
                    NEW config \in Got.loaded, NEW service \in Services
             PROVE  Backend!SelectRuntimeTransport(config, service) # "direct"
  BY DEF FailsClosed, Unread
<1> DEFINE first == Backend!BootstrapRuntimeConfig(question.base, question.embedded)
<1>1. question.about = "config" /\ Got = Answer(question)
  BY GotOf
<1>2. Got = ConfigReply(question)
  BY <1>1 DEF Answer
<1>3. Got.loaded = Backend!LoadRuntimeConfig(question.reply, question.base, {first})
  BY <1>2 DEF ConfigReply
<1>4. Got.loaded = {first}
  <2> HIDE DEF first
  <2> QED
    BY <1>3, UnreadIsFirst
<1>5. Closed(config)
  BY <1>4, FirstIsClosed, EmbeddedIsClosed, Zenon
<1> QED
  BY <1>5 DEF Closed

(* A page that was served cache-only, or by a backend it has not heard of yet,   *)
(* asks no provider directly, whichever service it wants, when its configuration *)
(* cannot be read (bootstrapRuntimeConfig and loadRuntimeConfig of offline.ts).  *)
THEOREM FailsClosedHeld == LibrarySpec => []FailsClosed
BY ClosedHolds, LibraryStarts, LibraryKeeps, PTL DEF LibrarySpec
=============================================================================
