-------------------------- MODULE ElevationProfile --------------------------
(***************************************************************************)
(* Elevations for a track: src/lib/elevation.ts.  A bounded pool of        *)
(* workers asks for chunks of the points; the first chunk that fails fails *)
(* the profile while the other workers go on.  A value is a set: {} where  *)
(* the service knows nothing.                                              *)
(***************************************************************************)
EXTENDS Integers, Sequences, SequencesExt, FiniteSetsExt

CONSTANTS MaxLookups,   \* MAX_ELEVATION_LOOKUPS
          ChunkSize,    \* CHUNK_SIZE
          Concurrency,  \* CONCURRENCY
          Lengths,      \* of the tracks that are asked for
          HeightAt(_)   \* what the service knows of a point

VARIABLES points,   \* of the track
          next,     \* the first chunk that no worker took
          running,  \* chunks that are asked for
          sampled,  \* chunk -> its values, <<>> before they came
          outcome   \* "asking", "failed" or "done"

profileVars == <<points, next, running, sampled, outcome>>

\* Evenly spaced, and the last point; indexes start at 1.
SampleIndices(n) ==
    LET stride == Max({1, (n + MaxLookups - 1) \div MaxLookups})
        count == (n + stride - 2) \div stride + 1
    IN [s \in 1 .. count |-> Min({(s - 1) * stride + 1, n})]

Chunks(n) ==
    LET all == SampleIndices(n)
        count == (Len(all) + ChunkSize - 1) \div ChunkSize
    IN [k \in 1 .. count |-> SubSeq(all, (k - 1) * ChunkSize + 1, Min({k * ChunkSize, Len(all)}))]

\* Mutant: what the service does not know is left out.
ReadKnown(results, expected) ==
    LET known == SelectSeq(results, LAMBDA r : r # {})
    IN [i \in 1 .. expected |-> IF i <= Len(known) THEN known[i] ELSE {}]

\* A reply may be shorter than what was asked for.
ReadResults(results, expected) ==
    [i \in 1 .. expected |-> IF i <= Len(results) THEN results[i] ELSE {}]

\* The values of the chunks one after the other, each but the last of full size.
Flat(n, chunks) ==
    [s \in DOMAIN SampleIndices(n) |-> chunks[(s - 1) \div ChunkSize + 1][((s - 1) % ChunkSize) + 1]]

\* Between two measured samples the heights are interpolated.
Fill(n, values) ==
    LET all == SampleIndices(n)
        Before(i) == Max({s \in DOMAIN all : all[s] <= i})
        Between(i) == LET s == Before(i)
                          a == Max(values[s])
                          b == Max(values[s + 1])
                      IN {a + ((i - all[s]) * (b - a)) \div (all[s + 1] - all[s])}
    IN [i \in 1 .. n |-> CASE all[Before(i)] = i -> values[Before(i)]
                           [] all[Before(i)] # i /\ {} \in {values[Before(i)], values[Before(i) + 1]} -> {}
                           [] OTHER -> Between(i)]

Interpolated(n, values) == {i \in 1 .. n : i \notin Range(SampleIndices(n)) /\ Fill(n, values)[i] # {}}

-----------------------------------------------------------------------------

ProfileInit == /\ points \in Lengths
               /\ next = 1 /\ running = {}
               /\ sampled = [k \in DOMAIN Chunks(points) |-> <<>>]
               /\ outcome = "asking"

\* A worker that has nothing to do takes the next chunk, also after another
\* one failed.
TakeChunk == /\ Cardinality(running) < Concurrency /\ next \in DOMAIN sampled
             /\ running' = running \union {next}
             /\ next' = next + 1
             /\ UNCHANGED <<points, sampled, outcome>>

ChunkAnswered == \E k \in running, short \in {0, 1} :
    /\ running' = running \ {k}
    /\ LET asked == Chunks(points)[k]
           reply == [i \in 1 .. Len(asked) - short |-> HeightAt(asked[i])]
       IN sampled' = [sampled EXCEPT ![k] = ReadResults(reply, Len(asked))]
    /\ UNCHANGED <<points, next, outcome>>

\* The worker ends with its chunk: one fewer takes the rest.
ChunkFailed == \E k \in running :
    /\ outcome = "asking"
    /\ running' = running \ {k}
    /\ outcome' = "failed"
    /\ UNCHANGED <<points, next, sampled>>

ProfileDone == /\ outcome = "asking" /\ running = {} /\ next \notin DOMAIN sampled
               /\ outcome' = IF \A k \in DOMAIN sampled : Range(sampled[k]) = {{}} THEN "failed" ELSE "done"
               /\ UNCHANGED <<points, next, running, sampled>>

ProfileNext == TakeChunk \/ ChunkAnswered \/ ChunkFailed \/ ProfileDone

Elevations == Fill(points, Flat(points, sampled))

\* What is written as measured was measured at that very point.
MeasuredIsMeasured ==
    outcome = "done" =>
        \A i \in 1 .. points : i \notin Interpolated(points, Flat(points, sampled)) =>
            Elevations[i] \in {{}, HeightAt(i)}

PoolBounded == Cardinality(running) <= Concurrency
=============================================================================
