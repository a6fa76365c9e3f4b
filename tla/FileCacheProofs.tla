--------------------------- MODULE FileCacheProofs ---------------------------
(***************************************************************************)
(* Proofs about module FileCache, for any file, chunk and fetch sizes that *)
(* NewFileCacheActor accepts, any ranges, streams, hops and faults.        *)
(***************************************************************************)
EXTENDS FileCache, TLAPS

\* The chunks in which the range from a to b begins and ends, and their number.
FirstChunk(a) == a \div chunkSize
LastChunk(b) == (b - 1) \div chunkSize
Count(a, b) == LastChunk(b) - FirstChunk(a) + 1

\* The range is cut where its chunks meet; Want is the part of chunk i of it.
Cut(a, b, i) == IF i = 0 THEN a ELSE Minimum((FirstChunk(a) + i) * chunkSize, b)
Want(a, b, i) ==
    LET idx == FirstChunk(a) + i - 1
    IN  [idx |-> idx,
         start |-> Cut(a, b, i - 1) - idx * chunkSize,
         end |-> Cut(a, b, i) - idx * chunkSize]

-----------------------------------------------------------------------------
\* Division with remainder, as Go's / and % on offsets.
LEMMA DivMod ==
    ASSUME NEW a \in Nat, NEW b \in Nat \ {0}
    PROVE  /\ a \div b \in Nat /\ a % b \in 0 .. b - 1
           /\ a = (a \div b) * b + (a % b)
  BY SMT

\* Products grow with their factors.
LEMMA ProductGrows == \A b, q, p \in Nat : q <= p => q * b <= p * b
  BY SMT

\* Factors are in the order of the products.
LEMMA FactorLess == \A b, q, p \in Nat : q * b < p * b => q < p
  BY ProductGrows

\* The quotient is the one number that fits.
LEMMA DivUnique ==
    ASSUME NEW a \in Nat, NEW b \in Nat \ {0}, NEW q \in Nat, q * b <= a, a < (q + 1) * b
    PROVE  a \div b = q
<1>1. PICK d \in Nat : d = a \div b /\ d * b <= a /\ a < (d + 1) * b
  BY DivMod
<1>2. d * b < (q + 1) * b /\ q * b < (d + 1) * b
  BY <1>1
<1>3. d < q + 1 /\ q < d + 1
  BY <1>2, FactorLess
<1> QED
  BY <1>1, <1>3

-----------------------------------------------------------------------------
\* Where the first and the last chunk of a range lie.
LEMMA RangeBounds ==
    ASSUME NEW a \in Nat, NEW b \in Nat, a < b
    PROVE  /\ FirstChunk(a) \in Nat /\ LastChunk(b) \in Nat
           /\ FirstChunk(a) * chunkSize <= a
           /\ a < FirstChunk(a) * chunkSize + chunkSize
           /\ LastChunk(b) * chunkSize < b
           /\ b <= LastChunk(b) * chunkSize + chunkSize
           /\ FirstChunk(a) <= LastChunk(b)
           /\ a % chunkSize = a - FirstChunk(a) * chunkSize
<1>1. /\ FirstChunk(a) \in Nat /\ a % chunkSize \in 0 .. chunkSize - 1
      /\ a = FirstChunk(a) * chunkSize + (a % chunkSize)
  BY DivMod, FileCacheAssumption, Zenon DEF FirstChunk
<1>2. /\ LastChunk(b) \in Nat /\ (b - 1) % chunkSize \in 0 .. chunkSize - 1
      /\ b - 1 = LastChunk(b) * chunkSize + ((b - 1) % chunkSize)
  <2>1. b - 1 \in Nat
    OBVIOUS
  <2> QED
    BY <2>1, DivMod, FileCacheAssumption, Zenon DEF LastChunk
<1>3. FirstChunk(a) * chunkSize < (LastChunk(b) + 1) * chunkSize
  BY <1>1, <1>2, FileCacheAssumption
<1>4. FirstChunk(a) < LastChunk(b) + 1
  BY <1>1, <1>2, <1>3, FactorLess, FileCacheAssumption
<1> QED
  BY <1>1, <1>2, <1>4, FileCacheAssumption

\* The cuts of a range grow from its start to its end, and each piece lies in
\* its chunk.
LEMMA CutsGrow ==
    ASSUME NEW a \in Nat, NEW b \in Nat, a < b
    PROVE  /\ Count(a, b) \in Nat \ {0}
           /\ Cut(a, b, Count(a, b)) = b
           /\ \A i \in 1 .. Count(a, b) :
                /\ Cut(a, b, i - 1) \in Nat /\ Cut(a, b, i) \in Nat
                /\ Cut(a, b, i - 1) < Cut(a, b, i) /\ Cut(a, b, i) <= b
                /\ (FirstChunk(a) + i - 1) * chunkSize <= Cut(a, b, i - 1)
                /\ Cut(a, b, i) <= (FirstChunk(a) + i - 1) * chunkSize + chunkSize
                /\ (FirstChunk(a) + i - 1) * chunkSize < b
                /\ i > 1 => Cut(a, b, i - 1) = (FirstChunk(a) + i - 1) * chunkSize
                /\ i < Count(a, b) => Cut(a, b, i) = (FirstChunk(a) + i) * chunkSize
<1>1. PICK q \in Nat, e \in Nat : q = FirstChunk(a) /\ e = LastChunk(b)
  BY RangeBounds, Zenon
<1>2. /\ q * chunkSize <= a /\ a < q * chunkSize + chunkSize
      /\ e * chunkSize < b /\ b <= e * chunkSize + chunkSize /\ q <= e
  BY <1>1, RangeBounds, Zenon
<1>3. Count(a, b) = e - q + 1
  BY <1>1, Zenon DEF Count
<1>4. chunkSize \in Nat \ {0}
  BY FileCacheAssumption, Zenon
<1>5. Cut(a, b, Count(a, b)) = b
  <2>1. (q + (e - q + 1)) * chunkSize = e * chunkSize + chunkSize
    BY <1>2, <1>4
  <2>2. Cut(a, b, Count(a, b)) = Minimum(e * chunkSize + chunkSize, b)
    BY <1>1, <1>2, <1>3, <2>1 DEF Cut
  <2>3. PICK y \in Nat : y = e * chunkSize + chunkSize
    BY <1>4
  <2> QED
    BY <1>2, <2>2, <2>3 DEF Minimum
<1>6. ASSUME NEW i \in 1 .. Count(a, b)
      PROVE  /\ Cut(a, b, i - 1) \in Nat /\ Cut(a, b, i) \in Nat
             /\ Cut(a, b, i - 1) < Cut(a, b, i) /\ Cut(a, b, i) <= b
             /\ (FirstChunk(a) + i - 1) * chunkSize <= Cut(a, b, i - 1)
             /\ Cut(a, b, i) <= (FirstChunk(a) + i - 1) * chunkSize + chunkSize
             /\ (FirstChunk(a) + i - 1) * chunkSize < b
             /\ i > 1 => Cut(a, b, i - 1) = (FirstChunk(a) + i - 1) * chunkSize
             /\ i < Count(a, b) => Cut(a, b, i) = (FirstChunk(a) + i) * chunkSize
  <2>1. PICK x \in Nat : x = (q + i - 1) * chunkSize /\ x <= e * chunkSize
    <3>1. q + i - 1 \in Nat /\ q + i - 1 <= e
      BY <1>3
    <3> QED
      BY <1>4, <3>1, ProductGrows
  <2>2. (q + i) * chunkSize = x + chunkSize /\ x >= q * chunkSize
    <3>1. (q + i) * chunkSize = (q + i - 1) * chunkSize + chunkSize
      BY <1>4
    <3>2. q * chunkSize <= (q + i - 1) * chunkSize
      BY <1>4, ProductGrows
    <3> QED
      BY <2>1, <3>1, <3>2, Zenon
  <2>3. x < b
    BY <1>2, <1>4, <2>1
  <2>4. Cut(a, b, i) = IF x + chunkSize < b THEN x + chunkSize ELSE b
    BY <1>1, <2>2 DEF Cut, Minimum
  <2>5. Cut(a, b, i - 1) = IF i = 1 THEN a ELSE x
    <3>1. q + (i - 1) = q + i - 1
      BY <1>3, Zenon
    <3> QED
      BY <1>1, <2>1, <2>3, <3>1 DEF Cut, Minimum
  <2>6. i = 1 => x = q * chunkSize
    BY <2>1
  <2>7. i < Count(a, b) => x + chunkSize < b
    <3>1. ASSUME i < Count(a, b) PROVE (q + i) * chunkSize <= e * chunkSize
      <4>1. q + i \in Nat /\ q + i <= e
        BY <1>3, <3>1
      <4> QED
        BY <1>4, <4>1, ProductGrows, Zenon
    <3> QED
      BY <1>2, <1>4, <2>2, <3>1
  <2> QED
    BY <1>1, <1>2, <1>4, <2>1, <2>2, <2>3, <2>4, <2>5, <2>6, <2>7
<1> QED
  BY <1>2, <1>3, <1>5, <1>6

\* The loop of rangeToChunkIndexes goes on as long as there are chunks.
LEMMA RemainingEnds ==
    ASSUME NEW a \in Nat, NEW b \in Nat, a < b, NEW i \in Nat \ {0}
    PROVE  (b - a - (Minimum(chunkSize, (a % chunkSize) + b - a) - (a % chunkSize))
              - (i - 1) * chunkSize <= 0)
           <=> i >= Count(a, b)
<1>1. PICK q \in Nat, e \in Nat : q = FirstChunk(a) /\ e = LastChunk(b)
  BY RangeBounds, Zenon
<1>2. /\ q * chunkSize <= a /\ a < q * chunkSize + chunkSize
      /\ e * chunkSize < b /\ b <= e * chunkSize + chunkSize /\ q <= e
      /\ a % chunkSize = a - q * chunkSize
  BY <1>1, RangeBounds, Zenon
<1>3. Count(a, b) = e - q + 1
  BY <1>1, Zenon DEF Count
<1>4. chunkSize \in Nat \ {0}
  BY FileCacheAssumption, Zenon
<1>5. PICK x \in Nat : x = (i - 1) * chunkSize
  BY <1>4
<1>6. (q + i) * chunkSize = q * chunkSize + x + chunkSize
  BY <1>4, <1>5
<1>7. i >= Count(a, b) <=> b <= (q + i) * chunkSize
  <2>1. ASSUME i >= Count(a, b) PROVE b <= (q + i) * chunkSize
    <3>1. (e + 1) * chunkSize <= (q + i) * chunkSize
      BY <1>3, <1>4, <2>1, ProductGrows
    <3>2. (e + 1) * chunkSize = e * chunkSize + chunkSize
      BY <1>4
    <3> QED
      BY <1>2, <1>4, <3>1, <3>2
  <2>2. ASSUME b <= (q + i) * chunkSize PROVE i >= Count(a, b)
    <3>1. e * chunkSize < (q + i) * chunkSize
      BY <1>2, <1>4, <2>2
    <3>2. e < q + i
      BY <1>4, <3>1, FactorLess
    <3> QED
      BY <1>3, <3>2
  <2> QED
    BY <2>1, <2>2, Zenon
<1>8. PICK y \in Nat : y = q * chunkSize
  BY <1>4
<1>9. CASE chunkSize < b - y
  <2>1. Minimum(chunkSize, (a % chunkSize) + b - a) = chunkSize
    BY <1>2, <1>4, <1>8, <1>9 DEF Minimum
  <2> QED
    BY <1>2, <1>4, <1>5, <1>6, <1>7, <1>8, <2>1
<1>10. CASE ~(chunkSize < b - y)
  <2>1. Minimum(chunkSize, (a % chunkSize) + b - a) = b - y
    BY <1>2, <1>4, <1>8, <1>10 DEF Minimum
  <2> QED
    BY <1>2, <1>4, <1>5, <1>6, <1>7, <1>8, <1>10, <2>1
<1> QED
  BY <1>9, <1>10, Zenon

\* A range has no more chunks than bytes.
LEMMA CountBounded ==
    ASSUME NEW a \in Nat, NEW b \in Nat, a < b
    PROVE  Count(a, b) \in 1 .. b - a
<1>1. PICK q \in Nat, e \in Nat : q = FirstChunk(a) /\ e = LastChunk(b)
  BY RangeBounds, Zenon
<1>2. /\ q * chunkSize <= a /\ a < q * chunkSize + chunkSize
      /\ e * chunkSize < b /\ b <= e * chunkSize + chunkSize /\ q <= e
  BY <1>1, RangeBounds, Zenon
<1>3. Count(a, b) = e - q + 1
  BY <1>1, Zenon DEF Count
<1>4. chunkSize \in Nat \ {0}
  BY FileCacheAssumption, Zenon
<1>5. CASE e = q
  BY <1>3, <1>5
<1>6. CASE e > q
  <2>1. PICK d \in Nat : d = e - q - 1
    BY <1>6
  <2>2. d * chunkSize = e * chunkSize - q * chunkSize - chunkSize
    BY <1>4, <2>1
  <2>3. d <= d * chunkSize
    BY <1>4
  <2>4. PICK x \in Nat, y \in Nat, z \in Nat :
            x = e * chunkSize /\ y = q * chunkSize /\ z = d * chunkSize
    BY <1>4
  <2> QED
    BY <1>2, <1>3, <1>4, <2>1, <2>2, <2>3, <2>4
<1> QED
  BY <1>2, <1>5, <1>6

\* What the loop of rangeToChunkIndexes computes: the chunks of the range, each
\* with the part of it between two cuts (file_cache.go:304).
LEMMA RangeToChunks ==
    ASSUME NEW a \in Nat, NEW b \in Nat, a < b
    PROVE  rangeToChunkIndexes(a, b) = [i \in 1 .. Count(a, b) |-> Want(a, b, i)]
<1> DEFINE first == Minimum(chunkSize, (a % chunkSize) + b - a)
           Remaining(i) == b - a - (first - (a % chunkSize)) - (i - 1) * chunkSize
           count == CHOOSE i \in 1 .. b - a :
                        Remaining(i) <= 0 /\ \A j \in 1 .. i - 1 : Remaining(j) > 0
           Chunk(i) ==
               LET idx == (a + (i - 1) * chunkSize) \div chunkSize
               IN  [idx |-> idx,
                    start |-> IF i = 1 THEN a % chunkSize ELSE 0,
                    end |-> IF i = count /\ chunkSize * (idx + 1) > b
                            THEN b - idx * chunkSize
                            ELSE IF i = 1 THEN first ELSE chunkSize]
<1>1. rangeToChunkIndexes(a, b) = [i \in 1 .. count |-> Chunk(i)]
  BY Zenon DEF rangeToChunkIndexes
<1>2. \A i \in Nat \ {0} : (Remaining(i) <= 0) <=> i >= Count(a, b)
  BY RemainingEnds, Zenon
<1>3. \A i \in Nat \ {0} : Remaining(i) \in Int
  BY RangeBounds, FileCacheAssumption DEF Minimum
<1> HIDE DEF Remaining
<1>4. Count(a, b) \in 1 .. b - a
  BY CountBounded, Zenon
<1>5. Remaining(Count(a, b)) <= 0 /\ \A j \in 1 .. Count(a, b) - 1 : Remaining(j) > 0
  BY <1>2, <1>3, <1>4
<1>6. \A i \in 1 .. b - a :
          (Remaining(i) <= 0 /\ \A j \in 1 .. i - 1 : Remaining(j) > 0) => i = Count(a, b)
  <2> SUFFICES ASSUME NEW i \in 1 .. b - a, Remaining(i) <= 0,
                      \A j \in 1 .. i - 1 : Remaining(j) > 0, i # Count(a, b)
               PROVE  FALSE
    BY Zenon
  <2>1. Count(a, b) \in 1 .. i - 1
    BY <1>2, <1>4
  <2> QED
    BY <1>3, <1>4, <1>5, <2>1
<1>7. count = Count(a, b)
  BY <1>4, <1>5, <1>6, Zenon
<1> HIDE DEF count
<1>8. ASSUME NEW i \in 1 .. Count(a, b) PROVE Chunk(i) = Want(a, b, i)
  <2>1. PICK q \in Nat : q = FirstChunk(a)
    BY RangeBounds, Zenon
  <2>2. /\ q * chunkSize <= a /\ a < q * chunkSize + chunkSize
        /\ a % chunkSize = a - q * chunkSize
    BY <2>1, RangeBounds, Zenon
  <2>3. chunkSize \in Nat \ {0} /\ i \in Nat \ {0} /\ q + i - 1 \in Nat
    BY <1>4, FileCacheAssumption
  <2>4. (a + (i - 1) * chunkSize) \div chunkSize = q + i - 1
    <3>1. (q + i - 1) * chunkSize = q * chunkSize + (i - 1) * chunkSize
      BY <2>3
    <3>2. (q + i - 1 + 1) * chunkSize = q * chunkSize + (i - 1) * chunkSize + chunkSize
      BY <2>3
    <3>3. PICK x \in Nat : x = (i - 1) * chunkSize
      BY <2>3
    <3>4. PICK y \in Nat : y = q * chunkSize
      BY <2>3
    <3>5. a + x \in Nat /\ (q + i - 1) * chunkSize <= a + x /\ a + x < (q + i - 1 + 1) * chunkSize
      BY <2>2, <2>3, <3>1, <3>2, <3>3, <3>4
    <3> QED
      BY <2>3, <3>3, <3>5, DivUnique, Zenon
  <2>5. PICK x \in Nat : x = (q + i - 1) * chunkSize
    BY <2>3
  <2>6. chunkSize * (q + i - 1 + 1) = x + chunkSize /\ (q + i) * chunkSize = x + chunkSize
    BY <2>3, <2>5
  <2>7. /\ Cut(a, b, Count(a, b)) = b
        /\ Cut(a, b, i) <= x + chunkSize /\ Cut(a, b, i - 1) \in Nat /\ Cut(a, b, i) \in Nat
        /\ i > 1 => Cut(a, b, i - 1) = x
        /\ i < Count(a, b) => Cut(a, b, i) = x + chunkSize /\ x + chunkSize <= b
    BY <2>1, <2>5, <2>6, CutsGrow
  <2>8. i = 1 => Cut(a, b, i - 1) = a /\ x = q * chunkSize
    BY <2>1, <2>5 DEF Cut
  <2>9. (IF i = 1 THEN a % chunkSize ELSE 0) = Cut(a, b, i - 1) - x
    BY <2>2, <2>3, <2>7, <2>8
  <2>10. (IF i = count /\ x + chunkSize > b THEN b - x
          ELSE IF i = 1 THEN first ELSE chunkSize) = Cut(a, b, i) - x
    <3>1. CASE i = Count(a, b) /\ x + chunkSize > b
      BY <1>7, <2>7, <3>1, Zenon
    <3>2. CASE ~(i = Count(a, b) /\ x + chunkSize > b)
      <4>1. Cut(a, b, i) = x + chunkSize /\ x + chunkSize <= b
        BY <1>4, <2>3, <2>7, <3>2
      <4>2. i = 1 => first = chunkSize
        BY <2>2, <2>3, <2>8, <4>1 DEF Minimum
      <4> QED
        BY <1>7, <2>3, <3>2, <4>1, <4>2
    <3> QED
      BY <3>1, <3>2, Zenon
  <2> HIDE DEF first
  <2> QED
    BY <2>1, <2>4, <2>5, <2>6, <2>9, <2>10, Zenon DEF Want
<1> HIDE DEF Chunk
<1> QED
  BY <1>1, <1>7, <1>8, Zenon

-----------------------------------------------------------------------------
\* A run of bytes is a sequence of offsets.
LEMMA BytesSeq ==
    ASSUME NEW a \in Nat, NEW b \in Nat, a <= b
    PROVE  /\ Bytes(a, b) \in Seq(Nat) /\ Len(Bytes(a, b)) = b - a
           /\ \A i \in 1 .. b - a : Bytes(a, b)[i] = a + i - 1
           /\ a < b => Bytes(a, b) # <<>>
<1>1. /\ Bytes(a, b) \in Seq(Nat) /\ Len(Bytes(a, b)) = b - a
      /\ \A i \in 1 .. b - a : Bytes(a, b)[i] = a + i - 1
  BY DEF Bytes
<1>2. a < b => Bytes(a, b) # <<>>
  BY <1>1
<1> QED
  BY <1>1, <1>2, Zenon

\* A slice of a run of bytes is a run of bytes.
LEMMA BytesSlice ==
    ASSUME NEW a \in Nat, NEW b \in Nat, NEW k \in Nat, NEW m \in Nat,
           a <= b, k <= m, m <= b - a
    PROVE  SubSeq(Bytes(a, b), k + 1, m) = Bytes(a + k, a + m)
  BY DEF Bytes

\* Where a chunk ends in the file, and the bytes of it.
ChunkEnd(c) == Minimum((c + 1) * chunkSize, fileSize)
ChunkBytes(c) == Bytes(c * chunkSize, ChunkEnd(c))

\* A chunk begins inside of the file.
LEMMA ChunkBounds ==
    /\ \A c \in Nat : c \in Chunks <=> c * chunkSize < fileSize
    /\ \A c \in Chunks : /\ c \in Nat /\ c * chunkSize \in Nat /\ ChunkEnd(c) \in Nat
                         /\ c * chunkSize < ChunkEnd(c)
                         /\ ChunkEnd(c) <= c * chunkSize + chunkSize
<1>1. chunkSize \in Nat \ {0} /\ fileSize \in Nat \ {0} /\ fileSize - 1 \in Nat
  BY FileCacheAssumption
<1>2. PICK l \in Nat : /\ l = (fileSize - 1) \div chunkSize
                      /\ l * chunkSize <= fileSize - 1
                      /\ fileSize - 1 < (l + 1) * chunkSize
  <2>1. PICK x \in Nat : x = fileSize - 1
    BY <1>1, Zenon
  <2> QED
    BY <1>1, <2>1, DivMod
<1>3. Chunks = 0 .. l
  BY <1>2, Zenon DEF Chunks
<1>4. ASSUME NEW c \in Nat PROVE c \in Chunks <=> c * chunkSize < fileSize
  <2>1. ASSUME c \in Chunks PROVE c * chunkSize < fileSize
    <3>1. c * chunkSize <= l * chunkSize
      BY <1>1, <1>3, <2>1, ProductGrows
    <3> QED
      BY <1>1, <1>2, <3>1
  <2>2. ASSUME c * chunkSize < fileSize PROVE c \in Chunks
    <3>1. c * chunkSize < (l + 1) * chunkSize
      BY <1>1, <1>2, <2>2
    <3>2. c < l + 1
      BY <1>1, <3>1, FactorLess
    <3> QED
      BY <1>3, <3>2
  <2> QED
    BY <2>1, <2>2, Zenon
<1>5. ASSUME NEW c \in Chunks
      PROVE  /\ c \in Nat /\ c * chunkSize \in Nat /\ ChunkEnd(c) \in Nat
             /\ c * chunkSize < ChunkEnd(c)
             /\ ChunkEnd(c) <= c * chunkSize + chunkSize
  <2>1. c \in Nat
    BY <1>3
  <2>2. PICK x \in Nat : x = c * chunkSize /\ (c + 1) * chunkSize = x + chunkSize
    BY <1>1, <2>1
  <2>3. x < fileSize
    BY <1>4, <2>1, <2>2, Zenon
  <2> QED
    BY <1>1, <2>1, <2>2, <2>3 DEF ChunkEnd, Minimum
<1> QED
  BY <1>4, <1>5, Zenon

\* A fetch begins and ends between chunks, or ends with the file, and the chunk
\* it is for lies in it (file_cache.go:347).
LEMMA FetchRange ==
    ASSUME NEW c \in Chunks
    PROVE  /\ fetchStart(c) \in Nat /\ fetchEnd(c) \in Nat /\ fetchEnd(c) <= fileSize
           /\ fetchStart(c) <= c * chunkSize /\ c * chunkSize < fetchEnd(c)
           /\ fetchStart(c) \div chunkSize \in Nat
           /\ (fetchStart(c) \div chunkSize) * chunkSize = fetchStart(c)
           /\ \A p \in Nat : p * chunkSize < fetchEnd(c) =>
                /\ p \in Chunks
                /\ Minimum((p + 1) * chunkSize, fetchEnd(c)) = ChunkEnd(p)
                /\ ChunkEnd(p) <= fetchEnd(c)
<1>1. /\ chunkSize \in Nat \ {0} /\ fileSize \in Nat \ {0} /\ fetchSize \in Nat \ {0}
      /\ fetchSize % chunkSize = 0
  BY FileCacheAssumption
<1>2. c \in Nat /\ c * chunkSize \in Nat /\ c * chunkSize < fileSize
  BY ChunkBounds, Zenon
<1>3. PICK m \in Nat : fetchSize = m * chunkSize
  <2>1. /\ fetchSize \div chunkSize \in Nat
        /\ fetchSize = (fetchSize \div chunkSize) * chunkSize + (fetchSize % chunkSize)
    BY <1>1, DivMod, Zenon
  <2>2. PICK m \in Nat : m = fetchSize \div chunkSize
    BY <2>1, Zenon
  <2>3. fetchSize = m * chunkSize
    BY <1>1, <2>1, <2>2
  <2> QED
    BY <2>3, Zenon
<1>4. PICK f \in Nat : /\ f = (c * chunkSize) \div fetchSize
                      /\ f * fetchSize <= c * chunkSize
                      /\ c * chunkSize < f * fetchSize + fetchSize
  <2>1. PICK x \in Nat : x = c * chunkSize
    BY <1>2, Zenon
  <2>2. /\ x \div fetchSize \in Nat /\ x % fetchSize \in 0 .. fetchSize - 1
        /\ x = (x \div fetchSize) * fetchSize + (x % fetchSize)
    BY <1>1, DivMod, Zenon
  <2>3. PICK f \in Nat : f = x \div fetchSize
    BY <2>2, Zenon
  <2>4. f * fetchSize <= x /\ x < f * fetchSize + fetchSize
    BY <1>1, <2>2, <2>3
  <2> QED
    BY <2>1, <2>3, <2>4, Zenon
<1>5. fetchStart(c) = f * fetchSize /\ f * fetchSize \in Nat
  BY <1>1, <1>4 DEF fetchStart
<1>6. PICK k \in Nat : k = f * m /\ fetchStart(c) = k * chunkSize
  <2>1. f * m \in Nat /\ f * (m * chunkSize) = (f * m) * chunkSize
    BY <1>1
  <2> QED
    BY <1>3, <1>5, <2>1, Zenon
<1>7. fetchStart(c) \div chunkSize = k
  <2>1. k * chunkSize < (k + 1) * chunkSize
    BY <1>1
  <2>2. PICK x \in Nat : x = fetchStart(c)
    BY <1>5, Zenon
  <2>3. k * chunkSize <= x /\ x < (k + 1) * chunkSize
    BY <1>6, <2>1, <2>2
  <2>4. x \div chunkSize = k
    BY <1>1, <2>3, DivUnique, Zenon
  <2> QED
    BY <2>2, <2>4, Zenon
<1>8. fetchStart(c) + fetchSize = (k + m) * chunkSize
  BY <1>1, <1>3, <1>6
<1>9. /\ fetchEnd(c) \in Nat /\ fetchEnd(c) <= fileSize /\ c * chunkSize < fetchEnd(c)
      /\ fetchEnd(c) <= fetchStart(c) + fetchSize
      /\ fetchEnd(c) = fileSize \/ fetchEnd(c) = fetchStart(c) + fetchSize
  BY <1>1, <1>2, <1>4, <1>5 DEF fetchEnd, Minimum
<1>10. ASSUME NEW p \in Nat, p * chunkSize < fetchEnd(c)
       PROVE  /\ p \in Chunks
              /\ Minimum((p + 1) * chunkSize, fetchEnd(c)) = ChunkEnd(p)
              /\ ChunkEnd(p) <= fetchEnd(c)
  <2>1. PICK x \in Nat, y \in Nat : x = p * chunkSize /\ y = (p + 1) * chunkSize
    BY <1>1
  <2>2. p \in Chunks
    BY <1>1, <1>9, <1>10, <2>1, ChunkBounds
  <2>3. y <= fetchStart(c) + fetchSize
    <3>1. p * chunkSize < (k + m) * chunkSize
      BY <1>5, <1>1, <1>8, <1>9, <1>10, <2>1
    <3>2. p + 1 <= k + m
      BY <1>1, <3>1, FactorLess
    <3>3. (p + 1) * chunkSize <= (k + m) * chunkSize
      BY <1>1, <3>2, ProductGrows
    <3> QED
      BY <1>8, <2>1, <3>3, Zenon
  <2> QED
    BY <1>1, <1>5, <1>9, <2>1, <2>2, <2>3 DEF ChunkEnd, Minimum
<1> QED
  BY <1>5, <1>4, <1>6, <1>7, <1>9, <1>10, Zenon

-----------------------------------------------------------------------------
\* Where a goroutine of getRange is at work.
Working == {"get", "do", "wait", "fetch", "again"}

\* A range was asked for and not refused; its pieces.
Valid(s) == req[s] # NoRange /\ ~Refused(req[s][1], req[s][2])
Pieces(s) == Count(req[s][1], req[s][2])
CutOf(s, i) == Cut(req[s][1], req[s][2], i)
WantOf(s, i) == Want(req[s][1], req[s][2], i)

ChunkToRead == [idx: Nat, start: Nat, end: Nat]

CacheTypes ==
    /\ TypeOKStreams
    /\ pc \in [Streams -> Working \cup {"idle", "done"}]
    /\ req \in [Streams -> (Int \X Int) \cup {NoRange}]
    /\ \A s \in Streams : req[s] \in Ranges[s] \cup {NoRange}
    /\ toRead \in [Streams -> Seq(ChunkToRead)]
    /\ out \in [Streams -> Seq(Seq(Nat))]
    /\ putIdx \in [Streams -> Nat]
    /\ chunkCache \in [Chunks -> Seq(Nat)]

\* What is in the cache is the chunk of the file.
CacheOK == \A c \in Chunks : chunkCache[c] \in {<<>>, ChunkBytes(c)}

\* The pieces written are the first ones of the range, and those to read are
\* the others.
PlanOK(s) ==
    /\ pc[s] = "idle" <=> req[s] = NoRange
    /\ pc[s] \in Working => Valid(s) /\ toRead[s] # <<>>
    /\ ~Valid(s) => out[s] = <<>>
    /\ Valid(s) =>
         /\ Len(out[s]) + Len(toRead[s]) = Pieces(s)
         /\ \A i \in 1 .. Len(toRead[s]) : toRead[s][i] = WantOf(s, Len(out[s]) + i)
         /\ \A i \in 1 .. Len(out[s]) : out[s][i] = Bytes(CutOf(s, i - 1), CutOf(s, i))

\* No link is ahead of the pipe, one that has ended has passed everything on,
\* without a fault nothing but a refusal is an error, and nothing happens before
\* the request.
LinkOK(s) ==
    /\ pc[s] \in Working => link[s][1].end \in {"open", "closed"}
    /\ link[s][1].n = Len(out[s])
    /\ \A h \in Links :
         /\ link[s][h].n <= Len(out[s])
         /\ link[s][h].end = "eof" => Valid(s) /\ link[s][h].n = Pieces(s)
         /\ faults = 0 /\ link[s][h].end \in {"error", "closed"} => ~Valid(s)
         /\ req[s] = NoRange => link[s][h].end = "open"

\* A fetch has not come to its end, and without a fault the chunks it has Put
\* are in the cache, at last the one it was made for.
FetchOK(s) ==
    /\ pc[s] = "fetch" =>
         /\ putIdx[s] * chunkSize < fetchEnd(Current(s))
         /\ faults = 0 => \A c \in Chunks :
                fetchStart(Current(s)) <= c * chunkSize /\ c < putIdx[s] =>
                    chunkCache[c] # <<>>
    /\ pc[s] = "again" /\ faults = 0 => chunkCache[Current(s)] # <<>>

StreamOK(s) == PlanOK(s) /\ LinkOK(s) /\ FetchOK(s)

FileCacheInv == CacheTypes /\ CacheOK /\ \A s \in Streams : StreamOK(s)

-----------------------------------------------------------------------------
\* Links, requests and plans have typed parts.
LEMMA StreamFields ==
    ASSUME CacheTypes, NEW s \in Streams
    PROVE  /\ faults \in Nat /\ 1 \in Links /\ Hops + 1 \in Links
           /\ link[s] \in [Links -> LinkState]
           /\ \A h \in Links : link[s][h] \in LinkState /\ link[s][h].n \in Nat
                                                      /\ link[s][h].end \in Ends
           /\ pc[s] \in Working \cup {"idle", "done"}
           /\ req[s] # NoRange => req[s][1] \in Int /\ req[s][2] \in Int
           /\ Valid(s) => /\ req[s][1] \in Nat /\ req[s][2] \in Nat
                          /\ req[s][1] < req[s][2] /\ req[s][2] <= fileSize
           /\ toRead[s] \in Seq(ChunkToRead) /\ out[s] \in Seq(Seq(Nat))
           /\ putIdx[s] \in Nat
<1>1. faults \in Nat /\ 1 \in Links /\ Hops + 1 \in Links
  BY StreamsAssumption DEF CacheTypes, TypeOKStreams, Links
<1>2. /\ link[s] \in [Links -> LinkState]
      /\ \A h \in Links : link[s][h] \in LinkState /\ link[s][h].n \in Nat
                                                 /\ link[s][h].end \in Ends
  BY Zenon DEF CacheTypes, TypeOKStreams, LinkState
<1>3. req[s] # NoRange => req[s][1] \in Int /\ req[s][2] \in Int
  BY Zenon DEF CacheTypes
<1>4. Valid(s) => /\ req[s][1] \in Nat /\ req[s][2] \in Nat
                  /\ req[s][1] < req[s][2] /\ req[s][2] <= fileSize
  BY <1>3, FileCacheAssumption DEF Valid, Refused
<1> QED
  BY <1>1, <1>2, <1>3, <1>4, Zenon DEF CacheTypes

\* The current chunk of a goroutine at work is the next piece of its range.
LEMMA CurrentPiece ==
    ASSUME CacheTypes, NEW s \in Streams, PlanOK(s), pc[s] \in Working
    PROVE  /\ Valid(s) /\ Len(out[s]) + 1 \in 1 .. Pieces(s)
           /\ Head(toRead[s]) = WantOf(s, Len(out[s]) + 1)
           /\ Current(s) = FirstChunk(req[s][1]) + Len(out[s])
           /\ Current(s) \in Chunks
<1>1. /\ Valid(s) /\ toRead[s] # <<>> /\ Len(out[s]) + Len(toRead[s]) = Pieces(s)
      /\ \A i \in 1 .. Len(toRead[s]) : toRead[s][i] = WantOf(s, Len(out[s]) + i)
  BY Zenon DEF PlanOK
<1>2. toRead[s] \in Seq(ChunkToRead) /\ out[s] \in Seq(Seq(Nat))
  BY StreamFields, Zenon
<1>3. Len(toRead[s]) \in Nat \ {0} /\ Len(out[s]) \in Nat /\ Head(toRead[s]) = toRead[s][1]
  BY <1>1, <1>2
<1>4. Len(out[s]) + 1 \in 1 .. Pieces(s) /\ Head(toRead[s]) = WantOf(s, Len(out[s]) + 1)
  <2>1. 1 \in 1 .. Len(toRead[s])
    BY <1>3
  <2>2. toRead[s][1] = WantOf(s, Len(out[s]) + 1)
    BY <1>1, <2>1, Zenon
  <2>3. Pieces(s) = Len(out[s]) + Len(toRead[s])
    BY <1>1, Zenon
  <2>4. Len(out[s]) + 1 \in 1 .. Pieces(s)
    <3>1. PICK k \in Nat, l \in Nat \ {0} : k = Len(out[s]) /\ l = Len(toRead[s])
      BY <1>3, Zenon
    <3>2. k + 1 \in 1 .. k + l
      OBVIOUS
    <3> QED
      BY <2>3, <3>1, <3>2, Zenon
  <2> QED
    BY <1>3, <2>2, <2>4, Zenon
<1>5. /\ req[s][1] \in Nat /\ req[s][2] \in Nat
      /\ req[s][1] < req[s][2] /\ req[s][2] <= fileSize
  BY <1>1, StreamFields, Zenon
<1>6. FirstChunk(req[s][1]) \in Nat
  BY <1>5, RangeBounds, Zenon
<1>7. PICK c \in Nat : c = FirstChunk(req[s][1]) + Len(out[s])
  BY <1>3, <1>6
<1>8. Current(s) = c
  BY <1>3, <1>4, <1>6, <1>7 DEF Current, WantOf, Want
<1>9. c * chunkSize < req[s][2]
  <2>1. (FirstChunk(req[s][1]) + (Len(out[s]) + 1) - 1) * chunkSize < req[s][2]
    BY <1>4, <1>5, CutsGrow, Zenon DEF Pieces
  <2>2. FirstChunk(req[s][1]) + (Len(out[s]) + 1) - 1 = c
    BY <1>3, <1>6, <1>7
  <2> QED
    BY <2>1, <2>2, Zenon
<1>10. c \in Chunks
  <2>1. c * chunkSize \in Nat /\ fileSize \in Nat
    BY FileCacheAssumption
  <2> QED
    BY <1>5, <1>9, <2>1, ChunkBounds
<1> QED
  BY <1>1, <1>4, <1>7, <1>8, <1>10, Zenon

\* The slice that is written as piece i is the one between two cuts.
SliceIs(s, i) ==
    /\ ~(Head(toRead[s]).end > Len(ChunkBytes(Current(s))))
    /\ SubSeq(ChunkBytes(Current(s)), Head(toRead[s]).start + 1, Head(toRead[s]).end)
         = Bytes(CutOf(s, i - 1), CutOf(s, i))
    /\ CutOf(s, i - 1) \in Nat /\ CutOf(s, i) \in Nat /\ CutOf(s, i - 1) < CutOf(s, i)

\* Slicing the current chunk never panics, and gives the bytes between the cuts
\* (file_cache.go:216).
LEMMA SliceIsPiece ==
    ASSUME CacheTypes, NEW s \in Streams, PlanOK(s), pc[s] \in Working
    PROVE  SliceIs(s, Len(out[s]) + 1)
<1>0. PICK i : i = Len(out[s]) + 1
  BY Zenon
<1>1. /\ Valid(s) /\ i \in 1 .. Pieces(s) /\ Head(toRead[s]) = WantOf(s, i)
      /\ Current(s) = FirstChunk(req[s][1]) + Len(out[s]) /\ Current(s) \in Chunks
  BY <1>0, CurrentPiece, Zenon
<1>2. /\ req[s][1] \in Nat /\ req[s][2] \in Nat
      /\ req[s][1] < req[s][2] /\ req[s][2] <= fileSize
  BY <1>1, StreamFields, Zenon
<1>3. Len(out[s]) \in Nat /\ FirstChunk(req[s][1]) \in Nat
  <2>1. out[s] \in Seq(Seq(Nat))
    BY StreamFields, Zenon
  <2> QED
    BY <1>2, <2>1, RangeBounds, SMTT(30)
<1>4. FirstChunk(req[s][1]) + i - 1 = Current(s)
  BY <1>0, <1>1, <1>3
<1>5. PICK x \in Nat : x = Current(s) * chunkSize
  BY <1>1, ChunkBounds, Zenon
<1>6. /\ CutOf(s, i - 1) \in Nat /\ CutOf(s, i) \in Nat
      /\ CutOf(s, i - 1) < CutOf(s, i) /\ CutOf(s, i) <= req[s][2]
      /\ x <= CutOf(s, i - 1) /\ CutOf(s, i) <= x + chunkSize
  BY <1>1, <1>2, <1>4, <1>5, CutsGrow, SMTT(30) DEF CutOf, Pieces
<1>7. Head(toRead[s]).start = CutOf(s, i - 1) - x /\ Head(toRead[s]).end = CutOf(s, i) - x
  BY <1>1, <1>4, <1>5 DEF WantOf, Want, CutOf
<1>8. /\ ChunkEnd(Current(s)) \in Nat /\ CutOf(s, i) <= ChunkEnd(Current(s))
      /\ x < ChunkEnd(Current(s))
  <2>1. (Current(s) + 1) * chunkSize = x + chunkSize
    BY <1>1, <1>5, ChunkBounds, FileCacheAssumption
  <2>2. ChunkEnd(Current(s)) = IF x + chunkSize < fileSize THEN x + chunkSize ELSE fileSize
    BY <2>1, Zenon DEF ChunkEnd, Minimum
  <2>3. x < fileSize
    BY <1>1, <1>5, ChunkBounds, Zenon
  <2> QED
    BY <1>2, <1>6, <2>2, <2>3, FileCacheAssumption
<1>9. ChunkBytes(Current(s)) = Bytes(x, ChunkEnd(Current(s)))
  BY <1>5, Zenon DEF ChunkBytes
<1>10. PICK e \in Nat, k \in Nat, m \in Nat :
           e = ChunkEnd(Current(s)) /\ k = CutOf(s, i - 1) - x /\ m = CutOf(s, i) - x
  BY <1>6, <1>8
<1>11. x <= e /\ k <= m /\ m <= e - x /\ x + k = CutOf(s, i - 1) /\ x + m = CutOf(s, i)
  BY <1>6, <1>8, <1>10
<1>12. Len(Bytes(x, e)) = e - x /\ SubSeq(Bytes(x, e), k + 1, m) = Bytes(x + k, x + m)
  <2>1. Len(Bytes(x, e)) = e - x
    BY <1>11, BytesSeq, Zenon
  <2>2. SubSeq(Bytes(x, e), k + 1, m) = Bytes(x + k, x + m)
    BY <1>11, BytesSlice, Zenon
  <2> QED
    BY <2>1, <2>2, Zenon
<1>13. /\ ~(Head(toRead[s]).end > Len(ChunkBytes(Current(s))))
       /\ SubSeq(ChunkBytes(Current(s)), Head(toRead[s]).start + 1, Head(toRead[s]).end)
            = Bytes(CutOf(s, i - 1), CutOf(s, i))
  <2>1. Head(toRead[s]).start = k /\ Head(toRead[s]).end = m
    BY <1>7, <1>10, Zenon
  <2>2. Len(ChunkBytes(Current(s))) = e - x
    BY <1>9, <1>10, <1>12, Zenon
  <2>3. SubSeq(ChunkBytes(Current(s)), k + 1, m) = Bytes(CutOf(s, i - 1), CutOf(s, i))
    BY <1>9, <1>10, <1>11, <1>12, Zenon
  <2>4. ~(Head(toRead[s]).end > Len(ChunkBytes(Current(s))))
    BY <1>11, <2>1, <2>2
  <2> QED
    BY <2>1, <2>3, <2>4, Zenon
<1>14. SliceIs(s, i)
  BY <1>6, <1>13, Zenon DEF SliceIs
<1> QED
  BY <1>0, <1>14, Zenon

-----------------------------------------------------------------------------
\* How a step may move a goroutine without reading or writing its plan, and
\* what keeps a fetch right: no fault so far, and nothing leaves the cache.
Moves(s) ==
    \/ pc'[s] = pc[s]
    \/ pc[s] \in Working /\ pc'[s] \in Working \cup {"done"}

SamePlan(s) == req'[s] = req[s] /\ toRead'[s] = toRead[s] /\ out'[s] = out[s]

KeepsCache ==
    faults' = 0 => /\ faults = 0
                   /\ \A c \in Chunks : chunkCache[c] # <<>> => chunkCache'[c] # <<>>

\* The plan of a stream that a step leaves alone.
LEMMA PlanFrame ==
    ASSUME NEW s \in Streams, PlanOK(s), Moves(s), SamePlan(s)
    PROVE  PlanOK(s)'
  BY Zenon DEF PlanOK, Moves, SamePlan, Valid, Pieces, CutOf, WantOf, Working

\* The links of a stream that a step leaves alone.
LEMMA LinkFrame ==
    ASSUME NEW s \in Streams, LinkOK(s), Moves(s), SamePlan(s), link'[s] = link[s],
           faults' = 0 => faults = 0
    PROVE  LinkOK(s)'
  BY Zenon DEF LinkOK, Moves, SamePlan, Valid, Pieces, Working

\* The fetch of a stream that a step leaves alone.
LEMMA FetchFrame ==
    ASSUME CacheTypes, NEW s \in Streams, PlanOK(s), FetchOK(s), SamePlan(s),
           pc'[s] = pc[s], putIdx'[s] = putIdx[s], KeepsCache
    PROVE  FetchOK(s)'
<1>1. Current(s)' = Current(s)
  BY Zenon DEF Current, SamePlan
<1>2. pc[s] = "again" => Current(s) \in Chunks
  BY CurrentPiece, Zenon DEF Working
<1> QED
  BY <1>1, <1>2, Zenon DEF FetchOK, KeepsCache

\* A stream that a step leaves alone.
LEMMA StreamFrame ==
    ASSUME CacheTypes, NEW s \in Streams, StreamOK(s), SamePlan(s), pc'[s] = pc[s],
           putIdx'[s] = putIdx[s], link'[s] = link[s], KeepsCache
    PROVE  StreamOK(s)'
<1>1. Moves(s) /\ (faults' = 0 => faults = 0)
  BY Zenon DEF Moves, KeepsCache
<1> QED
  BY <1>1, PlanFrame, LinkFrame, FetchFrame, Zenon DEF StreamOK

\* InvokeStream: the plan covers the range (file_cache.go:146).
LEMMA InvokeStep ==
    ASSUME FileCacheInv, NEW s \in Streams, NEW r \in Ranges[s], InvokeStream(s, r[1], r[2])
    PROVE  FileCacheInv'
<1>1. CacheTypes /\ CacheOK /\ \A t \in Streams : StreamOK(t)
  BY Zenon DEF FileCacheInv
<1>2. r \in Int \X Int /\ <<r[1], r[2]>> = r /\ r # NoRange
  BY FileCacheAssumption DEF NoRange
<1>3. pc[s] = "idle" /\ req[s] = NoRange /\ out[s] = <<>>
  BY <1>1, Zenon DEF InvokeStream, StreamOK, PlanOK, Valid
<1>4. /\ req' = [req EXCEPT ![s] = r] /\ req'[s] = r
      /\ UNCHANGED <<faults, out, putIdx, chunkCache>>
  BY <1>1, <1>2, Zenon DEF InvokeStream, CacheTypes
<1>5. KeepsCache
  BY <1>4, Zenon DEF KeepsCache
<1>6. CASE Refused(r[1], r[2])
  <2>1. /\ pc' = [pc EXCEPT ![s] = "done"] /\ toRead' = toRead
        /\ link' = [link EXCEPT ![s] = [h \in Links |-> [n |-> 0, end |-> "error"]]]
    BY <1>6, Zenon DEF InvokeStream
  <2>2. CacheTypes'
    <3>1. [h \in Links |-> [n |-> 0, end |-> "error"]] \in [Links -> LinkState]
      BY Zenon DEF LinkState, Ends
    <3> QED
      BY <1>1, <1>2, <1>4, <2>1, <3>1, Zenon DEF CacheTypes, TypeOKStreams
  <2>3. StreamOK(s)'
    <3>1. pc'[s] = "done" /\ out'[s] = <<>> /\ ~Valid(s)' /\ req'[s] # NoRange
      BY <1>1, <1>2, <1>3, <1>4, <1>6, <2>1, Zenon DEF CacheTypes, Valid
    <3>2. \A h \in Links : link'[s][h].n = 0 /\ link'[s][h].end = "error"
      BY <1>1, <2>1, Zenon DEF CacheTypes, TypeOKStreams
    <3>3. 1 \in Links
      BY <1>1, StreamFields, Zenon
    <3>4. PlanOK(s)'
      BY <3>1, Zenon DEF PlanOK, Working
    <3>5. LinkOK(s)'
      BY <3>1, <3>2, <3>3 DEF LinkOK, Working
    <3> QED
      BY <3>1, <3>4, <3>5, Zenon DEF StreamOK, FetchOK
  <2>4. ASSUME NEW t \in Streams, t # s PROVE StreamOK(t)'
    <3>1. SamePlan(t) /\ pc'[t] = pc[t] /\ putIdx'[t] = putIdx[t] /\ link'[t] = link[t]
      BY <1>1, <1>4, <2>1, <2>4, Zenon DEF SamePlan, CacheTypes, TypeOKStreams
    <3> QED
      BY <1>1, <1>5, <3>1, StreamFrame, Zenon
  <2> QED
    BY <1>1, <1>4, <2>2, <2>3, <2>4, Zenon DEF FileCacheInv, CacheOK
<1>7. CASE ~Refused(r[1], r[2])
  <2>1. /\ pc' = [pc EXCEPT ![s] = "get"] /\ link' = link
        /\ toRead' = [toRead EXCEPT ![s] = rangeToChunkIndexes(r[1], r[2])]
    BY <1>7, Zenon DEF InvokeStream
  <2>2. r[1] \in Nat /\ r[2] \in Nat /\ r[1] < r[2]
    BY <1>2, <1>7 DEF Refused
  <2>a. PICK k \in Nat \ {0} : k = Count(r[1], r[2])
    BY <2>2, CutsGrow, Zenon
  <2>3. PICK plan : /\ plan = rangeToChunkIndexes(r[1], r[2]) /\ k = Count(r[1], r[2])
                    /\ plan = [i \in 1 .. k |-> Want(r[1], r[2], i)]
    BY <2>2, <2>a, RangeToChunks, Zenon
  <2>4. \A i \in 1 .. k : Want(r[1], r[2], i) \in ChunkToRead
    <3> SUFFICES ASSUME NEW i \in 1 .. k PROVE Want(r[1], r[2], i) \in ChunkToRead
      BY Zenon
    <3>1. PICK c \in Nat : c = FirstChunk(r[1]) + i - 1
      BY <2>2, RangeBounds
    <3>2. PICK x \in Nat : x = c * chunkSize
      BY FileCacheAssumption
    <3>3. /\ Cut(r[1], r[2], i - 1) \in Nat /\ Cut(r[1], r[2], i) \in Nat
          /\ x <= Cut(r[1], r[2], i - 1) /\ Cut(r[1], r[2], i - 1) < Cut(r[1], r[2], i)
      BY <2>2, <2>3, <3>1, <3>2, CutsGrow, Zenon
    <3>4. Want(r[1], r[2], i) = [idx |-> c, start |-> Cut(r[1], r[2], i - 1) - x,
                                 end |-> Cut(r[1], r[2], i) - x]
      BY <3>1, <3>2, Zenon DEF Want
    <3> QED
      BY <3>3, <3>4 DEF ChunkToRead
  <2>5. plan \in Seq(ChunkToRead) /\ Len(plan) = k /\ plan # <<>>
    BY <2>3, <2>4
  <2>6. CacheTypes'
    BY <1>1, <1>2, <1>4, <2>1, <2>3, <2>5, Zenon DEF CacheTypes, TypeOKStreams, Working
  <2>7. StreamOK(s)'
    <3>1. pc'[s] = "get" /\ out'[s] = <<>> /\ Valid(s)' /\ toRead'[s] = plan /\ link'[s] = link[s]
      BY <1>1, <1>2, <1>3, <1>4, <1>7, <2>1, <2>3, Zenon DEF CacheTypes, Valid
    <3>2. \A h \in Links : link[s][h].n = 0 /\ link[s][h].end = "open"
      <4>1. LinkOK(s) /\ Len(out[s]) = 0
        BY <1>1, <1>3, Zenon DEF StreamOK
      <4> QED
        BY <1>1, <1>3, <4>1, StreamFields DEF LinkOK
    <3>3. 1 \in Links
      BY <1>1, StreamFields, Zenon
    <3>4. PlanOK(s)'
      BY <1>2, <1>4, <2>3, <2>5, <3>1 DEF PlanOK, Working, Pieces, WantOf
    <3>5. LinkOK(s)'
      BY <3>1, <3>2, <3>3 DEF LinkOK, Valid
    <3> QED
      BY <3>1, <3>4, <3>5, Zenon DEF StreamOK, FetchOK
  <2>8. ASSUME NEW t \in Streams, t # s PROVE StreamOK(t)'
    <3>1. SamePlan(t) /\ pc'[t] = pc[t] /\ putIdx'[t] = putIdx[t] /\ link'[t] = link[t]
      BY <1>1, <1>4, <2>1, <2>8, Zenon DEF SamePlan, CacheTypes
    <3> QED
      BY <1>1, <1>5, <3>1, StreamFrame, Zenon
  <2> QED
    BY <1>1, <1>4, <2>6, <2>7, <2>8, Zenon DEF FileCacheInv, CacheOK
<1> QED
  BY <1>6, <1>7, Zenon

\* Goroutines that give up after a fault leave a pipe that ends in an error.
LEMMA FailStep ==
    ASSUME FileCacheInv, NEW S \in SUBSET Streams, \A t \in S : pc[t] \in Working, Fail(S),
           UNCHANGED <<req, toRead, out, putIdx, chunkCache>>, faults' \in 1 .. MaxFaults
    PROVE  FileCacheInv'
<1>1. CacheTypes /\ CacheOK /\ \A t \in Streams : StreamOK(t)
  BY Zenon DEF FileCacheInv
<1>2. faults' # 0 /\ KeepsCache
  BY StreamsAssumption DEF KeepsCache
<1>3. ASSUME NEW t \in Streams
      PROVE  /\ link'[t] \in [Links -> LinkState]
             /\ \A h \in Links : /\ link'[t][h].n = link[t][h].n
                                 /\ link'[t][h].end # link[t][h].end =>
                                        t \in S /\ link'[t][h].end = "error"
             /\ t \notin S => link'[t] = link[t] /\ pc'[t] = pc[t]
             /\ t \in S => pc'[t] = "done"
  <2>1. link[t] \in [Links -> LinkState] /\ 1 \in Links
    BY <1>1, StreamFields, Zenon
  <2>2. link[t][1] \in LinkState
    BY <2>1, Zenon
  <2>3. [link[t] EXCEPT ![1].end = "error"] \in [Links -> LinkState]
    BY <2>1, <2>2, Zenon DEF LinkState, Ends
  <2> QED
    BY <2>1, <2>2, <2>3, Zenon DEF Fail, LinkState
<1>4. CacheTypes'
  <2>1. pc' \in [Streams -> Working \cup {"idle", "done"}]
    BY <1>1, Zenon DEF CacheTypes, Fail
  <2>2. link' \in [Streams -> [Links -> LinkState]]
    BY <1>3, Zenon DEF Fail
  <2>3. faults' \in 0 .. MaxFaults
    BY StreamsAssumption
  <2> QED
    BY <1>1, <2>1, <2>2, <2>3, Zenon DEF CacheTypes, TypeOKStreams
<1>5. ASSUME NEW t \in Streams PROVE StreamOK(t)'
  <2>1. SamePlan(t) /\ putIdx'[t] = putIdx[t]
    BY Zenon DEF SamePlan
  <2>2. CASE t \notin S
    BY <1>1, <1>2, <1>3, <2>1, <2>2, StreamFrame, Zenon
  <2>3. CASE t \in S
    <3>1. pc'[t] = "done" /\ pc[t] \in Working
      BY <1>3, <2>3, Zenon
    <3>2. PlanOK(t)'
      BY <1>1, <2>1, <3>1, PlanFrame, Zenon DEF StreamOK, Moves
    <3>3. LinkOK(t) /\ req[t] # NoRange /\ 1 \in Links
      BY <1>1, <3>1, StreamFields, Zenon DEF StreamOK, PlanOK, Valid
    <3>4. LinkOK(t)'
      BY <1>2, <1>3, <2>1, <3>1, <3>3, SMTT(30) DEF LinkOK, SamePlan, Valid, Pieces, Working
    <3> QED
      BY <3>1, <3>2, <3>4, Zenon DEF StreamOK, FetchOK
  <2> QED
    BY <2>2, <2>3, Zenon
<1> QED
  BY <1>1, <1>4, <1>5, Zenon DEF FileCacheInv, CacheOK

\* Taking off the head of a list, and appending to one.
LEMMA TailOf ==
    ASSUME NEW T, NEW q \in Seq(T), q # <<>>
    PROVE  /\ Tail(q) \in Seq(T) /\ Len(Tail(q)) = Len(q) - 1
           /\ \A i \in 1 .. Len(q) - 1 : Tail(q)[i] = q[i + 1]
           /\ Tail(q) = <<>> <=> Len(q) = 1
<1>1. /\ Tail(q) \in Seq(T) /\ Len(Tail(q)) = Len(q) - 1 /\ Len(q) \in Nat
      /\ \A i \in 1 .. Len(q) - 1 : Tail(q)[i] = q[i + 1]
  OBVIOUS
<1>2. \A r \in Seq(T) : r = <<>> <=> Len(r) = 0
  OBVIOUS
<1>3. Tail(q) = <<>> <=> Len(q) - 1 = 0
  BY <1>1, <1>2, Zenon
<1>4. Len(q) - 1 = 0 <=> Len(q) = 1
  BY <1>1
<1> QED
  BY <1>1, <1>3, <1>4, Zenon

LEMMA AppendTo ==
    ASSUME NEW T, NEW q \in Seq(T), NEW x \in T
    PROVE  /\ Append(q, x) \in Seq(T) /\ Len(Append(q, x)) = Len(q) + 1
           /\ \A i \in 1 .. Len(q) : Append(q, x)[i] = q[i]
           /\ Append(q, x)[Len(q) + 1] = x
  OBVIOUS

\* w.Write appends the next piece; after the last one the pipe is closed.
LEMMA WriteStep ==
    ASSUME FileCacheInv, NEW s \in Streams, pc[s] \in {"get", "again"},
           chunkCache[Current(s)] # <<>>, Write(s),
           UNCHANGED <<faults, req, putIdx, chunkCache>>
    PROVE  FileCacheInv'
<1>1. CacheTypes /\ CacheOK /\ \A t \in Streams : StreamOK(t)
  BY Zenon DEF FileCacheInv
<1>2. pc[s] \in Working /\ PlanOK(s) /\ LinkOK(s)
  BY <1>1, Zenon DEF Working, StreamOK
<1>3. /\ Valid(s) /\ Len(out[s]) + 1 \in 1 .. Pieces(s) /\ Current(s) \in Chunks
      /\ Head(toRead[s]) = WantOf(s, Len(out[s]) + 1)
  BY <1>1, <1>2, CurrentPiece, Zenon
<1>4. chunkCache[Current(s)] = ChunkBytes(Current(s))
  BY <1>1, <1>3, Zenon DEF CacheOK
<1>5. PICK piece : piece = SubSeq(chunkCache[Current(s)], Head(toRead[s]).start + 1,
                                  Head(toRead[s]).end)
  BY Zenon
<1>a. PICK k \in Nat : k = Len(out[s])
  <2>1. out[s] \in Seq(Seq(Nat))
    BY <1>1, StreamFields, Zenon
  <2> QED
    BY <2>1
<1>b. PICK j \in Nat : j = k + 1
  OBVIOUS
<1>6. /\ ~(Head(toRead[s]).end > Len(chunkCache[Current(s)]))
      /\ piece = Bytes(CutOf(s, j - 1), CutOf(s, j))
      /\ piece \in Seq(Nat)
  <2>1. /\ ~(Head(toRead[s]).end > Len(ChunkBytes(Current(s))))
        /\ SubSeq(ChunkBytes(Current(s)), Head(toRead[s]).start + 1, Head(toRead[s]).end)
             = Bytes(CutOf(s, j - 1), CutOf(s, j))
        /\ CutOf(s, j - 1) \in Nat /\ CutOf(s, j) \in Nat
        /\ CutOf(s, j - 1) < CutOf(s, j)
    <3>1. SliceIs(s, Len(out[s]) + 1)
      BY <1>1, <1>2, SliceIsPiece, Zenon
    <3>2. SliceIs(s, j)
      BY <1>a, <1>b, <3>1, Zenon
    <3> QED
      BY <3>2, Zenon DEF SliceIs
  <2>2. Bytes(CutOf(s, j - 1), CutOf(s, j)) \in Seq(Nat)
    BY <2>1, BytesSeq
  <2> QED
    BY <1>4, <1>5, <2>1, <2>2, Zenon
<1>7. CASE link[s][1].end = "closed"
  <2>1. Fail({s}) /\ UNCHANGED <<toRead, out>>
    BY <1>6, <1>7, Zenon DEF Write
  <2>2. faults # 0 /\ faults \in 0 .. MaxFaults
    BY <1>1, <1>2, <1>3, <1>7, StreamFields, Zenon DEF LinkOK, CacheTypes, TypeOKStreams
  <2>3. faults' \in 1 .. MaxFaults
    BY <2>2, StreamsAssumption
  <2> QED
    BY <1>2, <2>1, <2>3, FailStep, Zenon
<1>8. CASE link[s][1].end # "closed"
  <2>1. /\ out' = [out EXCEPT ![s] = Append(out[s], piece)]
        /\ toRead' = [toRead EXCEPT ![s] = Tail(toRead[s])]
        /\ pc' = [pc EXCEPT ![s] = IF Tail(toRead[s]) = <<>> THEN "done" ELSE "get"]
        /\ link' = [link EXCEPT ![s][1] =
                      [n |-> link[s][1].n + 1,
                       end |-> IF Tail(toRead[s]) = <<>> THEN "eof" ELSE "open"]]
    BY <1>5, <1>6, <1>8, Zenon DEF Write
  <2>a. toRead[s] \in Seq(ChunkToRead) /\ out[s] \in Seq(Seq(Nat)) /\ toRead[s] # <<>>
    BY <1>1, <1>2, StreamFields, Zenon DEF PlanOK
  <2>2. PICK l \in Nat \ {0} : l = Len(toRead[s]) /\ k + l = Pieces(s)
    <3>1. Len(toRead[s]) \in Nat \ {0}
      BY <2>a
    <3>2. Len(out[s]) + Len(toRead[s]) = Pieces(s)
      BY <1>2, <1>3, Zenon DEF PlanOK
    <3> QED
      BY <1>a, <3>1, <3>2, Zenon
  <2>3. PICK rest \in Seq(ChunkToRead) :
            /\ rest = Tail(toRead[s]) /\ Len(rest) = l - 1
            /\ \A i \in 1 .. l - 1 : rest[i] = toRead[s][i + 1]
            /\ rest = <<>> <=> l = 1
    <3>1. /\ Tail(toRead[s]) \in Seq(ChunkToRead)
          /\ Len(Tail(toRead[s])) = Len(toRead[s]) - 1
          /\ \A i \in 1 .. Len(toRead[s]) - 1 : Tail(toRead[s])[i] = toRead[s][i + 1]
          /\ Tail(toRead[s]) = <<>> <=> Len(toRead[s]) = 1
      BY <2>a, TailOf, Zenon
    <3> QED
      BY <2>2, <3>1, Zenon
  <2>4. PICK all \in Seq(Seq(Nat)) :
            /\ all = Append(out[s], piece) /\ Len(all) = k + 1
            /\ \A i \in 1 .. k : all[i] = out[s][i]
            /\ all[k + 1] = piece
    <3>1. /\ Append(out[s], piece) \in Seq(Seq(Nat))
          /\ Len(Append(out[s], piece)) = Len(out[s]) + 1
          /\ \A i \in 1 .. Len(out[s]) : Append(out[s], piece)[i] = out[s][i]
          /\ Append(out[s], piece)[Len(out[s]) + 1] = piece
      <4>1. piece \in Seq(Nat)
        BY <1>6, Zenon
      <4> QED
        BY <2>a, <4>1, AppendTo
    <3> QED
      BY <1>a, <3>1, Zenon
  <2>5. PICK new \in LinkState :
            /\ new = [n |-> link[s][1].n + 1, end |-> IF rest = <<>> THEN "eof" ELSE "open"]
            /\ new.n = k + 1 /\ new.end = IF rest = <<>> THEN "eof" ELSE "open"
    <3>1. link[s][1].n = k
      BY <1>2, <1>a, Zenon DEF LinkOK
    <3>2. PICK e : e = IF rest = <<>> THEN "eof" ELSE "open"
      BY Zenon
    <3>3. [n |-> k + 1, end |-> e] \in LinkState
      BY <3>2 DEF LinkState, Ends
    <3> QED
      BY <3>1, <3>2, <3>3, Zenon
  <2>6. /\ link' = [link EXCEPT ![s] = [link[s] EXCEPT ![1] = new]]
        /\ link'[s] = [link[s] EXCEPT ![1] = new]
        /\ link' \in [Streams -> [Links -> LinkState]]
    BY <1>1, <2>1, <2>3, <2>5, Zenon DEF CacheTypes, TypeOKStreams
  <2>7. /\ toRead'[s] = rest /\ out'[s] = all /\ req'[s] = req[s]
        /\ pc'[s] = IF rest = <<>> THEN "done" ELSE "get"
    BY <1>1, <2>1, <2>3, <2>4, Zenon DEF CacheTypes
  <2>8. CacheTypes'
    BY <1>1, <2>1, <2>3, <2>4, <2>6, Zenon DEF CacheTypes, TypeOKStreams, Working
  <2>9. PlanOK(s)'
    <3>1. \A i \in 1 .. l - 1 : rest[i] = WantOf(s, k + 1 + i)
      <4> SUFFICES ASSUME NEW i \in 1 .. l - 1 PROVE rest[i] = WantOf(s, k + 1 + i)
        BY Zenon
      <4>1. i + 1 \in 1 .. l /\ k + (i + 1) = k + 1 + i
        OBVIOUS
      <4>2. \A m \in 1 .. l : toRead[s][m] = WantOf(s, k + m)
        BY <1>2, <1>3, <1>a, <2>2, Zenon DEF PlanOK
      <4> QED
        BY <2>3, <4>1, <4>2, Zenon
    <3>2. \A i \in 1 .. k + 1 : all[i] = Bytes(CutOf(s, i - 1), CutOf(s, i))
      <4> SUFFICES ASSUME NEW i \in 1 .. k + 1
                   PROVE  all[i] = Bytes(CutOf(s, i - 1), CutOf(s, i))
        BY Zenon
      <4>1. CASE i = k + 1
        BY <1>6, <1>b, <2>4, <4>1, Zenon
      <4>2. CASE i # k + 1
        <5>1. i \in 1 .. k
          BY <4>2
        <5>2. out[s][i] = Bytes(CutOf(s, i - 1), CutOf(s, i))
          BY <1>2, <1>3, <1>a, <5>1, Zenon DEF PlanOK
        <5> QED
          BY <2>4, <5>1, <5>2, Zenon
      <4> QED
        BY <4>1, <4>2, Zenon
    <3>3. Valid(s)' /\ Pieces(s)' = Pieces(s) /\ req'[s] # NoRange
      BY <1>3, <2>7, Zenon DEF Valid, Pieces
    <3>4. /\ Len(out[s])' + Len(toRead[s])' = Pieces(s)'
          /\ Len(out[s])' = k + 1 /\ Len(toRead[s])' = l - 1
      <4>1. k + 1 + (l - 1) = k + l
        OBVIOUS
      <4> QED
        BY <2>2, <2>3, <2>4, <2>7, <3>3, <4>1, Zenon
    <3>5. \A i \in 1 .. Len(toRead[s])' : toRead[s]'[i] = WantOf(s, Len(out[s]) + i)'
      BY <2>7, <3>1, <3>4, Zenon DEF WantOf
    <3>6. \A i \in 1 .. Len(out[s])' : out[s]'[i] = Bytes(CutOf(s, i - 1), CutOf(s, i))'
      <4> SUFFICES ASSUME NEW i \in 1 .. k + 1
                   PROVE  all[i] = Bytes(CutOf(s, i - 1), CutOf(s, i))'
        BY <2>7, <3>4, Zenon
      <4>1. CutOf(s, i - 1)' = CutOf(s, i - 1) /\ CutOf(s, i)' = CutOf(s, i)
        BY <2>7, Zenon DEF CutOf
      <4> QED
        BY <3>2, <4>1, Zenon
    <3>7. pc[s]' # "idle" /\ (pc[s]' \in Working => toRead[s]' # <<>>)
      BY <2>7, Zenon DEF Working
    <3> QED
      BY <3>3, <3>4, <3>5, <3>6, <3>7, Zenon DEF PlanOK
  <2>10. LinkOK(s)'
    <3>1. Valid(s)' /\ Pieces(s)' = Pieces(s) /\ req'[s] # NoRange /\ Valid(s)
      BY <1>3, <2>7, Zenon DEF Valid, Pieces
    <3>2. Len(out[s])' = k + 1
      BY <2>4, <2>7, Zenon
    <3>3. /\ 1 \in Links /\ link'[s][1] = new
          /\ \A h \in Links \ {1} : link'[s][h] = link[s][h]
      BY <1>1, <2>6, StreamFields, Zenon
    <3>4. \A h \in Links : link[s][h].n \in Nat /\ link[s][h].n <= k
      BY <1>1, <1>2, <1>a, StreamFields, Zenon DEF LinkOK
    <3>5. rest = <<>> => k + 1 = Pieces(s)
      BY <2>2, <2>3, Zenon
    <3>6. \A h \in Links : /\ link[s][h].end = "eof" => link[s][h].n = Pieces(s)
                           /\ ~(faults = 0 /\ link[s][h].end \in {"error", "closed"})
      BY <1>2, <3>1, Zenon DEF LinkOK
    <3>7. \A h \in Links : /\ link[s]'[h].n <= k + 1
                           /\ link[s]'[h].end = "eof" => link[s]'[h].n = Pieces(s)
                           /\ ~(faults' = 0 /\ link[s]'[h].end \in {"error", "closed"})
      <4> SUFFICES ASSUME NEW h \in Links
                   PROVE  /\ link[s]'[h].n <= k + 1
                          /\ link[s]'[h].end = "eof" => link[s]'[h].n = Pieces(s)
                          /\ ~(faults' = 0 /\ link[s]'[h].end \in {"error", "closed"})
        BY Zenon
      <4>1. CASE h = 1
        BY <2>5, <3>3, <3>5, <4>1
      <4>2. CASE h # 1
        BY <3>3, <3>4, <3>6, <4>2
      <4> QED
        BY <4>1, <4>2, Zenon
    <3> QED
      BY <2>5, <2>7, <3>1, <3>2, <3>3, <3>7, Zenon DEF LinkOK, Working
  <2>11. StreamOK(s)'
    BY <2>7, <2>9, <2>10, Zenon DEF StreamOK, FetchOK
  <2>12. ASSUME NEW t \in Streams, t # s PROVE StreamOK(t)'
    <3>1. SamePlan(t) /\ pc'[t] = pc[t] /\ putIdx'[t] = putIdx[t] /\ link'[t] = link[t]
      BY <1>1, <2>1, <2>6, <2>12, Zenon DEF SamePlan, CacheTypes, TypeOKStreams
    <3>2. KeepsCache
      BY Zenon DEF KeepsCache
    <3> QED
      BY <1>1, <3>1, <3>2, StreamFrame, Zenon
  <2> QED
    BY <1>1, <2>8, <2>11, <2>12, Zenon DEF FileCacheInv, CacheOK
<1> QED
  BY <1>7, <1>8, Zenon

\* A step of a goroutine between its writes.
LEMMA MoveStep ==
    ASSUME FileCacheInv, UNCHANGED <<link, faults, req, toRead, out>>,
           pc' \in [Streams -> Working \cup {"idle", "done"}], putIdx' \in [Streams -> Nat],
           chunkCache' \in [Chunks -> Seq(Nat)], CacheOK',
           \A t \in Streams : Moves(t) /\ FetchOK(t)'
    PROVE  FileCacheInv'
<1>1. CacheTypes /\ \A t \in Streams : StreamOK(t)
  BY Zenon DEF FileCacheInv
<1>2. CacheTypes'
  BY <1>1, Zenon DEF CacheTypes, TypeOKStreams
<1>3. ASSUME NEW t \in Streams PROVE StreamOK(t)'
  <2>1. SamePlan(t) /\ link'[t] = link[t] /\ (faults' = 0 => faults = 0)
    BY Zenon DEF SamePlan
  <2> QED
    BY <1>1, <2>1, PlanFrame, LinkFrame, Zenon DEF StreamOK
<1> QED
  BY <1>2, <1>3, Zenon DEF FileCacheInv

\* The fetches of the streams that a goroutine's step leaves alone.
LEMMA OtherFetches ==
    ASSUME FileCacheInv, NEW t \in Streams, UNCHANGED <<req, toRead, out>>,
           pc'[t] = pc[t], putIdx'[t] = putIdx[t], KeepsCache
    PROVE  FetchOK(t)'
<1>1. CacheTypes /\ PlanOK(t) /\ FetchOK(t) /\ SamePlan(t)
  BY Zenon DEF FileCacheInv, StreamOK, SamePlan
<1> QED
  BY <1>1, FetchFrame, Zenon

\* The look into the cache of copyChunk (file_cache.go:210).
LEMMA GetStep ==
    ASSUME FileCacheInv, NEW s \in Streams, Get(s)
    PROVE  FileCacheInv'
<1>1. CASE chunkCache[Current(s)] # <<>>
  BY <1>1, WriteStep, Zenon DEF Get
<1>2. CASE chunkCache[Current(s)] = <<>>
  <2>1. /\ pc[s] = "get" /\ pc' = [pc EXCEPT ![s] = "do"]
        /\ UNCHANGED <<link, faults, req, toRead, out, putIdx, chunkCache>>
    BY <1>2, Zenon DEF Get
  <2>2. CacheTypes /\ CacheOK
    BY Zenon DEF FileCacheInv
  <2>3. KeepsCache /\ CacheOK'
    BY <2>1, <2>2, Zenon DEF KeepsCache, CacheOK
  <2>4. ASSUME NEW t \in Streams PROVE Moves(t) /\ FetchOK(t)'
    <3>1. CASE t = s
      BY <2>1, <2>2, <3>1, Zenon DEF CacheTypes, Moves, Working, FetchOK
    <3>2. CASE t # s
      <4>1. pc'[t] = pc[t] /\ putIdx'[t] = putIdx[t]
        BY <2>1, <2>2, <3>2, Zenon DEF CacheTypes
      <4> QED
        BY <2>1, <2>3, <4>1, OtherFetches, Zenon DEF Moves
    <3> QED
      BY <3>1, <3>2, Zenon
  <2> QED
    BY <2>1, <2>2, <2>3, <2>4, MoveStep, Zenon DEF CacheTypes, Working
<1> QED
  BY <1>1, <1>2, Zenon

\* fetchDeduper.Do begins a fetch at the first chunk of its range, or waits
\* (file_cache.go:239).
LEMMA DoStep ==
    ASSUME FileCacheInv, NEW s \in Streams, Do(s)
    PROVE  FileCacheInv'
<1>1. CacheTypes /\ CacheOK /\ PlanOK(s)
  BY Zenon DEF FileCacheInv, StreamOK
<1>2. PICK c \in Chunks : c = Current(s)
  BY <1>1, CurrentPiece, Zenon DEF Do, Working
<1>3. PICK k \in Nat : /\ k = fetchStart(c) \div chunkSize /\ k * chunkSize = fetchStart(c)
                       /\ fetchStart(c) \in Nat /\ fetchEnd(c) \in Nat
                       /\ c * chunkSize \in Nat
                       /\ fetchStart(c) <= c * chunkSize /\ c * chunkSize < fetchEnd(c)
  BY FetchRange, ChunkBounds, Zenon
<1>4. /\ pc[s] = "do" /\ UNCHANGED <<link, faults, req, toRead, out, chunkCache>>
      /\ \/ pc' = [pc EXCEPT ![s] = "fetch"] /\ putIdx' = [putIdx EXCEPT ![s] = k]
         \/ pc' = [pc EXCEPT ![s] = "wait"] /\ UNCHANGED putIdx
  BY <1>2, <1>3, Zenon DEF Do
<1>5. KeepsCache /\ CacheOK'
  BY <1>1, <1>4, Zenon DEF KeepsCache, CacheOK
<1>6. \A d \in Chunks : ~(fetchStart(c) <= d * chunkSize /\ d < k)
  <2> SUFFICES ASSUME NEW d \in Chunks, fetchStart(c) <= d * chunkSize, d < k PROVE FALSE
    BY Zenon
  <2>1. d \in Nat /\ d * chunkSize \in Nat /\ d + 1 <= k /\ d + 1 \in Nat
    BY ChunkBounds
  <2>2. (d + 1) * chunkSize <= k * chunkSize
    BY <2>1, ProductGrows, FileCacheAssumption, Zenon
  <2>3. (d + 1) * chunkSize = d * chunkSize + chunkSize
    BY <2>1, FileCacheAssumption
  <2> QED
    BY <1>3, <2>1, <2>2, <2>3, FileCacheAssumption
<1>7. ASSUME NEW t \in Streams PROVE Moves(t) /\ FetchOK(t)'
  <2>1. CASE t = s
    <3>1. Moves(t)
      BY <1>1, <1>4, <2>1, Zenon DEF CacheTypes, Moves, Working
    <3>2. Current(s)' = c
      BY <1>2, <1>4, Zenon DEF Current
    <3>3. CASE pc' = [pc EXCEPT ![s] = "fetch"] /\ putIdx' = [putIdx EXCEPT ![s] = k]
      <4>1. pc'[s] = "fetch" /\ putIdx'[s] = k
        BY <1>1, <3>3, Zenon DEF CacheTypes
      <4> QED
        BY <1>3, <1>6, <2>1, <3>1, <3>2, <4>1 DEF FetchOK
    <3>4. CASE pc' = [pc EXCEPT ![s] = "wait"]
      BY <1>1, <2>1, <3>1, <3>4, Zenon DEF CacheTypes, FetchOK
    <3> QED
      BY <1>4, <3>3, <3>4, Zenon
  <2>2. CASE t # s
    <3>1. pc'[t] = pc[t] /\ putIdx'[t] = putIdx[t]
      BY <1>1, <1>4, <2>2, Zenon DEF CacheTypes
    <3> QED
      BY <1>4, <1>5, <3>1, OtherFetches, Zenon DEF Moves
  <2> QED
    BY <2>1, <2>2, Zenon
<1>8. pc' \in [Streams -> Working \cup {"idle", "done"}] /\ putIdx' \in [Streams -> Nat]
  BY <1>1, <1>4, Zenon DEF CacheTypes, Working
<1> QED
  BY <1>1, <1>4, <1>5, <1>7, <1>8, MoveStep, Zenon DEF CacheTypes

\* A fetch Puts whole chunks, and when it is over every caller of Do finds the
\* chunk it came for (file_cache.go:265).
LEMMA PutStep ==
    ASSUME FileCacheInv, NEW s \in Streams, PutChunk(s)
    PROVE  FileCacheInv'
<1>1. CacheTypes /\ CacheOK /\ \A t \in Streams : PlanOK(t) /\ FetchOK(t)
  BY Zenon DEF FileCacheInv, StreamOK
<1>2. pc[s] = "fetch" /\ UNCHANGED <<faults, req, toRead, out>>
  BY Zenon DEF PutChunk
<1>3. PICK c \in Chunks : c = Current(s)
  BY <1>1, <1>2, CurrentPiece, Zenon DEF Working
<1>4. PICK p \in Nat : /\ p = putIdx[s] /\ p * chunkSize < fetchEnd(c)
                       /\ faults = 0 => \A d \in Chunks :
                            fetchStart(c) <= d * chunkSize /\ d < p => chunkCache[d] # <<>>
  BY <1>1, <1>2, <1>3, StreamFields, Zenon DEF FetchOK
<1>5. /\ p \in Chunks /\ Minimum((p + 1) * chunkSize, fetchEnd(c)) = ChunkEnd(p)
      /\ fetchEnd(c) \in Nat /\ fetchEnd(c) <= fileSize
      /\ ChunkEnd(p) \in Nat /\ ChunkEnd(p) <= fetchEnd(c)
  BY <1>4, FetchRange, ChunkBounds, Zenon
<1>6. ~(ChunkEnd(p) > fileSize)
  BY <1>5, FileCacheAssumption
<1>7. PICK S \in SUBSET Streams :
          /\ S = {s} \cup Waiting(Current(s))
          /\ \A t \in S : pc[t] \in {"fetch", "wait"} /\ fetchStart(Current(t)) = fetchStart(c)
  <2>1. {s} \cup Waiting(Current(s)) \in SUBSET Streams
    BY Zenon DEF Waiting
  <2>2. \A t \in {s} \cup Waiting(Current(s)) :
            pc[t] \in {"fetch", "wait"} /\ fetchStart(Current(t)) = fetchStart(c)
    BY <1>2, <1>3, Zenon DEF Waiting
  <2> QED
    BY <2>1, <2>2, Zenon
<1>8. /\ chunkCache' = [chunkCache EXCEPT ![p] = ChunkBytes(p)]
      /\ putIdx' = [putIdx EXCEPT ![s] = p + 1]
      /\ pc' = [t \in Streams |-> IF t \in S /\ ChunkEnd(p) = fetchEnd(c)
                                  THEN "again" ELSE pc[t]]
      /\ link' = link
  BY <1>3, <1>4, <1>5, <1>6, <1>7, Zenon DEF PutChunk, ChunkBytes
<1>9. ChunkBytes(p) \in Seq(Nat) /\ ChunkBytes(p) # <<>>
  <2>1. PICK x \in Nat, y \in Nat : x = p * chunkSize /\ y = ChunkEnd(p) /\ x < y
    BY <1>5, ChunkBounds, Zenon
  <2>2. Bytes(x, y) \in Seq(Nat) /\ Bytes(x, y) # <<>>
    BY <2>1, BytesSeq
  <2> QED
    BY <2>1, <2>2, Zenon DEF ChunkBytes
<1>10. /\ chunkCache' \in [Chunks -> Seq(Nat)] /\ CacheOK' /\ KeepsCache
       /\ chunkCache'[p] # <<>> /\ \A d \in Chunks \ {p} : chunkCache'[d] = chunkCache[d]
  <2>1. chunkCache' \in [Chunks -> Seq(Nat)] /\ chunkCache'[p] = ChunkBytes(p)
    BY <1>1, <1>5, <1>8, <1>9, Zenon DEF CacheTypes
  <2>2. \A d \in Chunks \ {p} : chunkCache'[d] = chunkCache[d]
    BY <1>1, <1>8, Zenon DEF CacheTypes
  <2>3. CacheOK'
    BY <1>1, <2>1, <2>2, Zenon DEF CacheOK
  <2> QED
    BY <1>2, <1>9, <2>1, <2>2, <2>3, Zenon DEF KeepsCache
<1>11. pc' \in [Streams -> Working \cup {"idle", "done"}] /\ putIdx' \in [Streams -> Nat]
  BY <1>1, <1>8, SMTT(30) DEF CacheTypes, Working
<1>12. ASSUME NEW d \in Chunks, faults = 0, fetchStart(c) <= d * chunkSize, d < p + 1
       PROVE  chunkCache'[d] # <<>>
  <2>1. d \in Nat
    BY ChunkBounds, Zenon
  <2>2. CASE d = p
    BY <1>10, <2>2, Zenon
  <2>3. CASE d # p
    BY <1>4, <1>10, <1>12, <2>1, <2>3
  <2> QED
    BY <2>2, <2>3, Zenon
<1>13. ASSUME NEW t \in Streams PROVE Moves(t) /\ FetchOK(t)'
  <2>1. Current(t)' = Current(t)
    BY <1>2, Zenon DEF Current
  <2>2. CASE t \in S /\ ChunkEnd(p) = fetchEnd(c)
    <3>1. pc'[t] = "again" /\ pc[t] \in Working
      BY <1>7, <1>8, <2>2, Zenon DEF Working
    <3>2. PICK d \in Chunks : d = Current(t)
      BY <1>1, <3>1, CurrentPiece, Zenon
    <3>3. fetchStart(d) = fetchStart(c) /\ fetchEnd(d) = fetchEnd(c)
      BY <1>7, <2>2, <3>2, Zenon DEF fetchEnd
    <3>4. d \in Nat /\ fetchStart(c) <= d * chunkSize /\ d * chunkSize < fetchEnd(c)
      BY <3>3, FetchRange, ChunkBounds, Zenon
    <3>5. d < p + 1
      <4>1. d * chunkSize < (p + 1) * chunkSize
        BY <1>5, <2>2, <3>4, ChunkBounds, FileCacheAssumption
      <4> QED
        BY <3>4, <4>1, FactorLess, FileCacheAssumption
    <3>6. faults = 0 => chunkCache'[d] # <<>>
      BY <1>12, <3>4, <3>5, Zenon
    <3> QED
      BY <1>2, <2>1, <3>1, <3>2, <3>6, Zenon DEF Moves, FetchOK, Working
  <2>3. CASE t = s /\ ChunkEnd(p) # fetchEnd(c)
    <3>1. pc'[t] = "fetch" /\ putIdx'[t] = p + 1 /\ Current(t)' = c
      BY <1>1, <1>2, <1>3, <1>8, <2>1, <2>3, Zenon DEF CacheTypes
    <3>2. (p + 1) * chunkSize < fetchEnd(c)
      BY <1>5, <2>3, Zenon DEF Minimum
    <3> QED
      BY <1>2, <1>12, <2>3, <3>1, <3>2, Zenon DEF Moves, FetchOK
  <2>4. CASE ~(t \in S /\ ChunkEnd(p) = fetchEnd(c)) /\ t # s
    <3>1. pc'[t] = pc[t] /\ putIdx'[t] = putIdx[t]
      BY <1>1, <1>8, <2>4, Zenon DEF CacheTypes
    <3> QED
      BY <1>2, <1>10, <3>1, OtherFetches, Zenon DEF Moves
  <2> QED
    BY <1>7, <2>2, <2>3, <2>4, Zenon
<1> QED
  BY <1>2, <1>8, <1>10, <1>11, <1>13, MoveStep, Zenon

\* A fetch that fails takes everybody down who waits for it.
LEMMA FetchFailsStep ==
    ASSUME FileCacheInv, NEW s \in Streams, FetchFails(s)
    PROVE  FileCacheInv'
<1>1. PICK S \in SUBSET Streams : /\ S = {s} \cup Waiting(Current(s))
                                  /\ \A t \in S : pc[t] \in Working
  BY DEF Waiting, Working, FetchFails
<1>2. Fail(S) /\ UNCHANGED <<req, toRead, out, putIdx, chunkCache>>
  BY <1>1, Zenon DEF FetchFails
<1>3. faults' \in 1 .. MaxFaults
  <2>1. faults \in Nat /\ MaxFaults \in Nat
    BY StreamsAssumption DEF FileCacheInv, CacheTypes, TypeOKStreams
  <2> QED
    BY <2>1 DEF FetchFails, CacheFault
<1> QED
  BY <1>1, <1>2, <1>3, FailStep, Zenon

\* After a fetch the chunk is missing only if there was a fault
\* (file_cache.go:295).
LEMMA GetAgainStep ==
    ASSUME FileCacheInv, NEW s \in Streams, GetAgain(s)
    PROVE  FileCacheInv'
<1>1. CASE chunkCache[Current(s)] # <<>>
  BY <1>1, WriteStep, Zenon DEF GetAgain
<1>2. CASE chunkCache[Current(s)] = <<>>
  <2>1. pc[s] = "again" /\ Fail({s}) /\ UNCHANGED <<faults, req, toRead, out, putIdx, chunkCache>>
    BY <1>2, Zenon DEF GetAgain
  <2>2. faults # 0
    BY <1>2, <2>1, Zenon DEF FileCacheInv, StreamOK, FetchOK
  <2>3. faults' \in 1 .. MaxFaults
    BY <2>1, <2>2, StreamsAssumption DEF FileCacheInv, CacheTypes, TypeOKStreams
  <2> QED
    BY <2>1, <2>3, FailStep, Zenon DEF Working
<1> QED
  BY <1>1, <1>2, Zenon

-----------------------------------------------------------------------------
\* What a step may do to a link of the stream: pass on no more than the pipe has,
\* end it with success only at the end of the range, and with an error or a
\* closed reader only after a fault.
LinkMoves(s) ==
    /\ link'[s] \in [Links -> LinkState]
    /\ link'[s][1].n = link[s][1].n
    /\ link'[s][1].end \in {link[s][1].end, "closed"}
    /\ \A h \in Links :
         /\ link'[s][h].n <= Len(out[s])
         /\ link'[s][h].end = "eof" => Valid(s) /\ link'[s][h].n = Pieces(s)
         /\ faults' = 0 /\ link'[s][h].end \in {"error", "closed"} => ~Valid(s)
         /\ req[s] = NoRange => link'[s][h].end = "open"

\* A step on the links of a stream leaves its goroutine and its plan alone.
LEMMA LinkStep ==
    ASSUME FileCacheInv, UNCHANGED <<req, toRead, out, putIdx, pc>>,
           faults' \in 0 .. MaxFaults, chunkCache' \in [Chunks -> Seq(Nat)], CacheOK',
           KeepsCache, link' = [t \in Streams |-> link'[t]],
           \A t \in Streams : link'[t] = link[t] \/ LinkMoves(t)
    PROVE  FileCacheInv'
<1>1. CacheTypes /\ \A t \in Streams : StreamOK(t)
  BY Zenon DEF FileCacheInv
<1>2. link' \in [Streams -> [Links -> LinkState]]
  <2>1. ASSUME NEW t \in Streams PROVE link'[t] \in [Links -> LinkState]
    BY <1>1, StreamFields, Zenon DEF LinkMoves
  <2> QED
    BY <2>1, Zenon
<1>3. CacheTypes'
  BY <1>1, <1>2, Zenon DEF CacheTypes, TypeOKStreams
<1>4. ASSUME NEW t \in Streams PROVE StreamOK(t)'
  <2>1. SamePlan(t) /\ pc'[t] = pc[t] /\ putIdx'[t] = putIdx[t]
    BY Zenon DEF SamePlan
  <2>2. CASE link'[t] = link[t]
    BY <1>1, <2>1, <2>2, StreamFrame, Zenon
  <2>3. CASE LinkMoves(t)
    <3>1. PlanOK(t)'
      BY <1>1, <2>1, PlanFrame, Zenon DEF StreamOK, Moves
    <3>2. FetchOK(t)'
      BY <1>1, <2>1, FetchFrame, Zenon DEF StreamOK
    <3>3. LinkOK(t)'
      <4>1. LinkOK(t)
        BY <1>1, Zenon DEF StreamOK
      <4> QED
        BY <2>1, <2>3, <4>1, Zenon DEF LinkOK, LinkMoves, SamePlan, Valid, Pieces, Working
    <3> QED
      BY <3>1, <3>2, <3>3, Zenon DEF StreamOK
  <2> QED
    BY <2>2, <2>3, Zenon
<1> QED
  BY <1>3, <1>4, Zenon DEF FileCacheInv

\* A link whose end, or number of pieces, a step sets.
LEMMA LinkFields ==
    ASSUME CacheTypes, NEW s \in Streams, NEW h \in Links, NEW e \in Ends, NEW k \in Nat
    PROVE  /\ link' = [link EXCEPT ![s][h].end = e] =>
                /\ link'[s] \in [Links -> LinkState]
                /\ link'[s][h].n = link[s][h].n /\ link'[s][h].end = e
                /\ \A g \in Links \ {h} : link'[s][g] = link[s][g]
                /\ \A t \in Streams \ {s} : link'[t] = link[t]
                /\ link' = [t \in Streams |-> link'[t]]
           /\ link' = [link EXCEPT ![s][h].n = k] =>
                /\ link'[s] \in [Links -> LinkState]
                /\ link'[s][h].n = k /\ link'[s][h].end = link[s][h].end
                /\ \A g \in Links \ {h} : link'[s][g] = link[s][g]
                /\ \A t \in Streams \ {s} : link'[t] = link[t]
                /\ link' = [t \in Streams |-> link'[t]]
<1>1. link \in [Streams -> [Links -> LinkState]] /\ link[s][h] \in LinkState
  BY Zenon DEF CacheTypes, TypeOKStreams
<1>2. /\ [link[s][h] EXCEPT !.end = e] \in LinkState
      /\ [link[s][h] EXCEPT !.end = e].n = link[s][h].n
      /\ [link[s][h] EXCEPT !.end = e].end = e
      /\ [link[s][h] EXCEPT !.n = k] \in LinkState
      /\ [link[s][h] EXCEPT !.n = k].end = link[s][h].end
      /\ [link[s][h] EXCEPT !.n = k].n = k
  BY <1>1, Zenon DEF LinkState
<1>3. \A x \in LinkState : link' = [link EXCEPT ![s][h] = x] =>
         /\ link'[s] \in [Links -> LinkState] /\ link'[s][h] = x
         /\ \A g \in Links \ {h} : link'[s][g] = link[s][g]
         /\ \A t \in Streams \ {s} : link'[t] = link[t]
         /\ link' = [t \in Streams |-> link'[t]]
  BY <1>1, Zenon
<1>4. ASSUME link' = [link EXCEPT ![s][h].end = e]
      PROVE  link' = [link EXCEPT ![s][h] = [link[s][h] EXCEPT !.end = e]]
  BY <1>1, <1>4, Zenon
<1>5. ASSUME link' = [link EXCEPT ![s][h].n = k]
      PROVE  link' = [link EXCEPT ![s][h] = [link[s][h] EXCEPT !.n = k]]
  BY <1>1, <1>5, Zenon
<1> QED
  BY <1>2, <1>3, <1>4, <1>5, Zenon

\* The end of a link is set.
LEMMA EndStep ==
    ASSUME FileCacheInv, NEW s \in Streams, NEW h \in Links, NEW e \in Ends, SetEnd(s, h, e),
           UNCHANGED fcVars, faults' \in 0 .. MaxFaults, faults' = 0 => faults = 0,
           req[s] # NoRange, h = 1 => e = "closed",
           e = "eof" => Valid(s) /\ link[s][h].n = Pieces(s),
           faults' = 0 /\ e \in {"error", "closed"} => ~Valid(s)
    PROVE  FileCacheInv'
<1>1. CacheTypes /\ CacheOK /\ LinkOK(s)
  BY Zenon DEF FileCacheInv, StreamOK
<1>2. UNCHANGED <<req, pc, toRead, out, putIdx, chunkCache>>
  BY Zenon DEF fcVars
<1>3. /\ link'[s] \in [Links -> LinkState]
      /\ link'[s][h].n = link[s][h].n /\ link'[s][h].end = e
      /\ \A g \in Links \ {h} : link'[s][g] = link[s][g]
      /\ \A t \in Streams \ {s} : link'[t] = link[t]
      /\ link' = [t \in Streams |-> link'[t]]
  BY <1>1, LinkFields, Zenon DEF SetEnd
<1>4. LinkMoves(s)
  <2>1. 1 \in Links
    BY <1>1, StreamFields, Zenon
  <2>2. ASSUME NEW g \in Links
        PROVE  /\ link'[s][g].n <= Len(out[s])
               /\ link'[s][g].end = "eof" => Valid(s) /\ link'[s][g].n = Pieces(s)
               /\ faults' = 0 /\ link'[s][g].end \in {"error", "closed"} => ~Valid(s)
    <3>1. CASE g = h
      BY <1>1, <1>3, <3>1, Zenon DEF LinkOK
    <3>2. CASE g # h
      BY <1>1, <1>3, <3>2, Zenon DEF LinkOK
    <3> QED
      BY <3>1, <3>2, Zenon
  <2>3. link'[s][1].n = link[s][1].n /\ link'[s][1].end \in {link[s][1].end, "closed"}
    BY <1>3, <2>1, Zenon
  <2> QED
    BY <1>3, <2>2, <2>3, Zenon DEF LinkMoves
<1>5. KeepsCache /\ CacheOK'
  BY <1>1, <1>2, Zenon DEF KeepsCache, CacheOK
<1> QED
  BY <1>1, <1>2, <1>3, <1>4, <1>5, LinkStep, Zenon DEF CacheTypes

\* Handlers pass the answer on, or its end (server.go:253).
LEMMA CarryStep ==
    ASSUME FileCacheInv, NEW s \in Streams, Carry(s)
    PROVE  FileCacheInv'
<1>1. CacheTypes /\ CacheOK /\ LinkOK(s) /\ faults \in 0 .. MaxFaults /\ faults \in Nat
  <2>1. CacheTypes /\ CacheOK /\ LinkOK(s)
    BY Zenon DEF FileCacheInv, StreamOK
  <2> QED
    BY <2>1, StreamFields, Zenon DEF CacheTypes, TypeOKStreams
<1>2. UNCHANGED fcVars /\ UNCHANGED <<req, pc, toRead, out, putIdx, chunkCache>>
  BY Zenon DEF Carry, fcVars
<1>3. Hops \in Nat /\ \A h \in Handlers : h \in Links /\ h + 1 \in Links /\ h + 1 # 1
  BY StreamsAssumption DEF Handlers, Links
<1>4. ASSUME NEW h \in Links, Copy(s, h) PROVE FileCacheInv'
  <2>1. h - 1 \in Links /\ h # 1
    BY <1>3, <1>4 DEF Copy, Links
  <2>2. PICK k \in Nat : /\ k = link[s][h].n + 1 /\ k <= Len(out[s])
                         /\ link' = [link EXCEPT ![s][h].n = k]
    <3>1. /\ link[s][h].n \in Nat /\ link[s][h - 1].n \in Nat
          /\ link[s][h - 1].n <= Len(out[s]) /\ link[s][h].n < link[s][h - 1].n
      BY <1>1, <1>4, <2>1, StreamFields, Zenon DEF LinkOK, Copy
    <3>2. out[s] \in Seq(Seq(Nat))
      BY <1>1, StreamFields, Zenon
    <3>3. PICK n \in Nat, m \in Nat, l \in Nat :
              n = link[s][h].n /\ m = link[s][h - 1].n /\ l = Len(out[s])
      BY <3>1, <3>2
    <3>4. n + 1 \in Nat /\ n + 1 <= l
      BY <3>1, <3>3
    <3>5. link' = [link EXCEPT ![s][h].n = n + 1]
      BY <1>4, <3>3, Zenon DEF Copy
    <3> QED
      BY <3>3, <3>4, <3>5, Zenon
  <2>3. /\ link'[s] \in [Links -> LinkState]
        /\ link'[s][h].n = k /\ link'[s][h].end = "open"
        /\ \A g \in Links \ {h} : link'[s][g] = link[s][g]
        /\ \A t \in Streams \ {s} : link'[t] = link[t]
        /\ link' = [t \in Streams |-> link'[t]]
    <3>1. "open" \in Ends /\ link[s][h].end = "open"
      BY <1>4, Zenon DEF Copy, Ends
    <3> QED
      BY <1>1, <2>2, <3>1, LinkFields, ZenonT(30)
  <2>4. LinkMoves(s)
    <3>1. 1 \in Links /\ faults' = faults
      BY <1>1, <1>4, StreamFields, Zenon DEF Copy
    <3>2. ASSUME NEW g \in Links
          PROVE  /\ link'[s][g].n <= Len(out[s])
                 /\ link'[s][g].end = "eof" => Valid(s) /\ link'[s][g].n = Pieces(s)
                 /\ faults' = 0 /\ link'[s][g].end \in {"error", "closed"} => ~Valid(s)
                 /\ req[s] = NoRange => link'[s][g].end = "open"
      <4>1. CASE g = h
        BY <2>2, <2>3, <4>1, Zenon
      <4>2. CASE g # h
        BY <1>1, <2>3, <3>1, <4>2, Zenon DEF LinkOK
      <4> QED
        BY <4>1, <4>2, Zenon
    <3> QED
      BY <2>1, <2>3, <3>1, <3>2, Zenon DEF LinkMoves
  <2>5. KeepsCache /\ CacheOK' /\ faults' = faults
    BY <1>1, <1>2, <1>4, Zenon DEF KeepsCache, CacheOK, Copy
  <2> QED
    BY <1>1, <1>2, <2>3, <2>4, <2>5, LinkStep, Zenon DEF CacheTypes
<1>5. ASSUME NEW h \in Handlers, Return(s, h) PROVE FileCacheInv'
  <2>1. /\ SetEnd(s, h + 1, "eof") /\ faults' = faults
        /\ Valid(s) /\ link[s][h + 1].n = Pieces(s)
    BY <1>1, <1>3, <1>5, Zenon DEF Return, LinkOK
  <2>2. req[s] # NoRange /\ "eof" \in Ends
    BY <2>1, Zenon DEF Valid, Ends
  <2> QED
    BY <1>1, <1>2, <1>3, <2>1, <2>2, EndStep, Zenon
<1>6. ASSUME NEW h \in Handlers, Terminate(s, h) PROVE FileCacheInv'
  <2>1. /\ SetEnd(s, h + 1, "error") /\ faults' = faults
        /\ faults = 0 => ~Valid(s)
        /\ req[s] # NoRange /\ "error" \in Ends
    BY <1>1, <1>3, <1>6, Zenon DEF Terminate, LinkOK, Ends
  <2> QED
    BY <1>1, <1>2, <1>3, <2>1, EndStep, Zenon
<1>7. ASSUME NEW h \in Handlers, GiveUp(s, h) PROVE FileCacheInv'
  <2>1. /\ SetEnd(s, h, "closed") /\ faults' = faults
        /\ faults = 0 => ~Valid(s)
        /\ req[s] # NoRange /\ "closed" \in Ends
    BY <1>1, <1>3, <1>7, Zenon DEF GiveUp, LinkOK, Ends
  <2> QED
    BY <1>1, <1>2, <1>3, <2>1, EndStep, Zenon
<1> QED
  BY <1>4, <1>5, <1>6, <1>7, Zenon DEF Carry, Pass

\* A link whose end is another.
LEMMA EndSet ==
    ASSUME NEW l \in LinkState, NEW e \in Ends
    PROVE  \E x \in LinkState : x = [l EXCEPT !.end = e] /\ x.n = l.n /\ x.end = e
<1>1. PICK x : x = [l EXCEPT !.end = e]
  BY Zenon
<1>2. x \in LinkState /\ x.n = l.n /\ x.end = e
  BY <1>1, Zenon DEF LinkState
<1> QED
  BY <1>1, <1>2, Zenon

\* A timeout, the end of a handler's process or of the caller's.
LEMMA BreakStep ==
    ASSUME FileCacheInv, NEW s \in Streams, pc[s] # "idle", Break(s), UNCHANGED fcVars
    PROVE  FileCacheInv'
<1>1. CacheTypes /\ CacheOK /\ LinkOK(s) /\ req[s] # NoRange
  BY Zenon DEF FileCacheInv, StreamOK, PlanOK
<1>2. faults \in 0 .. MaxFaults /\ MaxFaults \in Nat
  BY <1>1, StreamsAssumption, Zenon DEF CacheTypes, TypeOKStreams
<1>3. ASSUME NEW f, StreamFault(f) PROVE faults' \in 0 .. MaxFaults /\ faults' # 0
  BY <1>2, <1>3 DEF StreamFault
<1>4. /\ Hops + 1 \in Links /\ Hops + 1 # 1
      /\ \A h \in Handlers : h \in Links /\ h + 1 \in Links /\ h + 1 # h /\ h + 1 # 1
  BY StreamsAssumption DEF Handlers, Links
<1>5. {"error", "closed"} \subseteq Ends
  BY Zenon DEF Ends
<1>6. ASSUME NEW h \in Handlers, Timeout(s, h) PROVE FileCacheInv'
  <2>1. SetEnd(s, h, "error") /\ h # 1 /\ faults' \in 0 .. MaxFaults /\ faults' # 0
    BY <1>3, <1>6 DEF Timeout
  <2> QED
    BY <1>1, <1>4, <1>5, <2>1, EndStep, Zenon
<1>7. ASSUME NEW h \in Handlers, CrashHandler(s, h) PROVE FileCacheInv'
  <2>1. /\ link' = [link EXCEPT ![s][h].end = "closed", ![s][h + 1].end = "error"]
        /\ h # 1 /\ faults' \in 0 .. MaxFaults /\ faults' # 0
    BY <1>3, <1>7 DEF CrashHandler
  <2>2. /\ h \in Links /\ h + 1 \in Links /\ 1 \in Links
        /\ link \in [Streams -> [Links -> LinkState]]
        /\ link[s] \in [Links -> LinkState]
        /\ link[s][h] \in LinkState /\ link[s][h + 1] \in LinkState
    BY <1>1, <1>4, StreamFields, Zenon DEF CacheTypes, TypeOKStreams
  <2>a. PICK x \in LinkState : /\ x = [link[s][h] EXCEPT !.end = "closed"]
                               /\ x.n = link[s][h].n /\ x.end = "closed"
    BY <1>5, <2>2, EndSet
  <2>3. PICK y \in LinkState : /\ y = [link[s][h + 1] EXCEPT !.end = "error"]
                               /\ y.n = link[s][h + 1].n /\ y.end = "error"
    BY <1>5, <2>2, EndSet
  <2>4. PICK new \in [Links -> LinkState] :
            /\ link' = [link EXCEPT ![s] = new]
            /\ new[h] = x /\ new[h + 1] = y
            /\ \A g \in Links \ {h, h + 1} : new[g] = link[s][g]
    <3>1. PICK k \in Links : k = h + 1 /\ k # h
      BY <1>4, Zenon
    <3>2. link' = [link EXCEPT ![s] = [link[s] EXCEPT ![h] = x, ![k] = y]]
      BY <2>1, <2>2, <2>a, <2>3, <3>1, Zenon
    <3>3. [link[s] EXCEPT ![h] = x, ![k] = y] \in [Links -> LinkState]
      BY <2>2, Zenon
    <3> QED
      BY <2>2, <3>1, <3>2, <3>3, Zenon
  <2>5. link'[s] = new /\ \A t \in Streams \ {s} : link'[t] = link[t]
    BY <2>2, <2>4, Zenon
  <2>6. link' = [t \in Streams |-> link'[t]]
    BY <2>2, <2>4, Zenon
  <2>7. LinkMoves(s)
    <3>1. ASSUME NEW g \in Links
          PROVE  /\ new[g].n <= Len(out[s])
                 /\ new[g].end = "eof" => Valid(s) /\ new[g].n = Pieces(s)
      <4>1. CASE g = h
        BY <1>1, <2>2, <2>a, <2>3, <2>4, <4>1, Zenon DEF LinkOK
      <4>2. CASE g = h + 1
        BY <1>1, <2>2, <2>a, <2>3, <2>4, <4>2, Zenon DEF LinkOK
      <4>3. CASE g # h /\ g # h + 1
        BY <1>1, <2>4, <4>3, Zenon DEF LinkOK
      <4> QED
        BY <4>1, <4>2, <4>3, Zenon
    <3>2. new[1] = link[s][1]
      BY <1>4, <2>1, <2>2, <2>4, Zenon
    <3> QED
      BY <1>1, <2>1, <2>5, <3>1, <3>2, Zenon DEF LinkMoves
  <2>8. KeepsCache /\ CacheOK' /\ UNCHANGED <<req, pc, toRead, out, putIdx, chunkCache>>
    BY <1>1, <2>1, Zenon DEF KeepsCache, CacheOK, fcVars
  <2> QED
    BY <1>1, <2>1, <2>5, <2>6, <2>7, <2>8, LinkStep, Zenon DEF CacheTypes
<1>8. ASSUME Disconnect(s) PROVE FileCacheInv'
  <2>1. SetEnd(s, Hops + 1, "closed") /\ faults' \in 0 .. MaxFaults /\ faults' # 0
    BY <1>3, <1>8, Zenon DEF Disconnect
  <2> QED
    BY <1>1, <1>4, <1>5, <2>1, EndStep, Zenon
<1> QED
  BY <1>6, <1>7, <1>8, Zenon DEF Break

\* The cache may drop a chunk at any time.
LEMMA EvictStep ==
    ASSUME FileCacheInv, NEW c \in Chunks, Evict(c)
    PROVE  FileCacheInv'
<1>1. CacheTypes /\ CacheOK /\ faults \in 0 .. MaxFaults /\ MaxFaults \in Nat
  BY StreamsAssumption, Zenon DEF FileCacheInv, CacheTypes, TypeOKStreams
<1>2. faults' \in 0 .. MaxFaults /\ faults' # 0
  BY <1>1 DEF Evict, CacheFault
<1>3. chunkCache' \in [Chunks -> Seq(Nat)] /\ CacheOK'
  BY <1>1 DEF Evict, CacheTypes, CacheOK
<1>4. UNCHANGED <<link, req, pc, toRead, out, putIdx>> /\ KeepsCache
  BY <1>2, Zenon DEF Evict, KeepsCache
<1>5. link' = [t \in Streams |-> link'[t]]
  BY <1>1, <1>4, Zenon DEF CacheTypes, TypeOKStreams
<1> QED
  BY <1>2, <1>3, <1>4, <1>5, LinkStep, Zenon

\* The end of the actor's process: goroutines, handlers and cache are gone.
LEMMA CrashStep ==
    ASSUME FileCacheInv, CrashActor
    PROVE  FileCacheInv'
<1>1. CacheTypes /\ \A t \in Streams : PlanOK(t) /\ LinkOK(t)
  BY Zenon DEF FileCacheInv, StreamOK
<1>2. faults' \in 0 .. MaxFaults /\ faults' # 0
  BY <1>1, StreamsAssumption DEF CrashActor, StreamFault, CacheTypes, TypeOKStreams
<1>3. /\ pc' = [s \in Streams |-> IF pc[s] = "idle" THEN "idle" ELSE "done"]
      /\ chunkCache' = [c \in Chunks |-> <<>>]
      /\ UNCHANGED <<req, toRead, out, putIdx>>
      /\ link' = [t \in Streams |-> link'[t]]
  BY Zenon DEF CrashActor
<1>4. ASSUME NEW t \in Streams
      PROVE  /\ link'[t] \in [Links -> LinkState]
             /\ pc[t] = "idle" => link'[t] = link[t]
             /\ \A h \in Links : /\ link'[t][h].n = link[t][h].n
                                 /\ link'[t][h].end \in {link[t][h].end, "closed", "error"}
  <2>1. /\ 1 \in Links /\ 2 \in Links /\ link[t] \in [Links -> LinkState]
        /\ link[t][1] \in LinkState /\ link[t][2] \in LinkState
    BY <1>1, StreamFields, StreamsAssumption, SMTT(30) DEF Links
  <2>2. CASE pc[t] = "idle" \/ link[t][2].end # "open"
    BY <2>1, <2>2, Zenon DEF CrashActor
  <2>3. CASE ~(pc[t] = "idle" \/ link[t][2].end # "open")
    <3>1. link'[t] = [link[t] EXCEPT ![1].end = "closed", ![2].end = "error"]
      BY <2>3, Zenon DEF CrashActor
    <3>a. "error" \in Ends /\ "closed" \in Ends
      BY Zenon DEF Ends
    <3>b. PICK x \in LinkState : /\ x = [link[t][1] EXCEPT !.end = "closed"]
                                 /\ x.n = link[t][1].n /\ x.end = "closed"
      <4>1. PICK l \in LinkState : l = link[t][1]
        BY <2>1, Zenon
      <4>2. \E x \in LinkState : /\ x = [l EXCEPT !.end = "closed"]
                                 /\ x.n = l.n /\ x.end = "closed"
        BY <3>a, EndSet
      <4> QED
        BY <4>1, <4>2, Zenon
    <3>2. PICK y \in LinkState : /\ y = [link[t][2] EXCEPT !.end = "error"]
                                 /\ y.n = link[t][2].n /\ y.end = "error"
      <4>1. PICK l \in LinkState : l = link[t][2]
        BY <2>1, Zenon
      <4>2. \E y \in LinkState : /\ y = [l EXCEPT !.end = "error"]
                                 /\ y.n = l.n /\ y.end = "error"
        BY <3>a, EndSet
      <4> QED
        BY <4>1, <4>2, Zenon
    <3>3. link'[t] = [link[t] EXCEPT ![1] = x, ![2] = y]
      BY <2>1, <3>1, <3>b, <3>2, Zenon
    <3>4. /\ link'[t] \in [Links -> LinkState] /\ link'[t][1] = x /\ link'[t][2] = y
          /\ \A h \in Links \ {1, 2} : link'[t][h] = link[t][h]
      BY <2>1, <3>3
    <3> QED
      BY <2>3, <3>b, <3>2, <3>4, Zenon
  <2> QED
    BY <2>2, <2>3, Zenon
<1>5. CacheTypes'
  <2>1. pc' \in [Streams -> Working \cup {"idle", "done"}]
    BY <1>3, Zenon
  <2>2. link' \in [Streams -> [Links -> LinkState]]
    BY <1>3, <1>4, Zenon
  <2>3. chunkCache' \in [Chunks -> Seq(Nat)]
    BY <1>3
  <2> QED
    BY <1>1, <1>2, <1>3, <2>1, <2>2, <2>3, Zenon DEF CacheTypes, TypeOKStreams
<1>6. CacheOK'
  BY <1>3, Zenon DEF CacheOK
<1>7. ASSUME NEW t \in Streams PROVE StreamOK(t)'
  <2>1. /\ pc'[t] = IF pc[t] = "idle" THEN "idle" ELSE "done"
        /\ SamePlan(t) /\ pc[t] \in Working \cup {"idle", "done"} /\ 1 \in Links
    BY <1>1, <1>3, StreamFields, Zenon DEF SamePlan
  <2>2. Moves(t) /\ pc'[t] \notin Working
    BY <2>1, Zenon DEF Moves, Working
  <2>3. PlanOK(t)'
    BY <1>1, <2>1, <2>2, PlanFrame, Zenon
  <2>4. pc[t] = "idle" <=> req[t] = NoRange
    BY <1>1, Zenon DEF PlanOK
  <2>5. LinkOK(t)'
    BY <1>1, <1>2, <1>4, <2>1, <2>2, <2>4, SMTT(30) DEF LinkOK, SamePlan, Valid, Pieces
  <2> QED
    BY <2>2, <2>3, <2>5, Zenon DEF StreamOK, FetchOK, Working
<1> QED
  BY <1>5, <1>6, <1>7, Zenon DEF FileCacheInv

-----------------------------------------------------------------------------
\* Init, a step of Next and a stutter all keep the invariant.
LEMMA InitInv == Init => FileCacheInv
<1> SUFFICES ASSUME Init PROVE FileCacheInv
  BY Zenon
<1>1. "open" \in Ends /\ 1 \in Links
  BY StreamsAssumption DEF Ends, Links
<1>2. link \in [Streams -> [Links -> LinkState]] /\ faults \in 0 .. MaxFaults
  BY <1>1, StreamsAssumption DEF Init, InitStreams, LinkState
<1>3. CacheTypes
  BY <1>2, SMTT(30) DEF Init, CacheTypes, TypeOKStreams
<1>4. CacheOK
  BY Zenon DEF Init, CacheOK
<1>5. ASSUME NEW s \in Streams PROVE StreamOK(s)
  <2>1. req[s] = NoRange /\ pc[s] = "idle" /\ out[s] = <<>> /\ ~Valid(s)
    BY Zenon DEF Init, Valid
  <2>2. \A h \in Links : link[s][h].n = 0 /\ link[s][h].end = "open"
    BY Zenon DEF Init, InitStreams
  <2>3. PlanOK(s)
    BY <2>1, Zenon DEF PlanOK, Working
  <2>4. LinkOK(s)
    BY <1>1, <2>1, <2>2 DEF LinkOK, Working
  <2> QED
    BY <2>1, <2>3, <2>4, Zenon DEF StreamOK, FetchOK
<1> QED
  BY <1>3, <1>4, <1>5, Zenon DEF FileCacheInv

LEMMA NextInv == FileCacheInv /\ [Next]_vars => FileCacheInv'
<1> SUFFICES ASSUME FileCacheInv, [Next]_vars PROVE FileCacheInv'
  BY Zenon
<1>1. CASE UNCHANGED vars
  <2>1. UNCHANGED <<link, faults, req, pc, toRead, out, putIdx, chunkCache>>
    BY <1>1, Zenon DEF vars, fcVars
  <2>2. CacheTypes /\ CacheOK /\ \A s \in Streams : StreamOK(s)
    BY Zenon DEF FileCacheInv
  <2>3. CacheTypes' /\ CacheOK'
    BY <2>1, <2>2, Zenon DEF CacheTypes, TypeOKStreams, CacheOK
  <2>4. ASSUME NEW s \in Streams PROVE StreamOK(s)'
    BY <2>1, <2>2, StreamFrame, Zenon DEF SamePlan, KeepsCache
  <2> QED
    BY <2>3, <2>4, Zenon DEF FileCacheInv
<1>2. ASSUME NEW s \in Streams, NEW r \in Ranges[s], InvokeStream(s, r[1], r[2])
      PROVE  FileCacheInv'
  BY <1>2, InvokeStep, Zenon
<1>3. ASSUME NEW s \in Streams, Work(s) PROVE FileCacheInv'
  BY <1>3, GetStep, DoStep, PutStep, GetAgainStep, Zenon DEF Work
<1>4. ASSUME NEW s \in Streams, FetchFails(s) PROVE FileCacheInv'
  BY <1>4, FetchFailsStep, Zenon
<1>5. ASSUME NEW s \in Streams, Carry(s) PROVE FileCacheInv'
  BY <1>5, CarryStep, Zenon
<1>6. ASSUME NEW s \in Streams, pc[s] # "idle", Break(s), UNCHANGED fcVars PROVE FileCacheInv'
  BY <1>6, BreakStep, Zenon
<1>7. ASSUME NEW c \in Chunks, Evict(c) PROVE FileCacheInv'
  BY <1>7, EvictStep, Zenon
<1>8. ASSUME CrashActor PROVE FileCacheInv'
  BY <1>8, CrashStep, Zenon
<1> QED
  BY <1>1, <1>2, <1>3, <1>4, <1>5, <1>6, <1>7, <1>8, Zenon DEF Next

LEMMA Invariance == Spec => []FileCacheInv
  BY InitInv, NextInv, PTL DEF Spec

\* Whatever sizes NewFileCacheActor accepts and whatever is asked for, no
\* goroutine of getRange slices a chunk beyond its end (file_cache.go:216).
THEOREM GoroutinesDoNotPanic == Spec => []TypeOK
<1>1. FileCacheInv => TypeOK
  <2> SUFFICES ASSUME FileCacheInv PROVE TypeOK
    BY Zenon
  <2>1. CacheTypes /\ CacheOK
    BY Zenon DEF FileCacheInv
  <2>2. ASSUME NEW c \in Chunks PROVE Len(chunkCache[c]) <= chunkSize
    <3>1. PICK x \in Nat, y \in Nat :
              x = c * chunkSize /\ y = ChunkEnd(c) /\ x <= y /\ y - x <= chunkSize
      BY ChunkBounds, FileCacheAssumption
    <3>2. Len(Bytes(x, y)) <= chunkSize
      BY <3>1, BytesSeq, Zenon
    <3>3. chunkCache[c] = <<>> \/ chunkCache[c] = Bytes(x, y)
      BY <2>1, <3>1, Zenon DEF CacheOK, ChunkBytes
    <3>4. Len(<<>>) <= chunkSize
      BY FileCacheAssumption
    <3> QED
      BY <3>2, <3>3, <3>4, Zenon
  <2> QED
    BY <2>1, <2>2, Zenon DEF CacheTypes, TypeOK, Working
<1> QED
  BY <1>1, Invariance, PTL

\* The pieces that have been read are pieces of the range.
LEMMA ReadPieces ==
    ASSUME CacheTypes, NEW s \in Streams, PlanOK(s), Valid(s),
           NEW n \in Nat, n <= Len(out[s])
    PROVE  Pieces(s) \in Nat /\ n <= Pieces(s) /\ 1 .. n \subseteq 1 .. Len(out[s])
<1>1. PICK k \in Nat, l \in Nat : k = Len(out[s]) /\ l = Len(toRead[s])
  <2>1. out[s] \in Seq(Seq(Nat)) /\ toRead[s] \in Seq(ChunkToRead)
    BY StreamFields, Zenon
  <2> QED
    BY <2>1
<1>2. k + l = Pieces(s)
  BY <1>1, Zenon DEF PlanOK
<1>3. k + l \in Nat /\ n <= k + l /\ 1 .. n \subseteq 1 .. k
  <2>1. n <= k
    BY <1>1, Zenon
  <2> QED
    BY <2>1
<1> QED
  BY <1>1, <1>2, <1>3, Zenon

\* The caller reads the bytes of its range in order, each piece going on where
\* the one before it ended, and success only when they are all there.
THEOREM AnswersAreWhole == Spec => []NoTruncatedAnswer
<1>1. FileCacheInv => NoTruncatedAnswer
  <2> SUFFICES ASSUME FileCacheInv, NEW s \in Streams, req[s] # NoRange,
                      NEW n, n = link[s][Hops + 1].n
               PROVE  /\ n <= Len(out[s])
                      /\ \A i \in 1 .. n :
                           /\ out[s][i] # <<>>
                           /\ out[s][i] = Bytes(PieceEnd(s, i - 1), PieceEnd(s, i))
                           /\ PieceEnd(s, i) <= req[s][2]
                      /\ link[s][Hops + 1].end = "eof" => PieceEnd(s, n) = req[s][2]
    BY Zenon DEF NoTruncatedAnswer
  <2>1. CacheTypes /\ PlanOK(s) /\ LinkOK(s)
    BY Zenon DEF FileCacheInv, StreamOK
  <2>2. /\ Hops + 1 \in Links /\ n \in Nat /\ n <= Len(out[s])
        /\ link[s][Hops + 1].end = "eof" => Valid(s) /\ n = Pieces(s)
    BY <2>1, StreamFields, Zenon DEF LinkOK
  <2>3. CASE ~Valid(s)
    <3>1. n = 0
      BY <2>1, <2>2, <2>3, SMTT(30) DEF PlanOK
    <3> QED
      BY <2>2, <2>3, <3>1, SMTT(30)
  <2>4. CASE Valid(s)
    <3>1. PICK a \in Nat, b \in Nat : a = req[s][1] /\ b = req[s][2] /\ a < b
      BY <2>1, <2>4, StreamFields, Zenon
    <3>2. PICK m \in Nat : m = Pieces(s) /\ n <= m /\ 1 .. n \subseteq 1 .. Len(out[s])
      BY <2>1, <2>2, <2>4, ReadPieces, Zenon
    <3>3. /\ CutOf(s, 0) = a /\ CutOf(s, m) = b /\ m # 0
          /\ \A i \in 1 .. m : /\ CutOf(s, i - 1) \in Nat /\ CutOf(s, i) \in Nat
                               /\ CutOf(s, i - 1) < CutOf(s, i) /\ CutOf(s, i) <= b
      <4>1. Cut(a, b, 0) = a /\ m = Count(a, b)
        BY <3>1, <3>2, Zenon DEF Cut, Pieces
      <4>2. /\ Cut(a, b, m) = b /\ m # 0
            /\ \A i \in 1 .. m :
                 /\ Cut(a, b, i - 1) \in Nat /\ Cut(a, b, i) \in Nat
                 /\ Cut(a, b, i - 1) < Cut(a, b, i) /\ Cut(a, b, i) <= b
        BY <3>1, <4>1, CutsGrow
      <4> QED
        BY <3>1, <4>1, <4>2, Zenon DEF CutOf
    <3>4. ASSUME NEW i \in 1 .. n
          PROVE  /\ out[s][i] # <<>> /\ PieceEnd(s, i) = CutOf(s, i)
                 /\ out[s][i] = Bytes(CutOf(s, i - 1), CutOf(s, i))
      <4>1. i \in 1 .. m /\ i \in 1 .. Len(out[s]) /\ i # 0
        <5>1. i \in 1 .. Len(out[s])
          BY <3>2, Zenon
        <5>2. i \in 1 .. m /\ i # 0
          BY <2>2, <3>2
        <5> QED
          BY <5>1, <5>2, Zenon
      <4>2. PICK x \in Nat, y \in Nat : x = CutOf(s, i - 1) /\ y = CutOf(s, i) /\ x < y
        BY <3>3, <4>1, Zenon
      <4>3. out[s][i] = Bytes(x, y)
        BY <2>1, <2>4, <4>1, <4>2, Zenon DEF PlanOK
      <4>4. Bytes(x, y) # <<>> /\ Bytes(x, y)[Len(Bytes(x, y))] = y - 1
        <5>1. /\ Bytes(x, y) # <<>> /\ Len(Bytes(x, y)) = y - x
              /\ \A k \in 1 .. y - x : Bytes(x, y)[k] = x + k - 1
          <6>1. x < y /\ x <= y
            BY <4>2
          <6> QED
            BY <6>1, BytesSeq, Zenon
        <5>2. y - x \in 1 .. y - x /\ x + (y - x) - 1 = y - 1
          BY <4>2
        <5> QED
          BY <5>1, <5>2, Zenon
      <4>5. out[s][i][Len(out[s][i])] + 1 = y
        <5>1. out[s][i][Len(out[s][i])] = y - 1
          BY <4>3, <4>4, Zenon
        <5> QED
          BY <5>1
      <4>6. PieceEnd(s, i) = y
        BY <4>1, <4>5, Zenon DEF PieceEnd
      <4> QED
        BY <4>2, <4>3, <4>4, <4>6, Zenon
    <3>5. PieceEnd(s, 0) = CutOf(s, 0)
      BY <3>1, <3>3, Zenon DEF PieceEnd
    <3>6. ASSUME NEW i \in 1 .. n
          PROVE  /\ out[s][i] # <<>>
                 /\ out[s][i] = Bytes(PieceEnd(s, i - 1), PieceEnd(s, i))
                 /\ PieceEnd(s, i) <= req[s][2]
      <4>1. PieceEnd(s, i - 1) = CutOf(s, i - 1)
        <5>1. i - 1 = 0 \/ i - 1 \in 1 .. n
          BY <2>2
        <5> QED
          BY <3>4, <3>5, <5>1, Zenon
      <4>2. CutOf(s, i) <= b
        BY <2>2, <3>2, <3>3
      <4> QED
        BY <3>1, <3>4, <4>1, <4>2, Zenon
    <3>7. ASSUME link[s][Hops + 1].end = "eof" PROVE PieceEnd(s, n) = req[s][2]
      <4>1. n = m /\ n \in 1 .. n
        BY <2>2, <3>2, <3>3, <3>7
      <4> QED
        BY <3>1, <3>3, <3>4, <4>1, Zenon
    <3> QED
      BY <2>2, <3>6, <3>7, Zenon
  <2> QED
    BY <2>3, <2>4, Zenon
<1> QED
  BY <1>1, Invariance, PTL

\* Without a fault only a range outside of the file is answered with an error.
THEOREM ErrorsAreExplained == Spec => []ErrorsHaveACause
<1>1. FileCacheInv => ErrorsHaveACause
  <2> SUFFICES ASSUME FileCacheInv, faults = 0, NEW s \in Streams,
                      link[s][Hops + 1].end = "error"
               PROVE  Refused(req[s][1], req[s][2])
    BY Zenon DEF ErrorsHaveACause
  <2>1. CacheTypes /\ LinkOK(s)
    BY Zenon DEF FileCacheInv, StreamOK
  <2>2. Hops + 1 \in Links
    BY <2>1, StreamFields, Zenon
  <2>3. ~Valid(s) /\ req[s] # NoRange
    BY <2>1, <2>2, Zenon DEF LinkOK
  <2> QED
    BY <2>3, Zenon DEF Valid
<1> QED
  BY <1>1, Invariance, PTL
=============================================================================
