--------------------------- MODULE ChunkerProofs ----------------------------
(* The chunks of a file make up the file, for all sizes of chunks and all   *)
(* fingerprints: what the loop has cut off after each byte.                 *)
EXTENDS Chunker, Induction

ChunkType == [offset : Nat, content : Seq(Bytes)]
Progress == [start : Nat \ {0}, chunks : Seq(ChunkType)]
Start == [start |-> 1, chunks |-> <<>>]

\* turn[i]: where the loop is when it has read i bytes.
Turns(turn, bytes, n) ==
  turn[0] = Start /\ \A i \in 1 .. n : turn[i] = ReadByte(bytes, turn[i - 1], i)

\* The loop's end, and the tail.
WithTail(done, bytes) ==
  IF done.start <= Len(bytes)
    THEN Append(done.chunks, Chunk(bytes, done.start, Len(bytes))) ELSE done.chunks

-----------------------------------------------------------------------------
(* The loop                                                                *)

LEMMA ChunkFacts ==
  ASSUME NEW bytes \in Seq(Bytes), NEW first \in Nat \ {0}, NEW last \in Nat,
         last <= Len(bytes)
  PROVE  /\ Chunk(bytes, first, last) \in ChunkType
         /\ Chunk(bytes, first, last).offset = first - 1
         /\ Chunk(bytes, first, last).content = SubSeq(bytes, first, last)
         /\ SubSeq(bytes, first, last) \in Seq(Bytes)
         /\ first <= last + 1 => Len(SubSeq(bytes, first, last)) = last - first + 1
<1>1. \A i \in first .. last : bytes[i] \in Bytes
  OBVIOUS
<1>2. /\ SubSeq(bytes, first, last) \in Seq(Bytes)
      /\ first <= last + 1 => Len(SubSeq(bytes, first, last)) = last - first + 1
  BY <1>1, SubSeqProperties
<1> QED
  BY <1>2 DEF Chunk, ChunkType

LEMMA PrefixFacts ==
  ASSUME NEW T, NEW s, NEW n \in Nat, \A j \in 1 .. n : s[j] \in T
  PROVE  /\ SubSeq(s, 1, n) \in Seq(T) /\ Len(SubSeq(s, 1, n)) = n
         /\ \A j \in 1 .. n : SubSeq(s, 1, n)[j] = s[j]
  BY SubSeqProperties

LEMMA TurnType ==
  ASSUME NEW bytes \in Seq(Bytes), NEW done \in Progress, NEW i \in 1 .. Len(bytes)
  PROVE  ReadByte(bytes, done, i) \in Progress
<1>1. Chunk(bytes, done.start, i) \in ChunkType
  BY ChunkFacts DEF Progress
<1>2. Append(done.chunks, Chunk(bytes, done.start, i)) \in Seq(ChunkType)
  BY <1>1, AppendProperties DEF Progress
<1> QED
  BY <1>2 DEF ReadByte, Progress

\* The fold goes from byte to byte.
LEMMA LoopTurns ==
  ASSUME NEW bytes \in Seq(Bytes), NEW n \in Nat, Len(bytes) = n
  PROVE  \E turn \in [0 .. n -> Progress] :
           Turns(turn, bytes, n) /\ ChunkBuffer(bytes) = WithTail(turn[n], bytes)
<1> DEFINE step == [i \in 1 .. n |-> [done \in Progress |-> ReadByte(bytes, done, i)]]
<1>1. Start \in Progress
  BY EmptySeq DEF Start, Progress
<1>2. step \in [1 .. n -> [Progress -> Progress]]
  BY TurnType
<1>3. \A i \in 1 .. n, done \in Progress : step[i][done] = ReadByte(bytes, done, i)
  OBVIOUS
<1> HIDE DEF step
<1>4. PICK f \in [SUBSET (1 .. n) -> Progress] : TakesLargest(f, Start, step, n)
  BY <1>1, <1>2, FoldIteration, Zenon
<1> DEFINE body(g) == [s \in SUBSET (1 .. n) |->
                         IF s = {} THEN Start ELSE ReadByte(bytes, g[s \ {Max(s)}], Max(s))]
           q == [i \in DOMAIN bytes |-> i]
           domains(g) == [s \in SUBSET DOMAIN q |->
                            IF s = {} THEN Start
                            ELSE ReadByte(bytes, g[s \ {Max(s)}], q[Max(s)])]
           c == CHOOSE g : g = domains(g)
           turn == [k \in 0 .. n |-> c[1 .. k]]
<1>5. f = body(f)
  <2>1. ASSUME NEW s \in SUBSET (1 .. n), s # {}
        PROVE  f[s] = ReadByte(bytes, f[s \ {Max(s)}], Max(s))
    <3>1. Max(s) \in 1 .. n
      BY <2>1, LargestExists
    <3>2. f[s \ {Max(s)}] \in Progress
      OBVIOUS
    <3>3. f[s] = step[Max(s)][f[s \ {Max(s)}]]
      BY <1>4, <2>1, Zenon DEF TakesLargest
    <3> QED
      BY <1>3, <3>1, <3>2, <3>3
  <2>2. f = [s \in SUBSET (1 .. n) |-> f[s]] /\ f[{}] = Start
    BY <1>4 DEF TakesLargest
  <2> QED
    BY <2>1, <2>2, Zenon
<1>6. ASSUME NEW g
      PROVE  domains(g) = body(g)
  <2>1. DOMAIN q = 1 .. n /\ \A i \in 1 .. n : q[i] = i
    OBVIOUS
  <2>2. \A s \in (SUBSET (1 .. n)) \ {{}} : q[Max(s)] = Max(s)
    BY <2>1, LargestExists
  <2> QED
    BY <2>1, <2>2
<1>7. f = domains(f)
  BY <1>5, <1>6
<1>8. c = domains(c)
  BY <1>7
<1>9. ChunkBuffer(bytes) = WithTail(c[1 .. n], bytes)
  <2>1. 1 .. n = DOMAIN q
    OBVIOUS
  <2>2. ChunkBuffer(bytes) = WithTail(c[DOMAIN q], bytes)
    BY DEF ChunkBuffer, WithTail, FoldLeftDomain, FoldLeft, MapThenFoldSet, Start
  <2> QED
    BY <2>1, <2>2, Zenon
<1>10. c[1 .. 0] = Start
  <2>1. 1 .. 0 = {}
    OBVIOUS
  <2> QED
    BY <1>6, <1>8, <2>1
<1> HIDE DEF c, domains
<1>11. ASSUME NEW k \in 1 .. n
       PROVE  c[1 .. k] = ReadByte(bytes, c[1 .. k - 1], k)
  <2>1. Max(1 .. k) = k /\ (1 .. k) \ {k} = 1 .. k - 1
    BY LargestOfPrefix
  <2>2. 1 .. k \in SUBSET (1 .. n) /\ 1 .. k # {}
    <3>1. k \in 1 .. k /\ \A j \in 1 .. k : j \in 1 .. n
      OBVIOUS
    <3> QED
      BY <3>1
  <2>3. c = body(c)
    BY <1>6, <1>8
  <2> QED
    BY <2>1, <2>2, <2>3
<1> HIDE DEF body
<1>12. \A k \in 0 .. n : c[1 .. k] \in Progress
  <2> DEFINE G == {k \in 0 .. n : c[1 .. k] \in Progress}
  <2>1. 0 \in G
    BY <1>1, <1>10
  <2>2. ASSUME NEW k \in 1 .. n, k - 1 \in G
        PROVE  k \in G
    BY <1>11, <2>2, TurnType
  <2>3. \A k \in G : c[1 .. k] \in Progress
    OBVIOUS
  <2> HIDE DEF G
  <2> QED
    BY <2>1, <2>2, <2>3, CountingUp
<1>13. turn \in [0 .. n -> Progress]
  BY <1>12
<1>14. Turns(turn, bytes, n)
  <2>1. turn[0] = Start
    BY <1>10
  <2>2. ASSUME NEW k \in 1 .. n
        PROVE  turn[k] = ReadByte(bytes, turn[k - 1], k)
    BY <1>11
  <2> QED
    BY <2>1, <2>2 DEF Turns
<1>15. turn[n] = c[1 .. n]
  OBVIOUS
<1> QED
  BY <1>9, <1>13, <1>14, <1>15

-----------------------------------------------------------------------------
(* What has been cut off                                                   *)

LEMMA ContentsType ==
  ASSUME NEW chunks \in Seq(ChunkType)
  PROVE  /\ [i \in DOMAIN chunks |-> chunks[i].content] \in Seq(Seq(Bytes))
         /\ Contents(chunks) \in Seq(Bytes)
<1>1. [i \in DOMAIN chunks |-> chunks[i].content] \in Seq(Seq(Bytes))
  <2>1. PICK n \in Nat : n = Len(chunks) /\ DOMAIN chunks = 1 .. n
    OBVIOUS
  <2>2. \A i \in 1 .. n : chunks[i].content \in Seq(Bytes)
    <3>1. \A i \in 1 .. n : chunks[i] \in ChunkType
      BY <2>1
    <3> QED
      BY <3>1 DEF ChunkType
  <2> QED
    BY <2>1, <2>2
<1>2. <<>> \in Seq(Bytes)
  BY EmptySeq
<1> QED
  BY <1>1, <1>2, FlattenAppend DEF Contents

LEMMA ContentsAppend ==
  ASSUME NEW chunks \in Seq(ChunkType), NEW chunk \in ChunkType
  PROVE  Contents(Append(chunks, chunk)) = Contents(chunks) \o chunk.content
<1> DEFINE parts == [i \in DOMAIN chunks |-> chunks[i].content]
           more == Append(chunks, chunk)
           moreParts == [i \in DOMAIN more |-> more[i].content]
<1>1. parts \in Seq(Seq(Bytes)) /\ chunk.content \in Seq(Bytes)
  BY ContentsType DEF ChunkType
<1>2. more \in Seq(ChunkType)
  OBVIOUS
<1>3. moreParts \in Seq(Seq(Bytes))
  BY <1>2, ContentsType
<1>4. PICK n \in Nat : n = Len(chunks) /\ DOMAIN chunks = 1 .. n /\ DOMAIN more = 1 .. n + 1
  OBVIOUS
<1>5. Len(parts) = n /\ Len(moreParts) = n + 1
  BY <1>1, <1>3, <1>4
<1>6. \A i \in 1 .. n + 1 : more[i] = IF i = n + 1 THEN chunk ELSE chunks[i]
  BY <1>4
<1>7. moreParts = Append(parts, chunk.content)
  <2>1. Append(parts, chunk.content) \in Seq(Seq(Bytes)) /\ Len(Append(parts, chunk.content)) = n + 1
    BY <1>1, <1>5
  <2>2. \A i \in 1 .. n + 1 : moreParts[i] = Append(parts, chunk.content)[i]
    BY <1>1, <1>4, <1>5, <1>6
  <2> QED
    BY <1>3, <1>5, <2>1, <2>2, SeqEqual
<1>8. FlattenSeq(Append(parts, chunk.content)) = FlattenSeq(parts) \o chunk.content
  BY <1>1, FlattenAppend
<1> QED
  BY <1>7, <1>8 DEF Contents

LEMMA ContentsEmpty == Contents(<<>>) = <<>>
<1>1. [i \in DOMAIN <<>> |-> <<>>[i].content] = <<>>
  OBVIOUS
<1> QED
  BY <1>1, FlattenEmpty DEF Contents

\* The chunks are the first m bytes, each where it says.
Placed(chunks, bytes, m) ==
  /\ Contents(chunks) = SubSeq(bytes, 1, m)
  /\ \A i \in 1 .. Len(chunks) :
       chunks[i].offset = Len(Contents(SubSeq(chunks, 1, i - 1)))

Sized(chunks) ==
  \A i \in 1 .. Len(chunks) : Len(chunks[i].content) \in MinChunk .. MaxChunk

LEMMA PlacedAppend ==
  ASSUME NEW bytes \in Seq(Bytes), NEW chunks \in Seq(ChunkType),
         NEW m \in 0 .. Len(bytes), NEW last \in m + 1 .. Len(bytes),
         Placed(chunks, bytes, m)
  PROVE  Placed(Append(chunks, Chunk(bytes, m + 1, last)), bytes, last)
<1> DEFINE chunk == Chunk(bytes, m + 1, last)
           more == Append(chunks, chunk)
<1>1. /\ chunk \in ChunkType /\ chunk.offset = m
      /\ chunk.content = SubSeq(bytes, m + 1, last)
  <2>1. m + 1 \in Nat \ {0} /\ last \in Nat /\ last <= Len(bytes) /\ (m + 1) - 1 = m
    OBVIOUS
  <2> QED
    BY <2>1, ChunkFacts
<1>2. Len(SubSeq(bytes, 1, m)) = m
  BY SubSeqProperties
<1> HIDE DEF chunk
<1>3. Contents(more) = Contents(chunks) \o chunk.content
  BY <1>1, ContentsAppend
<1>4. SubSeq(bytes, 1, m) \o SubSeq(bytes, m + 1, last) = SubSeq(bytes, 1, last)
  <2>1. /\ 1 \in 1 .. Len(bytes) + 1 /\ m \in 1 - 1 .. Len(bytes)
        /\ last \in m .. Len(bytes)
    OBVIOUS
  <2> QED
    BY <2>1, ConcatAdjacentSubSeq
<1>5. PICK n \in Nat : n = Len(chunks)
  OBVIOUS
<1>6. /\ more \in Seq(ChunkType) /\ Len(more) = n + 1 /\ more[n + 1] = chunk
      /\ \A i \in 1 .. n : more[i] = chunks[i]
  BY <1>1, <1>5, AppendProperties
<1> HIDE DEF more
<1>7. ASSUME NEW i \in 1 .. n + 1
      PROVE  SubSeq(more, 1, i - 1) = SubSeq(chunks, 1, i - 1)
  <2>1. \A j \in 1 .. i - 1 : chunks[j] \in ChunkType /\ more[j] = chunks[j]
    BY <1>5, <1>6
  <2>0. i - 1 \in Nat /\ \A j \in 1 .. i - 1 : more[j] \in ChunkType
    BY <2>1
  <2>2. /\ SubSeq(more, 1, i - 1) \in Seq(ChunkType)
        /\ Len(SubSeq(more, 1, i - 1)) = i - 1
        /\ \A j \in 1 .. i - 1 : SubSeq(more, 1, i - 1)[j] = more[j]
    BY <2>0, PrefixFacts
  <2>3. /\ SubSeq(chunks, 1, i - 1) \in Seq(ChunkType)
        /\ Len(SubSeq(chunks, 1, i - 1)) = i - 1
        /\ \A j \in 1 .. i - 1 : SubSeq(chunks, 1, i - 1)[j] = chunks[j]
    BY <2>1, <2>0, PrefixFacts
  <2> QED
    BY <2>1, <2>2, <2>3, SeqEqual
<1>8. SubSeq(more, 1, n) = chunks
  <2>1. SubSeq(chunks, 1, n) = chunks
    BY <1>5, SubSeqFull
  <2>2. PICK i \in 1 .. n + 1 : i - 1 = n
    OBVIOUS
  <2>3. SubSeq(more, 1, i - 1) = SubSeq(chunks, 1, i - 1)
    BY <1>7
  <2> QED
    BY <2>1, <2>2, <2>3
<1>9. ASSUME NEW i \in 1 .. n + 1
      PROVE  more[i].offset = Len(Contents(SubSeq(more, 1, i - 1)))
  <2>1. CASE i = n + 1
    <3>1. i - 1 = n /\ more[i].offset = m
      BY <1>1, <1>6, <2>1
    <3> QED
      BY <1>2, <1>8, <3>1 DEF Placed
  <2>2. CASE i \in 1 .. n
    BY <1>5, <1>6, <1>7, <2>2 DEF Placed
  <2> QED
    BY <2>1, <2>2
<1>10. Contents(more) = SubSeq(bytes, 1, last)
  BY <1>1, <1>3, <1>4 DEF Placed
<1>11. Placed(more, bytes, last)
  BY <1>6, <1>9, <1>10 DEF Placed
<1> QED
  BY <1>11 DEF more, chunk

\* Where the loop is after k bytes: the chunk it is in is not full.
Kept(done, bytes, k) ==
  /\ done.start \in 1 .. k + 1 /\ k - done.start + 1 < MaxChunk
  /\ Placed(done.chunks, bytes, done.start - 1) /\ Sized(done.chunks)

LEMMA KeptTurn ==
  ASSUME NEW bytes \in Seq(Bytes), NEW i \in 1 .. Len(bytes), NEW done \in Progress,
         Kept(done, bytes, i - 1)
  PROVE  Kept(ReadByte(bytes, done, i), bytes, i)
<1>1. /\ done.chunks \in Seq(ChunkType) /\ done.start \in 1 .. i
      /\ i - done.start + 1 <= MaxChunk /\ Placed(done.chunks, bytes, done.start - 1)
      /\ Sized(done.chunks)
      /\ MinChunk \in Nat /\ MaxChunk \in Nat /\ MinChunk <= MaxChunk
  BY ChunkerAssumption DEF Kept, Progress
<1>2. PICK start \in Nat \ {0} : start = done.start
  BY <1>1
<1>3. /\ Chunk(bytes, start, i) \in ChunkType
      /\ Chunk(bytes, start, i).content = SubSeq(bytes, start, i)
      /\ Len(SubSeq(bytes, start, i)) = i - start + 1
  <2>1. start \in Nat \ {0} /\ i \in Nat /\ i <= Len(bytes) /\ start <= i + 1
    BY <1>1, <1>2
  <2> QED
    BY <2>1, ChunkFacts
<1>4. CASE EndsAt(bytes, start, i)
  <2>1. PICK more : more = Append(done.chunks, Chunk(bytes, start, i))
    OBVIOUS
  <2>2. Len(SubSeq(bytes, start, i)) \in MinChunk .. MaxChunk
    BY <1>1, <1>2, <1>3, <1>4 DEF EndsAt, Ends
  <2>3. Placed(more, bytes, i)
    <3>1. /\ start - 1 \in 0 .. Len(bytes) /\ i \in (start - 1) + 1 .. Len(bytes)
          /\ (start - 1) + 1 = start
      BY <1>1, <1>2
    <3> QED
      BY <1>1, <1>2, <2>1, <3>1, PlacedAppend
  <2>4. Sized(more)
    <3>1. PICK n \in Nat : n = Len(done.chunks)
      BY <1>1
    <3>2. /\ Len(more) = n + 1
          /\ more[n + 1] = Chunk(bytes, start, i)
          /\ \A j \in 1 .. n : more[j] = done.chunks[j]
      BY <1>1, <1>3, <2>1, <3>1, AppendProperties
    <3>3. ASSUME NEW j \in 1 .. n + 1
          PROVE  Len(more[j].content) \in MinChunk .. MaxChunk
      <4>1. CASE j = n + 1
        BY <1>3, <2>2, <3>2, <4>1
      <4>2. CASE j \in 1 .. n
        BY <1>1, <3>1, <3>2, <4>2 DEF Sized
      <4> QED
        BY <4>1, <4>2
    <3> QED
      BY <3>2, <3>3 DEF Sized
  <2>5. ReadByte(bytes, done, i) = [start |-> i + 1, chunks |-> more]
    BY <1>2, <1>4, <2>1 DEF ReadByte
  <2>6. 0 < MaxChunk
    BY ChunkerAssumption
  <2> QED
    BY <2>3, <2>4, <2>5, <2>6 DEF Kept
<1>5. CASE ~EndsAt(bytes, start, i)
  <2>1. i - start + 1 < MaxChunk
    BY <1>1, <1>2, <1>3, <1>5 DEF EndsAt, Ends
  <2>2. ReadByte(bytes, done, i) = done
    BY <1>2, <1>5 DEF ReadByte
  <2> QED
    BY <1>1, <1>2, <2>1, <2>2 DEF Kept
<1> QED
  BY <1>4, <1>5

LEMMA KeptThroughout ==
  ASSUME NEW bytes \in Seq(Bytes), NEW n \in Nat, Len(bytes) = n,
         NEW turn \in [0 .. n -> Progress], Turns(turn, bytes, n)
  PROVE  \A k \in 0 .. n : Kept(turn[k], bytes, k)
<1> DEFINE G == {k \in 0 .. n : Kept(turn[k], bytes, k)}
<1>1. Kept(turn[0], bytes, 0)
  <2>1. turn[0] = Start /\ 0 < MaxChunk
    BY ChunkerAssumption DEF Turns
  <2>2. SubSeq(bytes, 1, 0) = <<>>
    BY SubSeqEmpty
  <2>3. Len(<<>>) = 0
    OBVIOUS
  <2>4. Placed(<<>>, bytes, 0) /\ Sized(<<>>)
    <3>1. PICK empty : empty = <<>>
      OBVIOUS
    <3>2. Len(empty) = 0 /\ Contents(empty) = SubSeq(bytes, 1, 0)
      BY <2>2, <2>3, <3>1, ContentsEmpty, Zenon
    <3>3. Placed(empty, bytes, 0) /\ Sized(empty)
      BY <3>2 DEF Placed, Sized
    <3> QED
      BY <3>1, <3>3
  <2>5. Start.start = 1 /\ Start.chunks = <<>>
    BY DEF Start
  <2>6. Placed(Start.chunks, bytes, Start.start - 1)
    BY <2>4, <2>5
  <2> QED
    BY <2>1, <2>4, <2>5, <2>6 DEF Kept
<1>2. ASSUME NEW k \in 1 .. n, k - 1 \in G
      PROVE  k \in G
  <2>1. turn[k - 1] \in Progress /\ turn[k] = ReadByte(bytes, turn[k - 1], k)
    BY DEF Turns
  <2>2. Kept(turn[k], bytes, k)
    BY <1>2, <2>1, KeptTurn
  <2> QED
    BY <2>2
<1>3. \A k \in G : Kept(turn[k], bytes, k)
  OBVIOUS
<1>4. 0 \in G
  BY <1>1
<1> HIDE DEF G
<1> QED
  BY <1>2, <1>3, <1>4, CountingUp

\* What the chunks of a file that is cut are.
LEMMA BufferIsCovered ==
  ASSUME NEW bytes \in Seq(Bytes)
  PROVE  LET chunks == ChunkBuffer(bytes) IN
         /\ chunks \in Seq(ChunkType) /\ Placed(chunks, bytes, Len(bytes))
         /\ \A i \in 1 .. Len(chunks) :
              /\ Len(chunks[i].content) <= MaxChunk
              /\ i < Len(chunks) => Len(chunks[i].content) >= MinChunk
<1>1. PICK n \in Nat : n = Len(bytes)
  OBVIOUS
<1>2. PICK turn \in [0 .. n -> Progress] :
        Turns(turn, bytes, n) /\ ChunkBuffer(bytes) = WithTail(turn[n], bytes)
  BY <1>1, LoopTurns
<1>3. PICK done : done = turn[n]
  OBVIOUS
<1>4. done \in Progress /\ Kept(done, bytes, n)
  BY <1>1, <1>2, <1>3, KeptThroughout
<1>5. PICK start \in Nat \ {0} : start = done.start
  BY <1>4 DEF Progress
<1>6. /\ done.chunks \in Seq(ChunkType) /\ start \in 1 .. n + 1
      /\ n - start + 1 < MaxChunk /\ Placed(done.chunks, bytes, start - 1)
      /\ Sized(done.chunks)
      /\ MinChunk \in Nat /\ MaxChunk \in Nat /\ MinChunk <= MaxChunk
  BY <1>4, <1>5, ChunkerAssumption DEF Kept, Progress
<1>7. CASE start <= n
  <2>1. PICK more : more = Append(done.chunks, Chunk(bytes, start, n))
    OBVIOUS
  <2>2. /\ Chunk(bytes, start, n) \in ChunkType
        /\ Len(Chunk(bytes, start, n).content) = n - start + 1
    <3>1. start \in Nat \ {0} /\ n \in Nat /\ n <= Len(bytes) /\ start <= n + 1
      BY <1>1, <1>6, <1>7
    <3> QED
      BY <3>1, ChunkFacts
  <2>3. ChunkBuffer(bytes) = more
    BY <1>1, <1>2, <1>3, <1>5, <1>7, <2>1 DEF WithTail
  <2>4. Placed(more, bytes, n)
    <3>1. /\ start - 1 \in 0 .. Len(bytes) /\ n \in (start - 1) + 1 .. Len(bytes)
          /\ (start - 1) + 1 = start
      BY <1>1, <1>6, <1>7
    <3> QED
      BY <1>6, <2>1, <3>1, PlacedAppend
  <2>5. PICK j \in Nat : j = Len(done.chunks)
    BY <1>6
  <2>6. /\ more \in Seq(ChunkType) /\ Len(more) = j + 1
        /\ more[j + 1] = Chunk(bytes, start, n)
        /\ \A i \in 1 .. j : more[i] = done.chunks[i]
    BY <1>6, <2>1, <2>2, <2>5, AppendProperties
  <2>7. ASSUME NEW i \in 1 .. j + 1
        PROVE  /\ Len(more[i].content) <= MaxChunk
               /\ i < j + 1 => Len(more[i].content) >= MinChunk
    <3>1. CASE i = j + 1
      BY <1>6, <2>2, <2>6, <3>1
    <3>2. CASE i \in 1 .. j
      <4>1. Len(done.chunks[i].content) \in MinChunk .. MaxChunk
        BY <1>6, <2>5, <3>2 DEF Sized
      <4>2. more[i] = done.chunks[i]
        BY <2>6, <3>2
      <4>3. Len(more[i].content) \in MinChunk .. MaxChunk
        BY <4>1, <4>2
      <4> QED
        BY <1>6, <4>3
    <3> QED
      BY <3>1, <3>2
  <2> QED
    BY <1>1, <2>3, <2>4, <2>6, <2>7
<1>8. CASE ~(start <= n)
  <2>1. ChunkBuffer(bytes) = done.chunks
    BY <1>1, <1>2, <1>3, <1>5, <1>8 DEF WithTail
  <2>2. start - 1 = n
    BY <1>6, <1>8
  <2> QED
    BY <1>1, <1>6, <2>1, <2>2 DEF Sized
<1> QED
  BY <1>7, <1>8

-----------------------------------------------------------------------------
(* Cuts forget the past                                                    *)

\* The loop is still where it was when the chunk it is in began, and so it was
\* for each chunk behind it.
Remembers(turn, k) ==
  /\ turn[turn[k].start - 1] = turn[k]
  /\ \A j \in 1 .. Len(turn[k].chunks) :
       /\ turn[k].chunks[j].offset \in 0 .. k - 1
       /\ turn[turn[k].chunks[j].offset].start = turn[k].chunks[j].offset + 1
       /\ Len(turn[turn[k].chunks[j].offset].chunks) = j - 1

LEMMA TurnsRemember ==
  ASSUME NEW bytes \in Seq(Bytes), NEW n \in Nat, Len(bytes) = n,
         NEW turn \in [0 .. n -> Progress], Turns(turn, bytes, n)
  PROVE  \A k \in 0 .. n : Remembers(turn, k)
<1> DEFINE G == {k \in 0 .. n : Remembers(turn, k)}
<1>1. 0 \in G
  <2>1. turn[0].start = 1 /\ turn[0].chunks = <<>> /\ Len(<<>>) = 0
    BY DEF Turns, Start
  <2>2. Len(turn[0].chunks) = 0
    BY <2>1, Zenon
  <2>3. turn[0].start - 1 = 0
    BY <2>1
  <2> QED
    BY <2>2, <2>3 DEF Remembers
<1>2. ASSUME NEW k \in 1 .. n, k - 1 \in G
      PROVE  k \in G
  <2>1. PICK done \in Progress : done = turn[k - 1]
    OBVIOUS
  <2>2. /\ turn[k] = ReadByte(bytes, done, k) /\ Remembers(turn, k - 1)
        /\ Kept(done, bytes, k - 1)
    <3>1. k - 1 \in 0 .. n
      OBVIOUS
    <3> QED
      BY <1>2, <2>1, <3>1, KeptThroughout DEF Turns
  <2>3. done.start \in 1 .. k /\ done.chunks \in Seq(ChunkType)
    BY <2>2 DEF Kept, Progress
  <2>4. CASE ~EndsAt(bytes, done.start, k)
    <3>1. turn[k] = turn[k - 1]
      BY <2>1, <2>2, <2>4 DEF ReadByte
    <3>2. \A o : o \in 0 .. (k - 1) - 1 => o \in 0 .. k - 1
      OBVIOUS
    <3>3. Remembers(turn, k)
      BY <2>2, <3>1, <3>2, Zenon DEF Remembers
    <3> QED
      BY <3>3
  <2>5. CASE EndsAt(bytes, done.start, k)
    <3>1. PICK chunk : chunk = Chunk(bytes, done.start, k)
      OBVIOUS
    <3>2. /\ turn[k].start = k + 1 /\ turn[k].chunks = Append(done.chunks, chunk)
          /\ chunk.offset = done.start - 1
      BY <2>2, <2>5, <3>1 DEF ReadByte, Chunk
    <3>3. PICK m \in Nat : m = Len(done.chunks)
      BY <2>3
    <3>4. chunk \in ChunkType
      <4>1. done.start \in Nat \ {0} /\ k \in Nat /\ k <= Len(bytes)
        BY <2>3
      <4> QED
        BY <3>1, <4>1, ChunkFacts
    <3>5. /\ Len(turn[k].chunks) = m + 1 /\ turn[k].chunks[m + 1] = chunk
          /\ \A j \in 1 .. m : turn[k].chunks[j] = done.chunks[j]
      BY <2>3, <3>2, <3>3, <3>4, AppendProperties
    <3>6. PICK o \in 0 .. k - 1 : o = done.start - 1
      BY <2>3
    <3>7. turn[o] = done
      BY <2>1, <2>2, <3>6 DEF Remembers
    <3>8. ASSUME NEW j \in 1 .. m + 1
          PROVE  /\ turn[k].chunks[j].offset \in 0 .. k - 1
                 /\ turn[turn[k].chunks[j].offset].start = turn[k].chunks[j].offset + 1
                 /\ Len(turn[turn[k].chunks[j].offset].chunks) = j - 1
      <4>1. CASE j = m + 1
        <5>1. turn[k].chunks[j].offset = o
          BY <3>2, <3>5, <3>6, <4>1
        <5>2. turn[o].start = o + 1 /\ Len(turn[o].chunks) = j - 1
          BY <2>3, <3>3, <3>6, <3>7, <4>1
        <5> QED
          BY <5>1, <5>2
      <4>2. CASE j \in 1 .. m
        <5>1. /\ done.chunks[j].offset \in 0 .. (k - 1) - 1
              /\ turn[done.chunks[j].offset].start = done.chunks[j].offset + 1
              /\ Len(turn[done.chunks[j].offset].chunks) = j - 1
          BY <2>1, <2>2, <3>3, <4>2 DEF Remembers
        <5>2. turn[k].chunks[j].offset = done.chunks[j].offset
          BY <3>5, <4>2
        <5>3. \A x : x \in 0 .. (k - 1) - 1 => x \in 0 .. k - 1
          OBVIOUS
        <5> QED
          BY <5>1, <5>2, <5>3
      <4> QED
        BY <4>1, <4>2
    <3>9. turn[k].start - 1 = k
      BY <3>2
    <3> QED
      BY <3>5, <3>8, <3>9 DEF Remembers
  <2> QED
    BY <2>4, <2>5
<1>3. \A k \in G : Remembers(turn, k)
  OBVIOUS
<1> HIDE DEF G
<1> QED
  BY <1>1, <1>2, <1>3, CountingUp

\* The contents from the i-th chunk on.
Continues(here, there, i) ==
  /\ Len(here) = i + Len(there)
  /\ \A j \in 1 .. Len(there) : here[i + j].content = there[j].content

\* Where the loop is on a file when it is at `there` on a part after byte t.
Shifted(here, there, t, i) ==
  here.start = t + there.start /\ Continues(here.chunks, there.chunks, i)

IsPart(rest, bytes, t) ==
  rest = SubSeq(bytes, t + 1, t + Len(rest)) /\ t + Len(rest) <= Len(bytes)

SamePart(rest, bytes, t, first, last) ==
  SubSeq(rest, first, last) = SubSeq(bytes, t + first, t + last)

LEMMA RestFacts ==
  ASSUME NEW bytes \in Seq(Bytes), NEW t \in Nat, NEW rest \in Seq(Bytes), IsPart(rest, bytes, t),
         NEW first \in Nat \ {0}, NEW last \in Nat, first <= last, last <= Len(rest)
  PROVE  SamePart(rest, bytes, t, first, last)
<1>1. PICK n \in Nat : n = t + Len(rest) /\ last <= n - t /\ n <= Len(bytes)
  <2>1. Len(rest) \in Nat
    OBVIOUS
  <2> QED
    BY <2>1 DEF IsPart
<1>2. /\ t + 1 \in 1 .. Len(bytes) /\ n \in 1 .. Len(bytes)
      /\ first \in 1 .. n - (t + 1) + 1 /\ last \in 1 .. n - (t + 1) + 1
      /\ (t + 1) + first - 1 = t + first /\ (t + 1) + last - 1 = t + last
  BY <1>1
<1>3. SubSeq(SubSeq(bytes, t + 1, n), first, last)
        = SubSeq(bytes, (t + 1) + first - 1, (t + 1) + last - 1)
  BY <1>1, <1>2, SubSeqOfSubSeq
<1> QED
  BY <1>1, <1>2, <1>3 DEF IsPart, SamePart

\* A chunk that is appended to both.
LEMMA ContinuesAppend ==
  ASSUME NEW here \in Seq(ChunkType), NEW there \in Seq(ChunkType), NEW i \in Nat,
         Continues(here, there, i),
         NEW a \in ChunkType, NEW b \in ChunkType, a.content = b.content
  PROVE  Continues(Append(here, a), Append(there, b), i)
<1>1. PICK m \in Nat : m = Len(there)
  OBVIOUS
<1>2. PICK w \in Nat : w = Len(here)
  OBVIOUS
<1>3. w = i + m /\ \A j \in 1 .. m : here[i + j].content = there[j].content
  BY <1>1, <1>2 DEF Continues
<1>4. PICK x : x = Append(here, a)
  OBVIOUS
<1>5. PICK y : y = Append(there, b)
  OBVIOUS
<1>6. /\ x \in Seq(ChunkType) /\ Len(x) = w + 1 /\ x[w + 1] = a
      /\ \A j \in 1 .. w : x[j] = here[j]
  BY <1>2, <1>4, AppendProperties
<1>7. /\ y \in Seq(ChunkType) /\ Len(y) = m + 1 /\ y[m + 1] = b
      /\ \A j \in 1 .. m : y[j] = there[j]
  BY <1>1, <1>5, AppendProperties
<1>8. ASSUME NEW j \in 1 .. m + 1
      PROVE  x[i + j].content = y[j].content
  <2>1. CASE j = m + 1
    <3>1. i + j = w + 1
      BY <1>3, <2>1
    <3>2. x[i + j] = a /\ y[j] = b
      BY <1>6, <1>7, <2>1, <3>1
    <3> QED
      BY <3>2
  <2>2. CASE j \in 1 .. m
    <3>1. i + j \in 1 .. w
      BY <1>3, <2>2
    <3>2. x[i + j] = here[i + j] /\ y[j] = there[j]
      BY <1>6, <1>7, <2>2, <3>1
    <3> QED
      BY <1>3, <2>2, <3>2
  <2> QED
    BY <2>1, <2>2
<1>9. Len(x) = i + Len(y)
  BY <1>3, <1>6, <1>7
<1>10. Continues(x, y, i)
  BY <1>7, <1>8, <1>9 DEF Continues
<1> QED
  BY <1>4, <1>5, <1>10

LEMMA ShiftedTurn ==
  ASSUME NEW bytes \in Seq(Bytes), NEW t \in Nat, NEW rest \in Seq(Bytes),
         IsPart(rest, bytes, t), NEW i \in Nat,
         NEW here \in Progress, NEW there \in Progress, Shifted(here, there, t, i),
         NEW k \in 1 .. Len(rest), there.start \in 1 .. k
  PROVE  Shifted(ReadByte(bytes, here, t + k), ReadByte(rest, there, k), t, i)
<1>1. PICK s \in Nat \ {0} : s = there.start /\ s <= k
  OBVIOUS
<1>2. here.start = t + s /\ t + s \in Nat \ {0}
  BY <1>1 DEF Shifted
<1>3. k \in Nat /\ k <= Len(rest) /\ t + k \in Nat /\ t + k <= Len(bytes)
  BY DEF IsPart
<1>4. SubSeq(rest, s, k) = SubSeq(bytes, t + s, t + k)
  <2>1. SamePart(rest, bytes, t, s, k)
    BY <1>1, <1>3, RestFacts
  <2> QED
    BY <2>1 DEF SamePart
<1>5. CASE ~Ends(SubSeq(rest, s, k))
  <2>1. ReadByte(bytes, here, t + k) = here /\ ReadByte(rest, there, k) = there
    BY <1>1, <1>2, <1>4, <1>5 DEF ReadByte, EndsAt
  <2> QED
    BY <2>1
<1>6. CASE Ends(SubSeq(rest, s, k))
  <2>1. PICK a : a = Chunk(bytes, t + s, t + k)
    OBVIOUS
  <2>2. PICK b : b = Chunk(rest, s, k)
    OBVIOUS
  <2>3. /\ ReadByte(bytes, here, t + k)
             = [start |-> t + k + 1, chunks |-> Append(here.chunks, a)]
        /\ ReadByte(rest, there, k) = [start |-> k + 1, chunks |-> Append(there.chunks, b)]
    BY <1>1, <1>2, <1>4, <1>6, <2>1, <2>2, Zenon DEF ReadByte, EndsAt
  <2>4. a \in ChunkType /\ a.content = SubSeq(bytes, t + s, t + k)
    BY <1>2, <1>3, <2>1, ChunkFacts
  <2>5. b \in ChunkType /\ b.content = SubSeq(rest, s, k)
    BY <1>1, <1>3, <2>2, ChunkFacts
  <2>6. a.content = b.content
    BY <1>4, <2>4, <2>5
  <2>7. PICK x \in Seq(ChunkType) : x = here.chunks
    BY DEF Progress
  <2>8. PICK y \in Seq(ChunkType) : y = there.chunks
    BY DEF Progress
  <2>9. Continues(Append(x, a), Append(y, b), i)
    BY <2>4, <2>5, <2>6, <2>7, <2>8, ContinuesAppend DEF Shifted
  <2>10. t + k + 1 = t + (k + 1)
    OBVIOUS
  <2>11. Shifted([start |-> t + k + 1, chunks |-> Append(x, a)],
                 [start |-> k + 1, chunks |-> Append(y, b)], t, i)
    BY <2>9, <2>10 DEF Shifted
  <2> QED
    BY <2>3, <2>7, <2>8, <2>11
<1> QED
  BY <1>5, <1>6

LEMMA Restart ==
  ASSUME NEW bytes \in Seq(Bytes), NEW n \in Nat, Len(bytes) = n,
         NEW turn \in [0 .. n -> Progress], Turns(turn, bytes, n),
         NEW t \in 0 .. n, turn[t].start = t + 1, NEW m \in Nat,
         NEW i \in Nat, i = Len(turn[t].chunks),
         NEW rest \in Seq(Bytes), Len(rest) = m, IsPart(rest, bytes, t),
         NEW again \in [0 .. m -> Progress], Turns(again, rest, m)
  PROVE  \A k \in 0 .. m : Shifted(turn[t + k], again[k], t, i)
<1> DEFINE G == {k \in 0 .. m : Shifted(turn[t + k], again[k], t, i)}
<1>0. m <= n - t
  BY DEF IsPart
<1>1. 0 \in G
  <2>1. again[0].start = 1 /\ again[0].chunks = <<>> /\ Len(<<>>) = 0
    BY DEF Turns, Start
  <2>2. Len(again[0].chunks) = 0
    BY <2>1, Zenon
  <2>3. t + 0 = t /\ i + 0 = i /\ turn[t].start = t + again[0].start /\ 0 \in 0 .. m
    BY <2>1
  <2>4. Shifted(turn[t], again[0], t, i)
    BY <2>2, <2>3 DEF Shifted, Continues
  <2> QED
    BY <2>3, <2>4
<1>2. ASSUME NEW k \in 1 .. m, k - 1 \in G
      PROVE  k \in G
  <2>1. /\ k - 1 \in 0 .. m /\ t + k \in 1 .. n /\ t + k - 1 \in 0 .. n
        /\ t + (k - 1) = t + k - 1
    BY <1>0
  <2>2. PICK here \in Progress : here = turn[t + k - 1]
    BY <2>1
  <2>3. PICK there \in Progress : there = again[k - 1]
    BY <2>1
  <2>4. /\ turn[t + k] = ReadByte(bytes, here, t + k)
        /\ again[k] = ReadByte(rest, there, k)
    BY <2>1, <2>2, <2>3 DEF Turns
  <2>5. Shifted(here, there, t, i)
    BY <1>2, <2>1, <2>2, <2>3
  <2>6. Kept(there, rest, k - 1)
    BY <2>1, <2>3, KeptThroughout
  <2>7. there.start \in 1 .. k
    BY <2>6 DEF Kept
  <2>8. Shifted(turn[t + k], again[k], t, i)
    BY <2>4, <2>5, <2>7, ShiftedTurn
  <2> QED
    BY <2>8
<1>3. \A k \in G : Shifted(turn[t + k], again[k], t, i)
  OBVIOUS
<1> HIDE DEF G
<1> QED
  BY <1>1, <1>2, <1>3, CountingUp

\* Where the (i+1)-th chunk of a file begins, the loop had cut off i chunks.
LEMMA ChunkBegins ==
  ASSUME NEW bytes \in Seq(Bytes), NEW n \in Nat, Len(bytes) = n,
         NEW turn \in [0 .. n -> Progress], Turns(turn, bytes, n),
         NEW chunks, chunks = WithTail(turn[n], bytes),
         NEW i \in 1 .. Len(chunks) - 1
  PROVE  /\ chunks[i + 1].offset \in 0 .. n
         /\ turn[chunks[i + 1].offset].start = chunks[i + 1].offset + 1
         /\ Len(turn[chunks[i + 1].offset].chunks) = i
<1>1. PICK done \in Progress : done = turn[n]
  OBVIOUS
<1>2. Remembers(turn, n) /\ Kept(done, bytes, n)
  BY <1>1, KeptThroughout, TurnsRemember
<1>3. done.start \in 1 .. n + 1 /\ done.chunks \in Seq(ChunkType)
  BY <1>2 DEF Kept, Progress
<1>4. PICK m \in Nat : m = Len(done.chunks)
  BY <1>3
<1>5. ASSUME NEW j \in 1 .. m
      PROVE  /\ done.chunks[j].offset \in 0 .. n
             /\ turn[done.chunks[j].offset].start = done.chunks[j].offset + 1
             /\ Len(turn[done.chunks[j].offset].chunks) = j - 1
  <2>1. \A o : o \in 0 .. n - 1 => o \in 0 .. n
    OBVIOUS
  <2> QED
    BY <1>1, <1>2, <1>4, <2>1 DEF Remembers
<1>6. CASE ~(done.start <= n)
  <2>1. chunks = done.chunks
    BY <1>1, <1>6 DEF WithTail
  <2>2. i + 1 \in 1 .. m /\ (i + 1) - 1 = i
    BY <1>4, <2>1
  <2> QED
    BY <1>5, <2>1, <2>2
<1>7. CASE done.start <= n
  <2>1. PICK tail : tail = Chunk(bytes, done.start, n)
    OBVIOUS
  <2>2. chunks = Append(done.chunks, tail)
    BY <1>1, <1>7, <2>1 DEF WithTail
  <2>3. tail \in ChunkType /\ tail.offset = done.start - 1
    <3>1. done.start \in Nat \ {0} /\ n \in Nat /\ n <= Len(bytes)
      BY <1>3
    <3> QED
      BY <2>1, <3>1, ChunkFacts
  <2>4. /\ Len(chunks) = m + 1 /\ chunks[m + 1] = tail
        /\ \A j \in 1 .. m : chunks[j] = done.chunks[j]
    BY <1>3, <1>4, <2>2, <2>3, AppendProperties
  <2>5. CASE i = m
    <3>1. PICK o \in 0 .. n : o = done.start - 1
      BY <1>3
    <3>2. chunks[i + 1].offset = o /\ turn[o] = done /\ done.start = o + 1
      BY <1>1, <1>2, <1>3, <2>3, <2>4, <2>5, <3>1 DEF Remembers
    <3> QED
      BY <1>4, <2>5, <3>2
  <2>6. CASE i # m
    <3>1. i + 1 \in 1 .. m /\ (i + 1) - 1 = i
      BY <2>4, <2>6
    <3> QED
      BY <1>5, <2>4, <3>1
  <2> QED
    BY <2>5, <2>6
<1> QED
  BY <1>6, <1>7

LEMMA Forgotten == data \in Seq(Bytes) => CutsForgetThePast
<1> SUFFICES ASSUME data \in Seq(Bytes), NEW i \in 1 .. Len(ChunkBuffer(data)) - 1
             PROVE  LET chunks == ChunkBuffer(data)
                        rest == SubSeq(data, chunks[i + 1].offset + 1, Len(data))
                        contents == [k \in 1 .. Len(chunks) - i |-> chunks[i + k].content]
                    IN contents = [k \in DOMAIN ChunkBuffer(rest) |-> ChunkBuffer(rest)[k].content]
  BY DEF CutsForgetThePast
<1>1. PICK n \in Nat : n = Len(data)
  OBVIOUS
<1>2. PICK turn \in [0 .. n -> Progress] :
        Turns(turn, data, n) /\ ChunkBuffer(data) = WithTail(turn[n], data)
  BY <1>1, LoopTurns
<1>3. PICK chunks \in Seq(ChunkType) : chunks = ChunkBuffer(data)
  BY BufferIsCovered
<1>4. PICK t : t = chunks[i + 1].offset
  OBVIOUS
<1>5. t \in 0 .. n /\ turn[t].start = t + 1 /\ Len(turn[t].chunks) = i
  BY <1>1, <1>2, <1>3, <1>4, ChunkBegins
<1>6. PICK rest : rest = SubSeq(data, t + 1, n)
  OBVIOUS
<1>7. PICK m \in Nat : m = n - t
  BY <1>5
<1>8. rest \in Seq(Bytes) /\ Len(rest) = m /\ IsPart(rest, data, t)
  <2>1. t + 1 \in Nat \ {0} /\ n \in Nat /\ n <= Len(data) /\ t + 1 <= n + 1
    BY <1>1, <1>5
  <2>2. SubSeq(data, t + 1, n) \in Seq(Bytes) /\ Len(SubSeq(data, t + 1, n)) = n - (t + 1) + 1
    BY <2>1, ChunkFacts
  <2> QED
    BY <1>1, <1>5, <1>6, <1>7, <2>2 DEF IsPart
<1>9. PICK again \in [0 .. m -> Progress] :
        Turns(again, rest, m) /\ ChunkBuffer(rest) = WithTail(again[m], rest)
  BY <1>8, LoopTurns
<1>10. PICK more \in Seq(ChunkType) : more = ChunkBuffer(rest)
  BY <1>8, BufferIsCovered
<1>11. PICK here \in Progress : here = turn[n]
  BY <1>2
<1>12. PICK there \in Progress : there = again[m]
  BY <1>9
<1>13. Shifted(here, there, t, i)
  <2>1. i \in Nat /\ m \in 0 .. m /\ t + m = n
    BY <1>5, <1>7
  <2>2. \A k \in 0 .. m : Shifted(turn[t + k], again[k], t, i)
    BY <1>1, <1>2, <1>5, <1>8, <1>9, <2>1, Restart
  <2> QED
    BY <1>11, <1>12, <2>1, <2>2
<1>14. Kept(there, rest, m)
  <2>1. \A k \in 0 .. m : Kept(again[k], rest, k)
    BY <1>8, <1>9, KeptThroughout
  <2>2. m \in 0 .. m
    OBVIOUS
  <2> QED
    BY <1>12, <2>1, <2>2
<1>15. there.start \in 1 .. m + 1 /\ here.start = t + there.start
  BY <1>13, <1>14 DEF Kept, Shifted
<1>16. Continues(chunks, more, i)
  <2>1. CASE ~(there.start <= m)
    <3>1. ~(here.start <= n)
      BY <1>5, <1>7, <1>15, <2>1
    <3>2. chunks = here.chunks /\ more = there.chunks
      BY <1>1, <1>2, <1>3, <1>8, <1>9, <1>10, <1>11, <1>12, <2>1, <3>1 DEF WithTail
    <3> QED
      BY <1>13, <3>2 DEF Shifted
  <2>2. CASE there.start <= m
    <3>1. here.start <= n
      BY <1>5, <1>7, <1>15, <2>2
    <3>2. PICK a : a = Chunk(data, here.start, n)
      OBVIOUS
    <3>3. PICK b : b = Chunk(rest, there.start, m)
      OBVIOUS
    <3>4. chunks = Append(here.chunks, a)
      BY <1>1, <1>2, <1>3, <1>11, <3>1, <3>2 DEF WithTail
    <3>5. more = Append(there.chunks, b)
      BY <1>8, <1>9, <1>10, <1>12, <2>2, <3>3 DEF WithTail
    <3>6. /\ here.start \in Nat \ {0} /\ n <= Len(data)
          /\ there.start \in Nat \ {0} /\ m <= Len(rest)
      BY <1>1, <1>8 DEF Progress
    <3>7. a \in ChunkType /\ a.content = SubSeq(data, here.start, n)
      BY <3>2, <3>6, ChunkFacts
    <3>8. b \in ChunkType /\ b.content = SubSeq(rest, there.start, m)
      BY <1>8, <3>3, <3>6, ChunkFacts
    <3>9. a.content = b.content
      <4>1. t \in Nat /\ t + m = n
        BY <1>5, <1>7
      <4>2. SubSeq(rest, there.start, m) = SubSeq(data, t + there.start, t + m)
        <5>1. SamePart(rest, data, t, there.start, m)
          BY <1>8, <2>2, <3>6, <4>1, RestFacts
        <5> QED
          BY <5>1 DEF SamePart
      <4> QED
        BY <1>15, <3>7, <3>8, <4>1, <4>2
    <3>10. /\ i \in Nat /\ here.chunks \in Seq(ChunkType) /\ there.chunks \in Seq(ChunkType)
           /\ Continues(here.chunks, there.chunks, i)
      BY <1>5, <1>13 DEF Shifted, Progress
    <3> QED
      BY <3>4, <3>5, <3>7, <3>8, <3>9, <3>10, ContinuesAppend
  <2> QED
    BY <2>1, <2>2
<1>17. [k \in 1 .. Len(chunks) - i |-> chunks[i + k].content]
         = [k \in DOMAIN more |-> more[k].content]
  <2>1. PICK w \in Nat : w = Len(more) /\ DOMAIN more = 1 .. w
    OBVIOUS
  <2>2. Len(chunks) - i = w
    BY <1>16, <2>1 DEF Continues
  <2>3. \A k \in 1 .. w : chunks[i + k].content = more[k].content
    BY <1>16, <2>1 DEF Continues
  <2> QED
    BY <2>1, <2>2, <2>3
<1> QED
  BY <1>1, <1>3, <1>4, <1>6, <1>10, <1>17

-----------------------------------------------------------------------------
(* Bytes are appended                                                      *)

\* What the loop has cut off stays, and what it cuts off later comes later.
GoesOn(done, later) ==
  /\ later.start >= done.start
  /\ Len(later.chunks) >= Len(done.chunks)
  /\ \A j \in 1 .. Len(done.chunks) : later.chunks[j] = done.chunks[j]
  /\ \A j \in Len(done.chunks) + 1 .. Len(later.chunks) :
       later.chunks[j].offset >= done.start - 1

LEMMA GoesOnTurn ==
  ASSUME NEW bytes \in Seq(Bytes), NEW i \in 1 .. Len(bytes),
         NEW done \in Progress, NEW later \in Progress, later.start <= i,
         GoesOn(done, later)
  PROVE  GoesOn(done, ReadByte(bytes, later, i))
<1>1. CASE ~EndsAt(bytes, later.start, i)
  <2>1. ReadByte(bytes, later, i) = later
    BY <1>1 DEF ReadByte
  <2> QED
    BY <2>1
<1>2. CASE EndsAt(bytes, later.start, i)
  <2>1. PICK x \in Seq(ChunkType) : x = later.chunks
    BY DEF Progress
  <2>2. PICK y \in Seq(ChunkType) : y = done.chunks
    BY DEF Progress
  <2>3. PICK s \in Nat \ {0} : s = later.start /\ s <= i
    BY DEF Progress
  <2>4. PICK chunk : chunk = Chunk(bytes, s, i)
    OBVIOUS
  <2>5. chunk \in ChunkType /\ chunk.offset = s - 1
    <3>1. s \in Nat \ {0} /\ i \in Nat /\ i <= Len(bytes)
      OBVIOUS
    <3> QED
      BY <2>4, <3>1, ChunkFacts
  <2>6. PICK more : more = Append(x, chunk)
    OBVIOUS
  <2>7. PICK m \in Nat : m = Len(x)
    BY <2>1
  <2>8. PICK w \in Nat : w = Len(y)
    BY <2>2
  <2>9. /\ Len(more) = m + 1 /\ more[m + 1] = chunk
        /\ \A j \in 1 .. m : more[j] = x[j]
    BY <2>5, <2>6, <2>7, AppendProperties
  <2>10. PICK first \in Nat \ {0} : first = done.start
    BY DEF Progress
  <2>11. /\ s >= first /\ m >= w /\ \A j \in 1 .. w : x[j] = y[j]
         /\ \A j \in w + 1 .. m : x[j].offset >= first - 1
    BY <2>1, <2>2, <2>3, <2>7, <2>8, <2>10 DEF GoesOn
  <2>12. ASSUME NEW j \in w + 1 .. m + 1
         PROVE  more[j].offset >= first - 1
    <3>1. CASE j = m + 1
      BY <2>3, <2>5, <2>9, <2>10, <2>11, <3>1
    <3>2. CASE j \in w + 1 .. m
      BY <2>9, <2>11, <3>2
    <3> QED
      BY <3>1, <3>2
  <2>13. \A j \in 1 .. w : more[j] = y[j]
    BY <2>9, <2>11
  <2>14. i + 1 >= first /\ m + 1 >= w
    BY <2>3, <2>10, <2>11
  <2>15. ReadByte(bytes, later, i) = [start |-> i + 1, chunks |-> more]
    BY <1>2, <2>1, <2>3, <2>4, <2>6 DEF ReadByte
  <2>16. GoesOn(done, [start |-> i + 1, chunks |-> more])
    BY <2>2, <2>8, <2>9, <2>10, <2>12, <2>13, <2>14 DEF GoesOn
  <2> QED
    BY <2>15, <2>16
<1> QED
  BY <1>1, <1>2

LEMMA TurnsGoOn ==
  ASSUME NEW bytes \in Seq(Bytes), NEW n \in Nat, Len(bytes) = n,
         NEW turn \in [0 .. n -> Progress], Turns(turn, bytes, n), NEW k \in 0 .. n
  PROVE  GoesOn(turn[k], turn[n])
<1>1. PICK m \in Nat : m = n - k
  OBVIOUS
<1> DEFINE G == {j \in 0 .. m : GoesOn(turn[k], turn[k + j])}
<1>2. 0 \in G
  <2>1. PICK done \in Progress : done = turn[k]
    OBVIOUS
  <2>2. PICK w \in Nat : w = Len(done.chunks)
    BY DEF Progress
  <2>3. done.start >= done.start /\ w >= w /\ \A j \in w + 1 .. w : FALSE
    BY DEF Progress
  <2>4. GoesOn(done, done)
    BY <2>2, <2>3 DEF GoesOn
  <2>5. k + 0 = k /\ 0 \in 0 .. m
    OBVIOUS
  <2> QED
    BY <2>1, <2>4, <2>5
<1>3. ASSUME NEW j \in 1 .. m, j - 1 \in G
      PROVE  j \in G
  <2>1. /\ k + j \in 1 .. n /\ k + j - 1 \in 0 .. n /\ k + (j - 1) = k + j - 1
        /\ (k + j) - 1 = k + j - 1
    BY <1>1
  <2>2. PICK later \in Progress : later = turn[k + j - 1]
    BY <2>1
  <2>3. GoesOn(turn[k], later) /\ turn[k + j] = ReadByte(bytes, later, k + j)
    BY <1>3, <2>1, <2>2 DEF Turns
  <2>4. \A i \in 0 .. n : Kept(turn[i], bytes, i)
    BY KeptThroughout
  <2>5. later.start <= k + j
    BY <2>1, <2>2, <2>4 DEF Kept
  <2>6. turn[k] \in Progress
    OBVIOUS
  <2>7. GoesOn(turn[k], turn[k + j])
    BY <2>1, <2>3, <2>5, <2>6, GoesOnTurn
  <2> QED
    BY <2>7
<1>4. \A j \in G : GoesOn(turn[k], turn[k + j])
  OBVIOUS
<1> HIDE DEF G
<1>5. \A j \in 0 .. m : j \in G
  BY <1>2, <1>3, CountingUp
<1>6. m \in 0 .. m /\ k + m = n
  BY <1>1
<1> QED
  BY <1>4, <1>5, <1>6

\* The chunks are what the loop has cut off, and the tail.
Finishes(chunks, done) ==
  /\ Last(chunks).offset <= done.start - 1
  /\ Len(chunks) >= Len(done.chunks)
  /\ \A j \in 1 .. Len(done.chunks) : chunks[j] = done.chunks[j]
  /\ \A j \in Len(done.chunks) + 1 .. Len(chunks) : chunks[j].offset >= done.start - 1

LEMMA LastChunk ==
  ASSUME NEW bytes \in Seq(Bytes), NEW n \in Nat \ {0}, Len(bytes) = n,
         NEW turn \in [0 .. n -> Progress], Turns(turn, bytes, n),
         NEW chunks, chunks = WithTail(turn[n], bytes)
  PROVE  Finishes(chunks, turn[n])
<1>1. PICK done \in Progress : done = turn[n]
  OBVIOUS
<1>2. \A k \in 0 .. n : Kept(turn[k], bytes, k) /\ Remembers(turn, k)
  BY KeptThroughout, TurnsRemember
<1>3. Kept(done, bytes, n) /\ Remembers(turn, n)
  BY <1>1, <1>2
<1>4. PICK s \in 1 .. n + 1 : s = done.start
  BY <1>3 DEF Kept
<1>5. PICK x \in Seq(ChunkType) : x = done.chunks
  BY DEF Progress
<1>6. PICK m \in Nat : m = Len(x)
  OBVIOUS
<1>7. CASE s <= n
  <2>1. PICK tail : tail = Chunk(bytes, s, n)
    OBVIOUS
  <2>2. tail \in ChunkType /\ tail.offset = s - 1
    <3>1. s \in Nat \ {0} /\ n \in Nat /\ n <= Len(bytes)
      OBVIOUS
    <3> QED
      BY <2>1, <3>1, ChunkFacts
  <2>3. chunks = Append(x, tail)
    BY <1>1, <1>4, <1>5, <1>7, <2>1 DEF WithTail
  <2>4. /\ Len(chunks) = m + 1 /\ chunks[m + 1] = tail
        /\ \A j \in 1 .. m : chunks[j] = x[j]
    BY <1>6, <2>2, <2>3, AppendProperties
  <2>5. Last(chunks) = tail
    BY <2>4 DEF Last
  <2> QED
    BY <1>1, <1>4, <1>5, <1>6, <2>2, <2>4, <2>5 DEF Finishes
<1>8. CASE ~(s <= n)
  <2>1. chunks = x /\ s - 1 = n
    BY <1>1, <1>4, <1>5, <1>8 DEF WithTail
  <2>2. m # 0
    <3> SUFFICES ASSUME m = 0
                 PROVE  FALSE
      OBVIOUS
    <3>1. x = <<>>
      BY <1>6, EmptySeq
    <3>2. Placed(x, bytes, n)
      BY <1>3, <1>4, <1>5, <2>1 DEF Kept
    <3>3. SubSeq(bytes, 1, n) = <<>>
      BY <3>1, <3>2, ContentsEmpty DEF Placed
    <3>4. Len(SubSeq(bytes, 1, n)) = n
      BY PrefixFacts
    <3>5. Len(<<>>) = 0
      OBVIOUS
    <3> QED
      BY <3>3, <3>4, <3>5
  <2>3. x[m].offset \in 0 .. n - 1
    BY <1>1, <1>3, <1>5, <1>6, <2>2 DEF Remembers
  <2>4. Last(chunks) = x[m]
    BY <1>6, <2>1 DEF Last
  <2> QED
    BY <1>1, <1>4, <1>5, <1>6, <2>1, <2>3, <2>4 DEF Finishes
<1> QED
  BY <1>7, <1>8

LEMMA LargeAppended ==
  ASSUME NEW bytes \in Seq(Bytes), NEW n \in Nat \ {0}, n <= Len(bytes),
         NEW part, part = SubSeq(bytes, 1, n),
         NEW old, old = ChunkBuffer(part), NEW new, new = ChunkBuffer(bytes),
         NEW j \in 1 .. Len(new)
  PROVE  \/ \E i \in 1 .. Len(old) : new[j].content = old[i].content
         \/ new[j].offset >= Last(old).offset
<1>1. PICK z \in Nat \ {0} : z = Len(bytes)
  OBVIOUS
<1>2. part \in Seq(Bytes) /\ Len(part) = n
  <2>1. 1 \in Nat \ {0} /\ n \in Nat /\ n <= Len(bytes) /\ 1 <= n + 1 /\ n - 1 + 1 = n
    OBVIOUS
  <2> QED
    BY <2>1, ChunkFacts
<1>3. IsPart(part, bytes, 0)
  BY <1>2 DEF IsPart
<1>4. PICK turn \in [0 .. z -> Progress] :
        Turns(turn, bytes, z) /\ new = WithTail(turn[z], bytes)
  BY <1>1, LoopTurns
<1>5. PICK again \in [0 .. n -> Progress] :
        Turns(again, part, n) /\ old = WithTail(again[n], part)
  BY <1>2, LoopTurns
<1>6. PICK here \in Progress : here = turn[n]
  <2>1. n \in 0 .. z
    BY <1>1
  <2> QED
    BY <2>1
<1>7. PICK there \in Progress : there = again[n]
  OBVIOUS
<1>8. PICK later \in Progress : later = turn[z]
  OBVIOUS
<1>9. Shifted(here, there, 0, 0)
  <2>1. 0 \in 0 .. z /\ 0 \in Nat /\ n \in 0 .. n /\ 0 + n = n /\ 0 + 1 = 1 /\ z \in Nat /\ n \in Nat
    BY <1>1
  <2>2. turn[0].start = 1 /\ turn[0].chunks = <<>> /\ Len(<<>>) = 0
    BY <1>4 DEF Turns, Start
  <2>3. Len(turn[0].chunks) = 0
    BY <2>2, Zenon
  <2>4. \A k \in 0 .. n : Shifted(turn[0 + k], again[k], 0, 0)
    BY <1>1, <1>2, <1>3, <1>4, <1>5, <2>1, <2>2, <2>3, Restart
  <2>5. Shifted(turn[0 + n], again[n], 0, 0)
    BY <2>1, <2>4
  <2> QED
    BY <1>6, <1>7, <2>1, <2>5
<1>10. PICK x \in Seq(ChunkType) : x = here.chunks
  BY DEF Progress
<1>11. PICK y \in Seq(ChunkType) : y = there.chunks
  BY DEF Progress
<1>12. PICK w \in Nat : w = Len(x)
  OBVIOUS
<1>13. PICK s \in Nat \ {0} : s = here.start
  BY DEF Progress
<1>14. Len(y) = w /\ there.start = s /\ \A i \in 1 .. w : x[i].content = y[i].content
  <2>1. \A i \in Nat : 0 + i = i
    OBVIOUS
  <2>2. Len(y) \in Nat /\ there.start \in Nat
    BY <1>11 DEF Progress
  <2>3. w = Len(y) /\ s = there.start
    BY <1>9, <1>10, <1>11, <1>12, <1>13, <2>1, <2>2 DEF Shifted, Continues
  <2>4. \A i \in 1 .. w : x[0 + i].content = y[i].content
    BY <1>9, <1>10, <1>11, <2>3 DEF Shifted, Continues
  <2> QED
    BY <2>1, <2>3, <2>4
<1>15. GoesOn(here, later)
  <2>1. n \in 0 .. z
    BY <1>1
  <2> QED
    BY <1>1, <1>4, <1>6, <1>8, <2>1, TurnsGoOn
<1>16. PICK u \in Nat : u = Len(later.chunks)
  BY DEF Progress
<1>17. PICK e \in Nat \ {0} : e = later.start
  BY DEF Progress
<1>18. /\ e >= s /\ u >= w /\ \A i \in 1 .. w : later.chunks[i] = x[i]
       /\ \A i \in w + 1 .. u : later.chunks[i].offset >= s - 1
  BY <1>10, <1>12, <1>13, <1>15, <1>16, <1>17 DEF GoesOn
<1>19. /\ \A i \in 1 .. u : new[i] = later.chunks[i]
       /\ \A i \in u + 1 .. Len(new) : new[i].offset >= e - 1
  <2>1. Finishes(new, later)
    BY <1>1, <1>4, <1>8, LastChunk
  <2> QED
    BY <1>16, <1>17, <2>1 DEF Finishes
<1>20. /\ Last(old).offset <= s - 1 /\ Len(old) >= w
       /\ \A i \in 1 .. w : old[i] = y[i]
  <2>1. Finishes(old, there)
    BY <1>2, <1>5, <1>7, LastChunk
  <2> QED
    BY <1>11, <1>14, <2>1 DEF Finishes
<1>21. new \in Seq(ChunkType) /\ old \in Seq(ChunkType)
  BY <1>2, BufferIsCovered
<1>22. PICK v \in Nat : v = Len(old)
  BY <1>21
<1>23. PICK p \in Nat : p = Len(new)
  BY <1>21
<1>24. CASE j <= w
  <2>1. j \in 1 .. w /\ j \in 1 .. u /\ j \in 1 .. v
    BY <1>18, <1>20, <1>22, <1>24
  <2>2. new[j].content = old[j].content
    BY <1>14, <1>18, <1>19, <1>20, <2>1
  <2> QED
    BY <1>22, <2>1, <2>2
<1>25. CASE ~(j <= w)
  <2>1. new[j].offset \in Nat
    <3>1. new[j] \in ChunkType
      BY <1>21
    <3> QED
      BY <3>1 DEF ChunkType
  <2>2. Last(old).offset \in Nat
    <3>1. v # 0
      <4> SUFFICES ASSUME v = 0
                   PROVE  FALSE
        OBVIOUS
      <4>1. old = <<>>
        BY <1>21, <1>22, EmptySeq
      <4>2. Placed(old, part, n)
        BY <1>2, BufferIsCovered
      <4>3. SubSeq(part, 1, n) = <<>>
        BY <4>1, <4>2, ContentsEmpty DEF Placed
      <4>4. Len(SubSeq(part, 1, n)) = n
        BY <1>2, PrefixFacts
      <4>5. Len(<<>>) = 0
        OBVIOUS
      <4> QED
        BY <4>3, <4>4, <4>5
    <3>2. Last(old) \in ChunkType
      BY <1>21, <1>22, <3>1 DEF Last
    <3> QED
      BY <3>2 DEF ChunkType
  <2>3. new[j].offset >= s - 1
    <3>1. CASE j <= u
      BY <1>18, <1>19, <1>25, <3>1
    <3>2. CASE ~(j <= u)
      BY <1>18, <1>19, <1>23, <2>1, <3>2
    <3> QED
      BY <3>1, <3>2
  <2> QED
    BY <1>20, <2>1, <2>2, <2>3
<1> QED
  BY <1>24, <1>25

-----------------------------------------------------------------------------
(* Theorem                                                                 *)

LEMMA DataType == ChunkerSpec => [](data \in Seq(Bytes))
<1>1. ChunkerInit => data \in Seq(Bytes)
  BY EmptySeq DEF ChunkerInit
<1>2. data \in Seq(Bytes) /\ [ChunkerNext]_data => (data \in Seq(Bytes))'
  BY AppendProperties DEF ChunkerNext
<1> QED
  BY <1>1, <1>2, PTL DEF ChunkerSpec

LEMMA Covered == data \in Seq(Bytes) => ChunksCoverFile
<1> SUFFICES ASSUME data \in Seq(Bytes)
             PROVE  ChunksCoverFile
  OBVIOUS
<1>1. PICK n \in Nat : n = Len(data)
  OBVIOUS
<1>2. SubSeq(data, 1, n) = data
  BY <1>1, SubSeqFull
<1>3. CASE n <= LargeFile
  <2>1. PICK chunk : chunk = Chunk(data, 1, n)
    OBVIOUS
  <2>2. chunk \in ChunkType /\ chunk.offset = 0 /\ chunk.content = data
    BY <1>1, <1>2, <2>1, ChunkFacts
  <2>3. ChunkFile(data) = <<chunk>>
    BY <1>1, <1>3, <2>1 DEF ChunkFile
  <2>4. Contents(<<chunk>>) = data
    <3>1. Append(<<>>, chunk) = <<chunk>> /\ <<>> \in Seq(ChunkType)
      BY EmptySeq
    <3>2. <<>> \o data = data
      BY ConcatEmptySeq
    <3> QED
      BY <2>2, <3>1, <3>2, ContentsAppend, ContentsEmpty
  <2>5. SubSeq(<<chunk>>, 1, 0) = <<>> /\ Len(Contents(SubSeq(<<chunk>>, 1, 0))) = 0
    <3>1. PICK one : one = <<chunk>>
      OBVIOUS
    <3>2. SubSeq(one, 1, 0) = <<>>
      BY SubSeqEmpty
    <3>3. Len(<<>>) = 0
      OBVIOUS
    <3> QED
      BY <3>1, <3>2, <3>3, ContentsEmpty
  <2>6. DOMAIN <<chunk>> = {1} /\ <<chunk>>[1] = chunk /\ Len(<<chunk>>) = 1
    OBVIOUS
  <2>7. LargeFile \in Nat
    BY ChunkerAssumption
  <2> QED
    BY <1>1, <1>3, <2>2, <2>3, <2>4, <2>5, <2>6, <2>7 DEF ChunksCoverFile
<1>4. CASE ~(n <= LargeFile)
  <2>1. ChunkFile(data) = ChunkBuffer(data)
    BY <1>1, <1>4 DEF ChunkFile
  <2>2. PICK chunks : chunks = ChunkBuffer(data)
    OBVIOUS
  <2>3. /\ chunks \in Seq(ChunkType) /\ Placed(chunks, data, n)
        /\ \A i \in 1 .. Len(chunks) :
             /\ Len(chunks[i].content) <= MaxChunk
             /\ i < Len(chunks) => Len(chunks[i].content) >= MinChunk
    BY <1>1, <2>2, BufferIsCovered
  <2>4. DOMAIN chunks = 1 .. Len(chunks)
    BY <2>3
  <2> QED
    BY <1>2, <2>1, <2>2, <2>3, <2>4 DEF ChunksCoverFile, Placed
<1> QED
  BY <1>3, <1>4

LEMMA Appended == data \in Seq(Bytes) => AppendsTransferTheTail
<1> SUFFICES ASSUME data \in Seq(Bytes), NEW n \in 0 .. Len(data),
                    NEW part, part = SubSeq(data, 1, n),
                    NEW old, old = ChunkFile(part),
                    NEW chunk \in DiffChunks(old, ChunkFile(data))
             PROVE  chunk.offset >= Last(old).offset
  BY DEF AppendsTransferTheTail
<1>1. part \in Seq(Bytes) /\ Len(part) = n
  <2>1. 1 \in Nat \ {0} /\ n \in Nat /\ n <= Len(data) /\ 1 <= n + 1 /\ n - 1 + 1 = n
    OBVIOUS
  <2> QED
    BY <2>1, ChunkFacts
<1>2. PICK z \in Nat : z = Len(data)
  OBVIOUS
<1>3. PICK new : new = ChunkFile(data)
  OBVIOUS
<1>4. LargeFile \in Nat \ {0}
  BY ChunkerAssumption
<1>5. new \in Seq(ChunkType)
  <2>1. Chunk(data, 1, z) \in ChunkType
    <3>1. 1 \in Nat \ {0} /\ z \in Nat /\ z <= Len(data)
      BY <1>2
    <3> QED
      BY <3>1, ChunkFacts
  <2>2. <<Chunk(data, 1, z)>> \in Seq(ChunkType)
    BY <2>1
  <2>3. ChunkBuffer(data) \in Seq(ChunkType)
    BY BufferIsCovered
  <2> QED
    BY <1>2, <1>3, <2>2, <2>3 DEF ChunkFile
<1>6. PICK j \in 1 .. Len(new) : chunk = new[j]
  BY <1>3, <1>5 DEF DiffChunks, Range
<1>7. \A i \in DOMAIN old : chunk.content # old[i].content
  BY DEF DiffChunks
<1>8. CASE n <= LargeFile
  <2>1. PICK only : only = Chunk(part, 1, n)
    OBVIOUS
  <2>2. only.offset = 0
    BY <2>1 DEF Chunk
  <2>3. old = <<only>>
    BY <1>1, <1>8, <2>1 DEF ChunkFile
  <2>4. Last(old) = only
    <3>1. Len(old) = 1 /\ old[1] = only
      BY <2>3
    <3> QED
      BY <3>1 DEF Last
  <2>5. chunk.offset \in Nat
    <3>1. chunk \in ChunkType
      BY <1>5, <1>6
    <3> QED
      BY <3>1 DEF ChunkType
  <2> QED
    BY <2>2, <2>4, <2>5
<1>9. CASE ~(n <= LargeFile)
  <2>1. n \in Nat \ {0} /\ n <= z /\ ~(z <= LargeFile)
    BY <1>2, <1>4, <1>9
  <2>2. old = ChunkBuffer(part) /\ new = ChunkBuffer(data)
    BY <1>1, <1>2, <1>3, <1>9, <2>1 DEF ChunkFile
  <2>3. \/ \E i \in 1 .. Len(old) : new[j].content = old[i].content
        \/ new[j].offset >= Last(old).offset
    BY <1>2, <2>1, <2>2, LargeAppended
  <2>4. old \in Seq(ChunkType)
    BY <1>1, <2>2, BufferIsCovered
  <2>5. DOMAIN old = 1 .. Len(old)
    BY <2>4
  <2> QED
    BY <1>6, <1>7, <2>3, <2>5
<1> QED
  BY <1>8, <1>9

\* No byte of a file is lost or counted twice, chunks are where they say, and
\* their sizes are within the limits: for every file, every fingerprint and
\* all limits (chunk_buffer, chunk_file).
THEOREM CutsCoverFiles == ChunkerSpec => []ChunksCoverFile
  BY DataType, Covered, PTL

\* What follows a cut is cut as if it were a file of its own: chunk_buffer
\* takes nothing along from chunk to chunk.
THEOREM CutsAreLocal == ChunkerSpec => []CutsForgetThePast
  BY DataType, Forgotten, PTL

\* When bytes are appended to a file, no chunk before the last one of the old
\* file is transferred again: chunk_file and diff_chunks, also when the file
\* has grown past the size from which it is cut.
THEOREM AppendsAreLocal == ChunkerSpec => []AppendsTransferTheTail
  BY DataType, Appended, PTL
=============================================================================
