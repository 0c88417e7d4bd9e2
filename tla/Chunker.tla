------------------------------ MODULE Chunker ------------------------------
(***************************************************************************)
(* CDCChunker: a file is cut where the fingerprint of what a chunk has so  *)
(* far ends in zeros.  A file is a sequence of bytes; a chunk's content    *)
(* stands for its hash.                                                    *)
(***************************************************************************)
EXTENDS Integers, SequencesExt

CONSTANTS
  MinChunk, MaxChunk, LargeFile, AvgChunk,
  Fingerprint(_),  \* of a sequence of bytes, fp after the loop has read them
  Bytes, MaxFile   \* the bytes and the length of the files

ASSUME ChunkerAssumption ==
  /\ {MinChunk, MaxChunk, LargeFile, AvgChunk, MaxFile} \subseteq Nat \ {0}
  /\ MinChunk <= AvgChunk /\ AvgChunk <= MaxChunk

VARIABLE data

\* mask_for_avg, as the modulus that the mask stands for.
Modulus == CHOOSE p \in {2 ^ k : k \in 0 .. AvgChunk} : p >= AvgChunk /\ p < 2 * AvgChunk

\* Fault: a chunk may be one byte longer than the maximum.
OverMax(chunk) ==
  \/ Len(chunk) >= MinChunk /\ Fingerprint(chunk) % Modulus = 0
  \/ Len(chunk) > MaxChunk

Ends(chunk) ==
  \/ Len(chunk) >= MinChunk /\ Fingerprint(chunk) % Modulus = 0
  \/ Len(chunk) >= MaxChunk

Chunk(bytes, first, last) ==
  [offset |-> first - 1, content |-> SubSeq(bytes, first, last)]

\* Fault: the fingerprint goes on from chunk to chunk.
KeepsFingerprint(bytes, start, i) ==
  \/ i - start + 1 >= MinChunk /\ Fingerprint(SubSeq(bytes, 1, i)) % Modulus = 0
  \/ i - start + 1 >= MaxChunk

\* Does the chunk that began at start end with byte i?
EndsAt(bytes, start, i) == Ends(SubSeq(bytes, start, i))

\* One turn of chunk_buffer's loop: byte i is read.
ReadByte(bytes, done, i) ==
  IF EndsAt(bytes, done.start, i)
    THEN [start |-> i + 1, chunks |-> Append(done.chunks, Chunk(bytes, done.start, i))]
    ELSE done

\* chunk_buffer: the loop, and the tail.
ChunkBuffer(bytes) ==
  LET Read(done, i) == ReadByte(bytes, done, i)
      end == FoldLeftDomain(Read, [start |-> 1, chunks |-> <<>>], bytes)
  IN IF end.start <= Len(bytes)
       THEN Append(end.chunks, Chunk(bytes, end.start, Len(bytes))) ELSE end.chunks

\* chunk_file
ChunkFile(bytes) ==
  IF Len(bytes) <= LargeFile THEN <<Chunk(bytes, 1, Len(bytes))>> ELSE ChunkBuffer(bytes)

\* Fault: the first old chunk is not looked at.
SkipsFirst(old, new) ==
  LET known == {old[i].content : i \in 2 .. Len(old)}
  IN {chunk \in Range(new) : chunk.content \notin known}

\* diff_chunks, without the order of the offsets.
DiffChunks(old, new) ==
  LET known == {old[i].content : i \in DOMAIN old}
  IN {chunk \in Range(new) : chunk.content \notin known}

ChunkerInit == data = <<>>

\* A program appends to the file.
ChunkerNext == Len(data) < MaxFile /\ \E b \in Bytes : data' = Append(data, b)

ChunkerSpec == ChunkerInit /\ [][ChunkerNext]_data

-----------------------------------------------------------------------------
Contents(chunks) == FlattenSeq([i \in DOMAIN chunks |-> chunks[i].content])

\* No byte is lost or counted twice, chunks are where they say, and only the
\* last one of a file that is cut may be too small.
ChunksCoverFile ==
  LET chunks == ChunkFile(data) IN
  /\ Contents(chunks) = data
  /\ \A i \in DOMAIN chunks :
       /\ chunks[i].offset = Len(Contents(SubSeq(chunks, 1, i - 1)))
       /\ Len(data) > LargeFile => Len(chunks[i].content) <= MaxChunk
       /\ i < Len(chunks) => Len(chunks[i].content) >= MinChunk

\* Where a chunk ends depends on nothing before it: what follows a cut is cut
\* as if it were a file of its own.
CutsForgetThePast ==
  \A i \in 1 .. Len(ChunkBuffer(data)) - 1 :
    LET chunks == ChunkBuffer(data)
        rest == SubSeq(data, chunks[i + 1].offset + 1, Len(data))
        contents == [k \in 1 .. Len(chunks) - i |-> chunks[i + k].content]
    IN contents = [k \in DOMAIN ChunkBuffer(rest) |-> ChunkBuffer(rest)[k].content]

\* After bytes were appended, nothing before the old file's last chunk is
\* transferred again.
AppendsTransferTheTail ==
  \A n \in 0 .. Len(data) :
    LET old == ChunkFile(SubSeq(data, 1, n)) IN
    \A chunk \in DiffChunks(old, ChunkFile(data)) : chunk.offset >= Last(old).offset

\* A chunk that a byte is inserted into is lost, and no other one.
InsertionKeepsOtherChunks ==
  \A n \in 0 .. Len(data), b \in Bytes :
    LET new == SubSeq(data, 1, n) \o <<b>> \o SubSeq(data, n + 1, Len(data))
    IN Len(data) > LargeFile => Cardinality(DiffChunks(ChunkFile(new), ChunkFile(data))) <= 1
=============================================================================
