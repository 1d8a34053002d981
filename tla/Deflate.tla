------------------------------- MODULE Deflate -------------------------------
(***************************************************************************)
(* zlib_deflate and then zlib_inflate (xcomp.h), as qwrite and qread of a  *)
(* compressed cluster call them: the data are cut into blocks, every block *)
(* is searched for repetitions, written by one of the three methods, read  *)
(* back and copied together.                                               *)
(*                                                                         *)
(* The codes of a dynamic block are those of Huffman; here only the sizes  *)
(* of its alphabets matter.  Which method is the shortest, and at which    *)
(* bit a compressed block ends, is left open.                              *)
(***************************************************************************)
EXTENDS Integers, Sequences, SequencesExt, FiniteSetsExt

CONSTANTS
  Data,       \* the buffers that are compressed
  BlockSize,  \* 0x7FFF
  MaxMatch,   \* the longest match, 258
  EndBits     \* the bits, modulo 8, at which a compressed block may end

ASSUME DeflateAssumption ==
  /\ \A d \in Data : Len(d) > 0
  /\ BlockSize \in 4 .. 32767 /\ MaxMatch \in 3 .. 258 /\ EndBits \subseteq 0 .. 7

VARIABLES
  stage,   \* of the writer "split", "match", "choose"; of the reader "header",
           \* "stored", "tables", "symbols"; or "done", "failed", "astray", "killed"
  data,    \* what is compressed
  offset,  \* buffer_offset
  at, distance_encoding,  \* the index in the block, and its encoding so far
  stream,  \* the blocks of the compressed stream
  bit,     \* the bit of a byte at which the writer goes on; of the reader, the bit
           \* behind the header of the block
  fixed_tables,  \* whether the pointers to the fixed tables outlive their scope
  block, symbol, \* the block and the symbol of it that are read
  decompressed_data

input == <<data, fixed_tables>>
writing == <<offset, at, distance_encoding, stream>>
reading == <<block, symbol, decompressed_data>>
vars == <<stage, data, offset, at, distance_encoding, stream, bit, fixed_tables,
          block, symbol, decompressed_data>>

Outcomes == {"done", "failed", "astray", "killed"}
Methods == {"stored", "fixed", "dynamic"}

-----------------------------------------------------------------------------
(* length_base_values and dist_base_values.                                *)
LengthBase == <<3, 4, 5, 6, 7, 8, 9, 10, 11, 13, 15, 17, 19, 23, 27, 31, 35, 43, 51, 59, 67, 83,
                99, 115, 131, 163, 195, 227, 258>>
DistanceBase == <<1, 2, 3, 4, 5, 7, 9, 13, 17, 25, 33, 49, 65, 97, 129, 193, 257, 385, 513, 769,
                  1025, 1537, 2049, 3073, 4097, 6145, 8193, 12289, 16385, 24577>>
CodeIn(base, n) == Max({i \in DOMAIN base : base[i] <= n})

Literal(v) == [kind |-> "literal", value |-> v]
Match(n, d) ==
  LET length == CodeIn(LengthBase, n)
      distance == CodeIn(DistanceBase, d)
  IN  [kind |-> "match", length |-> length, length_diff |-> n - LengthBase[length],
       distance |-> distance, distance_diff |-> d - DistanceBase[distance]]
EndOfBlock == [kind |-> "end"]

(* The bytes of the block that is written.                                 *)
Remaining == Len(data) - offset
Chunk == SubSeq(data, offset + 1, offset + Min({BlockSize, Remaining}))

-----------------------------------------------------------------------------
(* Variant: the length that failed to match is taken.                      *)
LongestMatchTooLong(c, i) ==
  LET same(j, n) == SubSeq(c, j + 1, j + n) = SubSeq(c, i + 1, i + n)
      try(m, j) == IF /\ j < i - m.length /\ i < Len(c) - m.length /\ m.length <= MaxMatch
                      /\ same(j, m.length)
                   THEN [length |-> m.length + 1, found |-> i - j] ELSE m
      m == FoldLeft(try, [length |-> 3, found |-> 0], [j \in 1 .. i |-> j - 1])
  IN  [length |-> IF m.length > 3 THEN m.length ELSE 2, found |-> m.found]

(* The search of length_distance_encoding at index i of c: from each start *)
(* j on, the length that matched before is tried with one byte more.       *)
LongestMatch(c, i) ==
  LET same(j, n) == SubSeq(c, j + 1, j + n) = SubSeq(c, i + 1, i + n)
      try(m, j) == IF /\ j < i - m.length /\ i < Len(c) - m.length /\ m.length <= MaxMatch
                      /\ same(j, m.length)
                   THEN [length |-> m.length + 1, found |-> i - j] ELSE m
      m == FoldLeft(try, [length |-> 3, found |-> 0], [j \in 1 .. i |-> j - 1])
  IN  [length |-> m.length - 1, found |-> m.found]

(* zlib_deflate cuts the next block; its first three bytes are literals.   *)
Split ==
  /\ stage = "split" /\ Remaining > 0
  /\ LET n == Min({3, Len(Chunk)})
     IN  /\ distance_encoding' = [i \in 1 .. n |-> Literal(Chunk[i])]
         /\ at' = n
  /\ stage' = "match"
  /\ UNCHANGED <<input, offset, stream, bit, reading>>

(* A turn of the loop of length_distance_encoding.                         *)
Encode ==
  /\ stage = "match" /\ at < Len(Chunk)
  /\ LET m == LongestMatch(Chunk, at)
     IN  IF m.length > 2
         THEN /\ distance_encoding' = Append(distance_encoding, Match(m.length, m.found))
              /\ at' = at + m.length
         ELSE /\ distance_encoding' = Append(distance_encoding, Literal(Chunk[at + 1]))
              /\ at' = at + 1
  /\ UNCHANGED <<stage, input, offset, stream, bit, reading>>

(* The delimiter of the block.                                             *)
Delimit ==
  /\ stage = "match" /\ at = Len(Chunk)
  /\ distance_encoding' = Append(distance_encoding, EndOfBlock)
  /\ stage' = "choose"
  /\ UNCHANGED <<input, offset, at, stream, bit, reading>>

(* compress_block puts the shortest encoding into the stream.  The bytes   *)
(* of a stored block are put down in reverse order, from the next byte on. *)
Choose ==
  /\ stage = "choose"
  /\ \E method \in Methods, end \in EndBits :
       /\ method = "stored" => end = Min(EndBits)
       /\ stream' = Append(stream,
            [final |-> Remaining <= BlockSize, method |-> method, bit |-> bit,
             body |-> IF method = "stored" THEN Reverse(Chunk) ELSE distance_encoding])
       /\ bit' = IF method = "stored" THEN 0 ELSE end
  /\ offset' = offset + Len(Chunk)
  /\ stage' = "split"
  /\ UNCHANGED <<input, at, distance_encoding, reading>>

(* zlib_deflate returns, and zlib_inflate starts at the first bit.         *)
Compressed ==
  /\ stage = "split" /\ Remaining = 0
  /\ stage' = "header" /\ bit' = 0
  /\ UNCHANGED <<input, writing, reading>>

-----------------------------------------------------------------------------
Current == stream[block]

DistanceCodes(b) == {b.body[i].distance : i \in {j \in DOMAIN b.body : b.body[j].kind = "match"}}

(* The final bit and the method.                                           *)
Header ==
  /\ stage = "header" /\ block < Len(stream)
  /\ block' = block + 1 /\ symbol' = 0
  /\ stage' = CASE stream[block + 1].method = "stored" -> "stored"
                [] stream[block + 1].method = "fixed" -> "symbols"
                [] OTHER -> "tables"
  /\ bit' = (stream[block + 1].bit + 3) % 8
  /\ UNCHANGED <<input, writing, decompressed_data>>

(* The outcomes of reading at a bit that holds something else: the stream  *)
(* is found corrupt, or data come out that were not written.               *)
Misread == stage' \in {"failed", "astray"}

(* The header of the block that follows, or the end of zlib_inflate.       *)
BlockEnds == stage' = IF Current.final THEN "done" ELSE "header"

(* Variant: the copy keeps the order of the stream.                        *)
StoredAsItIs ==
  /\ stage = "stored" /\ bit # 0
  /\ decompressed_data' = decompressed_data \o Current.body
  /\ BlockEnds /\ bit' = 0
  /\ UNCHANGED <<input, writing, block, symbol>>

(* read_uncompressed_data.                                                 *)
Stored ==
  /\ stage = "stored" /\ bit # 0
  /\ decompressed_data' = decompressed_data \o Reverse(Current.body)
  /\ BlockEnds /\ bit' = 0
  /\ UNCHANGED <<input, writing, block, symbol>>

(* skip_to_next_byte leaves a byte out that no bit was read of.            *)
StoredSkipsByte ==
  /\ stage = "stored" /\ bit = 0
  /\ Misread
  /\ UNCHANGED <<input, writing, reading, bit>>

(* decode_dynamic_huffman_tables.  Without matches the header announces a  *)
(* length that is not there.                                               *)
Tables ==
  /\ stage = "tables"
  /\ IF DistanceCodes(Current) = {} THEN Misread ELSE stage' = "symbols"
  /\ UNCHANGED <<input, writing, reading, bit>>

(* The tables of the fixed codes are reached through a pointer to a local  *)
(* variable of a block that ended.  What the build keeps there decides.    *)
FixedTablesGone ==
  /\ stage = "symbols" /\ Current.method = "fixed" /\ ~fixed_tables
  /\ stage' \in {"failed", "astray", "killed"}
  /\ UNCHANGED <<input, writing, reading, bit>>

Decodes == stage = "symbols" /\ (Current.method = "dynamic" \/ fixed_tables)
NextSymbol == Current.body[symbol + 1]

DecodeLiteral ==
  /\ Decodes /\ NextSymbol.kind = "literal"
  /\ decompressed_data' = Append(decompressed_data, NextSymbol.value)
  /\ symbol' = symbol + 1
  /\ UNCHANGED <<stage, input, writing, block, bit>>

(* get_length, get_distance.                                               *)
LengthOf(s) == LengthBase[s.length] + s.length_diff
DistanceOf(s) == DistanceBase[s.distance] + s.distance_diff

(* copy_data; the source ends before the destination starts.               *)
CopyData(n, d) ==
  LET index == Len(decompressed_data)
  IN  IF d > index
      THEN stage' = "failed" /\ UNCHANGED <<decompressed_data, symbol>>
      ELSE /\ decompressed_data' =
                decompressed_data \o SubSeq(decompressed_data, index - d + 1, index - d + n)
           /\ symbol' = symbol + 1 /\ UNCHANGED stage

(* A code of no bits does not tell the only distance of a dynamic block.   *)
Unreadable == Current.method = "dynamic" /\ Cardinality(DistanceCodes(Current)) = 1

DecodeMatch ==
  /\ Decodes /\ NextSymbol.kind = "match" /\ ~Unreadable
  /\ CopyData(LengthOf(NextSymbol), DistanceOf(NextSymbol))
  /\ UNCHANGED <<input, writing, block, bit>>

(* decode_compressed_block returns the length symbol as if it were an      *)
(* error: no error to zlib_inflate, which takes the block for decoded.     *)
DecodeMatchFails ==
  /\ Decodes /\ NextSymbol.kind = "match" /\ Unreadable
  /\ IF Current.final THEN stage' = "done" ELSE Misread
  /\ UNCHANGED <<input, writing, reading, bit>>

DecodeEnd ==
  /\ Decodes /\ NextSymbol.kind = "end"
  /\ BlockEnds
  /\ UNCHANGED <<input, writing, reading, bit>>

-----------------------------------------------------------------------------
Init ==
  /\ stage = "split"
  /\ data \in Data /\ fixed_tables \in BOOLEAN
  /\ offset = 0 /\ at = 0 /\ distance_encoding = <<>> /\ stream = <<>> /\ bit = 0
  /\ block = 0 /\ symbol = 0 /\ decompressed_data = <<>>

Next ==
  \/ Split \/ Encode \/ Delimit \/ Choose \/ Compressed
  \/ Header \/ Stored \/ StoredSkipsByte \/ Tables \/ FixedTablesGone
  \/ DecodeLiteral \/ DecodeMatch \/ DecodeMatchFails \/ DecodeEnd

Spec == Init /\ [][Next]_vars

-----------------------------------------------------------------------------
(* The blocks that zlib_inflate does not read as they were written.        *)
Disturbs(b) ==
  \/ b.method = "stored" /\ b.bit = 5
  \/ b.method = "dynamic" /\ Cardinality(DistanceCodes(b)) < 2
  \/ b.method = "fixed" /\ ~fixed_tables

(* What zlib_deflate made of a buffer, zlib_inflate makes the buffer of,   *)
(* and reports no error, whatever methods were chosen for its blocks and   *)
(* at whatever bits they begin, but for the blocks of Disturbs.            *)
ReadsBack ==
  stage \in Outcomes =>
    \/ stage = "done" /\ decompressed_data = data
    \/ \E i \in DOMAIN stream : Disturbs(stream[i])

(* The bytes that an encoding stands for.                                  *)
Expand(encoding) ==
  FoldLeft(LAMBDA out, s :
             CASE s.kind = "literal" -> Append(out, s.value)
               [] s.kind = "match" ->
                    out \o SubSeq(out, Len(out) - DistanceOf(s) + 1,
                                  Len(out) - DistanceOf(s) + LengthOf(s))
               [] OTHER -> out,
           <<>>, encoding)

(* The encoding of a block stands for its bytes up to the index reached; a *)
(* match is farther away than it is long, so copy_data never reads what it *)
(* writes, and distance codes 0 to 2 are not in use, where a repeated      *)
(* length at the start of the distances would be read before its array.    *)
MatchesCover ==
  stage \in {"match", "choose"} =>
    /\ \A i \in DOMAIN distance_encoding :
         LET s == distance_encoding[i]
         IN  s.kind = "match" => DistanceOf(s) > LengthOf(s) /\ DistanceOf(s) <= at
    /\ Expand(distance_encoding) = SubSeq(Chunk, 1, at)

=============================================================================
