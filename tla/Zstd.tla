-------------------------------- MODULE Zstd --------------------------------
(***************************************************************************)
(* zstd_inflate (xcomp.h): frames, blocks, the literals and the sequences  *)
(* of a compressed block, and their execution.  What the stream holds is   *)
(* drawn when it is read; the entropy coding is that of ZstdTables, here a *)
(* table is the set of the values that it can decode to.  No decision is   *)
(* made on a byte, so that all those that are read are different ones.     *)
(*                                                                         *)
(* meant and damaged are not in the code: the table that the format says a *)
(* field has, and whether the format forbids what was read.  Nor are live, *)
(* twice and cut: the tables that are allocated, those that were freed a   *)
(* second time, and where the stream ended too early.                      *)
(***************************************************************************)
EXTENDS Integers, FiniteSets, Sequences, SequencesExt

CONSTANTS
  Predefined, Described, Rle,  \* the values of each field in each mode
  Expected,                    \* *decompressed_data_length at the call, 0 for any
  MaxOutput, MaxRead, MaxSequences, MaxBlocks, MaxFrames  \* bounds on what is drawn

Fields == {"ll", "ol", "ml"}

ASSUME ZstdAssumption ==
  /\ {Expected, MaxOutput, MaxRead, MaxSequences, MaxBlocks, MaxFrames} \subseteq Nat
  /\ MaxRead # 0
  /\ \A t \in {Predefined, Described, Rle} : \A f \in Fields : t[f] \subseteq Nat /\ 0 \notin t["ol"] \cup t["ml"]
  /\ \A f \in Fields : {} \notin {Predefined[f], Described[f]}

Errors == {"INVALID_MAGIC", "RESERVED_FIELD", "RESERVED", "UNSUPPORTED_FEATURE", "CORRUPTED_DATA",
           "CHECKSUM_FAIL", "IO_ERROR", "DECOMPRESSED_SIZE_MISMATCH",
           "ABORTED"}  \* not returned: free() ends the process
NULL == {}  \* a table that is not allocated decodes to nothing

VARIABLES
  stage,               \* what is read next, "execute", "done" or the error
  stream_live,         \* the stream is not yet freed
  decompressed,        \* decompressed_data
  frame_buffer, offset_history, fse_table, rle, hf_literals, literals,
  sequence_len,
  sequences,           \* those that are not yet executed
  literals_ind,
  checksum_flag, last_block,
  frames_cnt, blocks_cnt,  \* blocks of all frames
  meant, damaged,
  live, twice, cut

workspace == <<frame_buffer, offset_history, fse_table, rle, hf_literals, literals,
               sequence_len, sequences, literals_ind>>
header == <<checksum_flag, last_block>>
result == <<stream_live, decompressed, twice, cut>>
vars == <<stage, result, workspace, header, frames_cnt, blocks_cnt, meant, damaged, live>>

-----------------------------------------------------------------------------
NoTables == [f \in Fields |-> NULL]
Room == MaxOutput - Len(decompressed) - Len(frame_buffer)
Bytes == 1 .. (MaxBlocks + 1) * MaxRead
Read(n) == [i \in 1 .. n |-> blocks_cnt * MaxRead + i]
Lengths == 0 .. IF Room < MaxRead THEN Room ELSE MaxRead

(* The tables that the workspace points to.                                *)
Pointed ==
  {f \in Fields : fse_table[f] # NULL} \cup (IF hf_literals # NULL THEN {"hf"} ELSE {})

(* Variant: the tables of the sequences are forgotten.                     *)
DeallocateHuffman(pointed, allocated) ==
  /\ live' = allocated \ (pointed \cap {"hf"})
  /\ twice' = twice \cup (pointed \ allocated)

(* deallocate_workspace frees what is pointed to, allocated or not.        *)
Deallocate(pointed, allocated) ==
  /\ live' = allocated \ pointed
  /\ twice' = twice \cup (pointed \ allocated)

(* The workspace is a local variable of parse_frames.                      *)
NewWorkspace ==
  /\ frame_buffer' = <<>> /\ offset_history' = <<1, 4, 8>>
  /\ fse_table' = NoTables /\ rle' = [f \in Fields |-> 0] /\ hf_literals' = NULL
  /\ literals' = <<>> /\ sequence_len' = 0 /\ sequences' = <<>> /\ literals_ind' = 0
  /\ checksum_flag' = FALSE /\ last_block' = FALSE
  /\ meant' = NoTables

(* zstd_inflate frees the stream and what was decompressed.                *)
Refuse(error) ==
  /\ stage' = error
  /\ stream_live' = FALSE /\ decompressed' = <<>>
  /\ NewWorkspace
  /\ frames_cnt' = 0 /\ blocks_cnt' = 0

Fail(error) == Refuse(error) /\ Deallocate(Pointed, live) /\ UNCHANGED cut
FailDamaged(error) == Fail(error) /\ damaged' = TRUE

(* A read finds the end of the stream.  The streams of Huffman coded       *)
(* literals are read with the table to be freed on failure, by a copy of   *)
(* its pointer: the workspace still has it and frees it again, which the   *)
(* allocator may notice.  The checksum is read with nothing to be freed.   *)
Truncated ==
  /\ damaged' = TRUE
  /\ \/ /\ stage \in {"frame", "block", "literals", "sequences", "decode"} \cup Fields
        /\ \E error \in {"IO_ERROR", "CORRUPTED_DATA"} : Refuse(error)
        /\ Deallocate(Pointed, live) /\ cut' = "elsewhere"
     \/ /\ stage = "literals"
        /\ \E error \in {"IO_ERROR", "ABORTED"} : Refuse(error)
        /\ Deallocate(Pointed \cup {"hf"}, live \ {"hf"}) /\ cut' = "streams"
     \/ /\ stage = "checksum" /\ checksum_flag
        /\ Refuse("IO_ERROR")
        /\ UNCHANGED <<live, twice>> /\ cut' = "checksum"

StartFrame ==
  /\ stage = "frame" /\ frames_cnt < MaxFrames
  /\ stage' = "block"
  /\ checksum_flag' \in BOOLEAN
  /\ frames_cnt' = frames_cnt + 1
  /\ UNCHANGED <<result, workspace, last_block, blocks_cnt, meant, damaged, live>>

SkippableFrame ==
  /\ stage = "frame" /\ frames_cnt < MaxFrames
  /\ stage' = "next" /\ frames_cnt' = frames_cnt + 1
  /\ UNCHANGED <<result, workspace, header, blocks_cnt, meant, damaged, live>>

BadFrame ==
  /\ stage = "frame"
  /\ \E error \in {"INVALID_MAGIC", "RESERVED_FIELD", "UNSUPPORTED_FEATURE"} : FailDamaged(error)

-----------------------------------------------------------------------------
(* What follows a block, and what it appends.                              *)
BlockEnds(last, data) ==
  /\ stage' = IF last THEN "checksum" ELSE "block"
  /\ frame_buffer' = frame_buffer \o data

StartBlock(last) ==
  /\ stage = "block" /\ blocks_cnt < MaxBlocks
  /\ blocks_cnt' = blocks_cnt + 1 /\ last_block' = last

(* A raw block, or one of a repeated byte, which is taken not to be empty. *)
PlainBlock ==
  /\ \E last \in BOOLEAN :
       /\ StartBlock(last)
       /\ \E n \in Lengths :
            \/ BlockEnds(last, Read(n))                                 \* RAW_BLOCK
            \/ n > 0 /\ BlockEnds(last, [i \in 1 .. n |-> Read(1)[1]])  \* RLE_BLOCK
  /\ UNCHANGED <<result, offset_history, fse_table, rle, hf_literals, literals, sequence_len,
                 sequences, literals_ind, checksum_flag, frames_cnt, meant, damaged, live>>

CompressedBlock ==
  /\ \E last \in BOOLEAN : StartBlock(last)
  /\ stage' = "literals"
  /\ UNCHANGED <<result, workspace, checksum_flag, frames_cnt, meant, damaged, live>>

ReservedBlock == stage = "block" /\ FailDamaged("RESERVED")

(* parse_literals_section: raw and repeated literals leave the Huffman     *)
(* table, and treeless ones need it.                                       *)
ParseLiterals ==
  /\ stage = "literals"
  /\ \E type \in {"RAW", "RLE", "COMPRESSED", "TREELESS"}, n \in Lengths :
       IF type = "TREELESS" /\ hf_literals = NULL
       THEN FailDamaged("CORRUPTED_DATA")
       ELSE /\ stage' = "sequences"
            /\ literals' = IF type = "RLE" THEN [i \in 1 .. n |-> Read(1)[1]] ELSE Read(n)
            /\ hf_literals' = IF type = "COMPRESSED" THEN Bytes ELSE hf_literals
            /\ live' = IF type = "COMPRESSED" THEN live \cup {"hf"} ELSE live
            /\ UNCHANGED <<result, frame_buffer, offset_history, fse_table, rle, sequence_len,
                           sequences, literals_ind, header, frames_cnt, blocks_cnt, meant, damaged>>

(* A single stream with fewer literals than announced drops the table and  *)
(* is taken for a success; the literals that are missing are zeros.        *)
ShortStream ==
  /\ stage = "literals" /\ stage' = "sequences"
  /\ \E n \in Lengths : literals' = Read(n)
  /\ hf_literals' = NULL /\ live' = live \ {"hf"} /\ damaged' = TRUE
  /\ UNCHANGED <<result, frame_buffer, offset_history, fse_table, rle, sequence_len, sequences,
                 literals_ind, header, frames_cnt, blocks_cnt, meant>>

(* The head of parse_sequence_section.                                     *)
ParseSequencesHeader ==
  /\ stage = "sequences"
  /\ \E n \in 0 .. MaxSequences :
       /\ sequence_len' = n
       /\ stage' = IF n = 0 THEN "execute" ELSE "ll"
  /\ UNCHANGED <<result, frame_buffer, offset_history, fse_table, rle, hf_literals, literals, sequences,
                 literals_ind, header, frames_cnt, blocks_cnt, meant, damaged, live>>

(* No sequences but bytes after them, or a reserved mode bit.              *)
BadSequencesHeader ==
  /\ stage = "sequences"
  /\ \E error \in {"CORRUPTED_DATA", "RESERVED_FIELD"} : FailDamaged(error)

AfterField == [ll |-> "ol", ol |-> "ml", ml |-> "decode"]

(* Variant: a table that is built leaves the repeated symbol in force.     *)
RleAfterKept(f, mode, table) ==
  IF mode = "RLE" THEN [rle EXCEPT ![f] = CHOOSE v \in table : TRUE] ELSE rle

(* The symbol that stands for a field, -1 once a table was built.          *)
RleAfter(f, mode, table) ==
  CASE mode = "RLE" -> [rle EXCEPT ![f] = CHOOSE v \in table : TRUE]
    [] mode \in {"PREDEFINED", "FSE_COMPRESSED"} -> [rle EXCEPT ![f] = -1]
    [] OTHER -> rle

SetTable(f, mode, table) ==
  /\ stage' = AfterField[f]
  /\ IF mode \in {"PREDEFINED", "FSE_COMPRESSED"}
     THEN fse_table' = [fse_table EXCEPT ![f] = table] /\ live' = live \cup {f}
     ELSE UNCHANGED <<fse_table, live>>
  /\ rle' = RleAfter(f, mode, table)
  /\ meant' = IF mode = "REPEAT" THEN meant ELSE [meant EXCEPT ![f] = table]
  /\ UNCHANGED <<result, frame_buffer, offset_history, hf_literals, literals, sequence_len, sequences,
                 literals_ind, header, frames_cnt, blocks_cnt, damaged>>

(* A repeat is refused while no table was built.  After a repeated symbol  *)
(* the format would allow it: a limit of this decoder, counted as damage.  *)
ReadTable(f) ==
  /\ stage = f
  /\ \/ SetTable(f, "PREDEFINED", Predefined[f])
     \/ SetTable(f, "FSE_COMPRESSED", Described[f])
     \/ \E v \in Rle[f] : SetTable(f, "RLE", {v})
     \/ fse_table[f] # NULL /\ SetTable(f, "REPEAT", NULL)
     \/ fse_table[f] = NULL /\ FailDamaged("CORRUPTED_DATA")

ReadTables == \E f \in Fields : ReadTable(f)

BadTable == stage \in Fields /\ FailDamaged("CORRUPTED_DATA")

(* What decode_sequences gets for a field.                                 *)
Values(f) == IF rle[f] = -1 THEN fse_table[f] ELSE {rle[f]}

DecodeSequences ==
  /\ stage = "decode"
  /\ sequences' \in [1 .. sequence_len -> [ll : Values("ll"), ol : Values("ol"), ml : Values("ml")]]
  /\ stage' = "execute"
  /\ UNCHANGED <<result, frame_buffer, offset_history, fse_table, rle, hf_literals, literals,
                 sequence_len, literals_ind, header, frames_cnt, blocks_cnt, meant, damaged, live>>

(* Bits are left or are missing after the last sequence.                   *)
BadSequences == stage = "decode" /\ FailDamaged("CORRUPTED_DATA")

-----------------------------------------------------------------------------
(* update_off_history: the offset, and the history after it.               *)
ActualOffset(h, offset, ll) ==
  IF offset > 3 THEN offset - 3
  ELSE IF ll > 0 THEN h[offset]
  ELSE IF offset = 3 THEN h[1] - 1 ELSE h[offset + 1]

(* Variant: the second offset is not put before the first.                 *)
HistoryNoSwap(h, offset, ll) ==
  LET actual == ActualOffset(h, offset, ll)
  IN  IF offset >= 3 \/ (offset = 2 /\ ll = 0) THEN <<actual, h[1], h[2]>> ELSE h

History(h, offset, ll) ==
  LET actual == ActualOffset(h, offset, ll)
  IN  IF offset >= 3 \/ (offset = 2 /\ ll = 0) THEN <<actual, h[1], h[2]>>
      ELSE IF (offset = 1 /\ ll = 0) \/ (offset = 2 /\ ll > 0) THEN <<actual, h[1], h[3]>>
      ELSE h

(* The loop that copies a match byte by byte, over its own output.         *)
CopyMatch(buffer, offset, n) ==
  LET d[i \in 1 .. Len(buffer) + n] == IF i <= Len(buffer) THEN buffer[i] ELSE d[i - offset]
  IN  d

(* Variant: a match cannot begin with the first byte of the frame.         *)
NoSuchOffsetFirst(offset, length) == offset = 0 \/ length <= offset

NoSuchOffset(offset, length) == offset = 0 \/ length < offset

InBlock == {"sequences", "decode", "execute"} \cup Fields

(* The literals of the last block stay in the workspace until the next.    *)
Format == INSTANCE ZstdFormat WITH
  finished <- IF stage = "DECOMPRESSED_SIZE_MISMATCH" THEN <<>> ELSE decompressed,
  output   <- frame_buffer,
  literals <- IF stage \in InBlock THEN SubSeq(literals, literals_ind + 1, Len(literals)) ELSE <<>>,
  recent   <- offset_history,
  verdict  <- IF stage \in Errors THEN "refused" ELSE IF stage = "done" THEN "done" ELSE "open"

(* A turn of the loop of sequence_execution.                               *)
ExecuteSequence ==
  /\ stage = "execute" /\ sequences # <<>>
  /\ LET s == Head(sequences)
         l == SubSeq(literals, literals_ind + 1, literals_ind + s.ll)
         offset == ActualOffset(offset_history, s.ol, s.ll)
     IN  IF literals_ind + s.ll > Len(literals)
         THEN FailDamaged("CORRUPTED_DATA")
         ELSE IF NoSuchOffset(offset, Len(frame_buffer) + s.ll)
         THEN /\ Fail("CORRUPTED_DATA")
              /\ damaged' = (damaged \/ ~Format!Allowed(frame_buffer, offset_history, s.ll, s.ol))
         ELSE /\ s.ll + s.ml <= Room
              /\ frame_buffer' = CopyMatch(frame_buffer \o l, offset, s.ml)
              /\ offset_history' = History(offset_history, s.ol, s.ll)
              /\ literals_ind' = literals_ind + s.ll
              /\ sequences' = Tail(sequences)
              /\ UNCHANGED <<stage, result, fse_table, rle, hf_literals, literals, sequence_len, header,
                             frames_cnt, blocks_cnt, meant, damaged, live>>

(* The literals that are left, all of them without sequences.              *)
ExecuteRest ==
  /\ stage = "execute" /\ sequences = <<>>
  /\ Len(literals) - literals_ind <= Room
  /\ BlockEnds(last_block, SubSeq(literals, literals_ind + 1, Len(literals)))
  /\ literals_ind' = 0
  /\ UNCHANGED <<result, offset_history, fse_table, rle, hf_literals, literals, sequence_len, sequences,
                 header, frames_cnt, blocks_cnt, meant, damaged, live>>

-----------------------------------------------------------------------------
(* The end of parse_frames.                                                *)
FinishFrame ==
  /\ stage = "checksum"
  /\ stage' = "next"
  /\ decompressed' = decompressed \o frame_buffer
  /\ NewWorkspace /\ Deallocate(Pointed, live)
  /\ UNCHANGED <<stream_live, cut, frames_cnt, blocks_cnt, damaged>>

ChecksumFail == stage = "checksum" /\ checksum_flag /\ FailDamaged("CHECKSUM_FAIL")

Satisfied == Expected # 0 /\ Len(decompressed) >= Expected

(* zstd_inflate after a frame: the stream goes on, or it is the end.  A    *)
(* size that is not the expected one leaves stream and output allocated.   *)
NextFrame ==
  /\ stage = "next" /\ ~Satisfied
  /\ stage' = "frame"
  /\ UNCHANGED <<result, workspace, header, frames_cnt, blocks_cnt, meant, damaged, live>>

Return ==
  /\ stage = "next"
  /\ IF Expected \in {0, Len(decompressed)}
     THEN stage' = "done" /\ stream_live' = FALSE /\ UNCHANGED damaged
     ELSE stage' = "DECOMPRESSED_SIZE_MISMATCH" /\ damaged' = TRUE /\ UNCHANGED stream_live
  /\ UNCHANGED <<decompressed, twice, cut, workspace, header, frames_cnt, blocks_cnt, meant, live>>

Init ==
  /\ stage = "frame" /\ stream_live = TRUE /\ decompressed = <<>>
  /\ frame_buffer = <<>> /\ offset_history = <<1, 4, 8>>
  /\ fse_table = NoTables /\ rle = [f \in Fields |-> 0] /\ hf_literals = NULL
  /\ literals = <<>> /\ sequence_len = 0 /\ sequences = <<>> /\ literals_ind = 0
  /\ checksum_flag = FALSE /\ last_block = FALSE
  /\ frames_cnt = 0 /\ blocks_cnt = 0
  /\ meant = NoTables /\ damaged = FALSE
  /\ live = {} /\ twice = {} /\ cut = "none"

Next ==
  \/ StartFrame \/ SkippableFrame \/ BadFrame
  \/ PlainBlock \/ CompressedBlock \/ ReservedBlock
  \/ ParseLiterals \/ ShortStream \/ ParseSequencesHeader \/ BadSequencesHeader
  \/ ReadTables \/ BadTable \/ DecodeSequences \/ BadSequences
  \/ ExecuteSequence \/ ExecuteRest
  \/ FinishFrame \/ ChecksumFail \/ NextFrame \/ Return \/ Truncated

Spec == Init /\ [][Next]_vars

-----------------------------------------------------------------------------
Stages == {"frame", "block", "literals", "sequences", "decode", "execute", "checksum", "next"}

(* Types; and whatever the outcome the workspace is gone, and the stream   *)
(* too unless the size is not the expected one.  The tables that are       *)
(* allocated are always those that are pointed to, and none is freed       *)
(* twice, but where the stream ends in coded literals or at the checksum.  *)
TypeOK ==
  /\ stage \in Stages \cup Fields \cup {"done"} \cup Errors
  /\ {decompressed, frame_buffer, literals} \subseteq Seq(Bytes)
  /\ offset_history \in [1 .. 3 -> 0 .. MaxOutput + 3 + 8]
  /\ stage = "execute" => literals_ind <= Len(literals)
  /\ stage \in {"done", "next"} \cup Errors =>
       /\ fse_table = NoTables /\ hf_literals = NULL
       /\ frame_buffer = <<>> /\ literals = <<>> /\ sequences = <<>>
  /\ stream_live = (stage \notin {"done"} \cup (Errors \ {"DECOMPRESSED_SIZE_MISMATCH"}))
  /\ cut # "checksum" => live = Pointed
  /\ cut # "streams" => twice = {}

(* zstd_inflate decodes what the format says: block by block and sequence  *)
(* by sequence the output grows as it should, with the recent offsets      *)
(* carried over the blocks of a frame and not into the next.               *)
Implements == Format!Spec

(* When sequences are decoded every field has the table that the format    *)
(* says it has, through all the ways to set and to repeat tables.          *)
TablesAgree == stage = "decode" => \A f \in Fields : Values(f) = meant[f]

(* A stream that keeps to the format is not refused.                       *)
NoneRefused == stage \in Errors => damaged

=============================================================================
