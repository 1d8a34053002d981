------------------------------- MODULE QcowOpen -------------------------------
(***************************************************************************)
(* init_qcow and deinit_qcow of src/qcow-parser/qcow_parser.h on one        *)
(* context that is used again and again, as default_qcow_ctx is: the       *)
(* header, its extensions, the files and tables that the context holds,    *)
(* every call that may fail, and what a failure leaves behind.  The image  *)
(* that a successful opening gives is the subject of QcowImage.            *)
(*                                                                         *)
(* From byte 72 on an image is a sequence of words of 8 bytes, a word two  *)
(* numbers of 32 bits, the upper one with its sign: what it means depends  *)
(* on the reader's position.                                               *)
(* The lengths of extensions are multiples of 4.                           *)
(***************************************************************************)
EXTENDS Integers, Sequences, FiniteSetsExt

CONSTANTS
  NULL,        \* a pointer that is NULL
  Images,      \* the files that may be opened
  MaxOpens,    \* bound on the calls of init_qcow
  MaxFaults    \* bound on the calls of stdio and calloc that fail

VARIABLES
  ctx,         \* the context
  open,        \* the FILE objects that are open, <<what, which call opened it>>
  image,       \* the file being opened
  pc,          \* what init_qcow does next, "idle" outside of it
  word,        \* the word at which the file is read next
  exts,        \* qcow_header_exts: the type of each, and whether it has data
  buffers,     \* how many data buffers of extensions this call has allocated
  result,      \* what the last call returned
  death,       \* how the process ended
  spent,       \* how much of each bound is used
  retried      \* ghost: a context that still held a file was opened again

(* What an image is: the fields of the first part of the header, the words *)
(* after it, and the extensions that it was written with: the type of each *)
(* and the word where it begins.                                           *)
Word == [hi : Int, lo : Nat]
ImageFile ==
  [magic : BOOLEAN, version : Nat, backing_file_offset : Nat, backing_file_name_size : Nat,
   cluster_bits : Nat, l1_size : Nat, refcount_table_size : Nat, words : Seq(Word),
   written : Seq([type : Nat, at : Nat])]

FileIds == {"image", "external"} \X (1 .. MaxOpens)

ASSUME OpenAssumption ==
  /\ MaxOpens \in Nat /\ MaxFaults \in Nat
  /\ NULL \notin Nat /\ NULL \notin FileIds
  /\ Images \subseteq ImageFile

vars == <<ctx, open, image, pc, word, exts, buffers, result, death, spent, retried>>

-----------------------------------------------------------------------------
(* The words of an image                                                   *)

HEADER_EXT_END == 0
BACKING_FILE_NAME == 2
FEATURE_NAME_TABLE == 3
EXTERNAL_FILE_NAME == 4
BITMAPS_EXTENSION == 5
KnownTypes == {HEADER_EXT_END, BACKING_FILE_NAME, FEATURE_NAME_TABLE,
               EXTERNAL_FILE_NAME, BITMAPS_EXTENSION}
ZSTD == 2^24                   \* hi of a word whose first byte is 1
TOP_BIT == -2147483647 - 1     \* hi of a word of which bit 63 alone is set
UNKNOWN_EXTENSION == 6

to_qcow_ext_type(val) == IF val \in KnownTypes THEN val ELSE UNKNOWN_EXTENSION

HasWord(img, w) == w \in DOMAIN img.words
Bit(w, i) == (w.lo \div 2^i) % 2 = 1

(* The mask of bits first to 62: bit 63 is in none of them.                *)
Reserved(w, first) == w.hi \notin {0, TOP_BIT} \/ w.lo >= 2^first

(* The third part of the header, whatever the version: bytes 72 to 103.    *)
incompatible_features(img) == img.words[1]
compatible_features(img) == img.words[2]
autoclear_features(img) == img.words[3]
refcount_order(img) == img.words[4].hi
header_length(img) == img.words[4].lo
use_erdf(img) == Bit(incompatible_features(img), 2)
compression_type_flag(img) == Bit(incompatible_features(img), 3)

(* The first condition that holds decides.                                 *)
FirstError(checks) ==
  LET failed == {i \in DOMAIN checks : checks[i][1]}
  IN  IF failed = {} THEN "none" ELSE checks[Min(failed)][2]

BaseChecks(img) ==
  << <<img.backing_file_offset # 0 /\ img.backing_file_name_size = 0, "EMPTY_BACKING_FILE">>,
     <<img.backing_file_offset < 72 /\ img.backing_file_name_size > 0, "INVALID_BACKING_FILE_OFFSET">>,
     <<~img.magic, "INVALID_MAGIC">>,
     <<img.version \notin {2, 3}, "INVALID_VERSION">>,
     <<img.cluster_bits \notin 9 .. 21, "CLUSTER_BITS_TOO_SMALL">>,
     <<~HasWord(img, 4), "IO_ERROR">> >>

FeatureChecks(img) ==
  << <<Reserved(incompatible_features(img), 5), "USE_OF_RESERVED_FIELD">>,
     <<Bit(incompatible_features(img), 1), "CORRUPTED_IMAGE">>,
     <<Reserved(compatible_features(img), 1), "USE_OF_RESERVED_FIELD">>,
     <<Reserved(autoclear_features(img), 2), "USE_OF_RESERVED_FIELD">>,
     <<refcount_order(img) \notin 0 .. 6, "INVALID_REF_CNT_ORDER">>,
     <<header_length(img) < 104 \/ header_length(img) % 8 # 0, "CORRUPTED_IMAGE">>,
     <<~use_erdf(img) /\ Bit(autoclear_features(img), 1), "CORRUPTED_IMAGE">>,
     <<img.backing_file_offset # 0 /\ img.backing_file_name_size # 0 /\ use_erdf(img),
       "CORRUPTED_IMAGE">>,
     <<header_length(img) = 104 /\ compression_type_flag(img), "MISSING_COMPRESSION_TYPE_FIELD">>,
     <<~HasWord(img, 5), "IO_ERROR">> >>

(* Byte 104 on is read as the compression type even when the header ends   *)
(* there, as the host stores numbers: bit 63 is the top of the last byte.  *)
CompressionChecks(img) ==
  << <<img.words[5].hi \notin {0, ZSTD} \/ img.words[5].lo \notin {0, 2^7}, "USE_OF_RESERVED_FIELD">>,
     <<compression_type_flag(img) # (img.words[5].hi = ZSTD), "INVALID_COMPRESSION_TYPE">> >>

HeaderError(img) ==
  LET base == FirstError(BaseChecks(img))
      features == FirstError(FeatureChecks(img))
  IN  IF base # "none" \/ img.version < 3 THEN base
      ELSE IF features # "none" THEN features
      ELSE FirstError(CompressionChecks(img))

(* Where the extensions are taken to begin: after what was read last.      *)
FirstExtension(img) == IF img.version < 3 THEN 5 ELSE 6

-----------------------------------------------------------------------------
(* The context                                                             *)

ZeroContext ==
  [img_file |-> NULL, clusters_file |-> NULL, backing_file |-> NULL,
   refcount_table |-> NULL, l1_table |-> NULL, refcount_table_size |-> 0, l1_size |-> 0,
   backing_file_name_size |-> 0, use_erdf |-> FALSE]

FilesOf(c) == {c.img_file, c.clusters_file, c.backing_file} \ {NULL}
File(what) == <<what, spent.opens>>

Init ==
  /\ ctx = ZeroContext /\ open = {}
  /\ image \in Images /\ pc = "idle" /\ word = 1
  /\ exts = <<>> /\ buffers = 0
  /\ result = "none" /\ death = "none"
  /\ spent = [opens |-> 0, faults |-> 0] /\ retried = FALSE

(* deinit_qcow frees the tables with the sizes of the context, closes each *)
(* file once and forgets it.  A clusters_file that is NULL while img_file  *)
(* is not goes to fclose.                                                  *)
ClosesNull(c) == c.clusters_file = NULL /\ c.img_file # NULL
(* Variant: the L1 table is freed and its pointer stays.                   *)
deinit_qcow_dangling(c) ==
  [c EXCEPT !.img_file = NULL, !.clusters_file = NULL, !.backing_file = NULL,
            !.refcount_table = NULL]
deinit_qcow(c) ==
  [c EXCEPT !.img_file = NULL, !.clusters_file = NULL, !.backing_file = NULL,
            !.refcount_table = NULL, !.l1_table = NULL]

Deinit(c, files) ==
  IF ClosesNull(c)
  THEN death' = "fclose_null" /\ ctx' = c /\ open' = files
  ELSE death' = death /\ ctx' = deinit_qcow(c) /\ open' = files \ FilesOf(c)

Alive == death = "none"
At(step) == Alive /\ pc = step
Steady == UNCHANGED <<image, spent, retried, death>>
Local == UNCHANGED <<word, exts, buffers>>
Fault == spent.faults < MaxFaults /\ spent' = [spent EXCEPT !.faults = @ + 1]

(* The two ways out with an error: most returns are after a deinit_qcow.   *)
FailAfterDeinit(c, files) ==
  /\ Deinit(c, files)
  /\ pc' = "idle" /\ result' = "error"
  /\ UNCHANGED <<image, retried>>
FailAsItIs(c, files) ==
  /\ ctx' = c /\ open' = files
  /\ pc' = "idle" /\ result' = "error"
  /\ UNCHANGED <<image, retried, death>>

-----------------------------------------------------------------------------
(* The callers                                                             *)

(* init_qcow: a caller closes what it could open before it opens again; it *)
(* may try again what failed.                                              *)
Start ==
  /\ At("idle") /\ result # "ok" /\ spent.opens < MaxOpens
  /\ image' \in Images
  /\ pc' = "image" /\ word' = 1 /\ exts' = <<>> /\ buffers' = 0
  /\ retried' = (retried \/ ctx.img_file # NULL)
  /\ spent' = [spent EXCEPT !.opens = @ + 1]
  /\ UNCHANGED <<ctx, open, result, death>>

Close ==
  /\ At("idle") /\ result # "none"
  /\ Deinit(ctx, open)
  /\ result' = "none"
  /\ UNCHANGED <<image, pc, spent, retried>> /\ Local

-----------------------------------------------------------------------------
(* init_qcow                                                               *)

WithImage == [ctx EXCEPT !.img_file = File("image")]

init_qcow_img ==
  /\ At("image")
  /\ ctx' = WithImage /\ open' = open \cup {File("image")}
  /\ pc' = "header"
  /\ UNCHANGED result /\ Steady /\ Local

init_qcow_img_fails ==
  /\ At("image") /\ Fault
  /\ \/ FailAfterDeinit([ctx EXCEPT !.img_file = NULL], open)
     \/ FailAfterDeinit(WithImage, open \cup {File("image")})
  /\ Local

(* use_erdf is set before the features are checked, from bytes that a      *)
(* header of version 2 does not have.                                      *)
parse_qcow_header ==
  /\ At("header") /\ HeaderError(image) = "none"
  /\ ctx' = [ctx EXCEPT !.use_erdf = use_erdf(image)]
  /\ word' = FirstExtension(image)
  /\ pc' = IF ctx.backing_file_name_size > 0 THEN "backing" ELSE "extension"
  /\ UNCHANGED <<open, exts, buffers, result>> /\ Steady

parse_qcow_header_fails ==
  /\ At("header")
  /\ \/ HeaderError(image) # "none" /\ UNCHANGED spent
     \/ Fault
  /\ FailAfterDeinit(IF FirstError(BaseChecks(image)) = "none"
                     THEN [ctx EXCEPT !.use_erdf = use_erdf(image)] ELSE ctx, open)
  /\ Local

(* The size of the name is the one that an image opened before left in the *)
(* context, and the name is read with backing_file_size, which is 0 until  *)
(* a backing file is open: the path is empty and no file has it.           *)
init_backing_file_fails ==
  /\ At("backing")
  /\ FailAfterDeinit(ctx, open)
  /\ UNCHANGED spent /\ Local

ExtType == to_qcow_ext_type(image.words[word].hi)
ExtLength == image.words[word].lo
HasData == ExtLength > 0
(* Variant: there is a padding when the length is a multiple of 8, too.    *)
DataWordsPadded == IF ExtLength = 0 THEN 0 ELSE ExtLength \div 8 + 1
DataWords == (ExtLength + 7) \div 8
Padding == IF ExtLength % 8 = 0 THEN 0 ELSE image.words[word + DataWords].lo
Damaged ==
  IF HasWord(image, word) /\ HasWord(image, word + DataWords) THEN Padding # 0 ELSE TRUE
NextExtension == word + 1 + DataWords

(* One round of parse_qcow_ext.  A feature table and an unknown extension  *)
(* are let go; the others are kept, with their data.                       *)
parse_qcow_ext ==
  /\ At("extension") /\ ~Damaged
  /\ \/ /\ ExtType = HEADER_EXT_END
        /\ pc' = "base" /\ UNCHANGED <<exts, buffers>>
     \/ /\ ExtType \in {FEATURE_NAME_TABLE, UNKNOWN_EXTENSION}
        /\ UNCHANGED <<pc, exts, buffers>>
     \/ /\ ExtType \in {BACKING_FILE_NAME, BITMAPS_EXTENSION, EXTERNAL_FILE_NAME}
        /\ exts' = Append(exts, [type |-> ExtType, data |-> HasData])
        /\ buffers' = buffers + (IF HasData THEN 1 ELSE 0)
        /\ UNCHANGED pc
  /\ word' = NextExtension
  /\ UNCHANGED <<ctx, open, result>> /\ Steady

(* Only the data of the first extension is freed, and not that of the one  *)
(* being read; nothing is when the array cannot grow.                      *)
FirstFreed == IF exts # <<>> /\ exts[1].data THEN 1 ELSE 0
parse_qcow_ext_fails ==
  /\ At("extension")
  /\ \/ /\ \/ ~HasWord(image, word) /\ UNCHANGED spent
           \/ Fault
        /\ buffers' = buffers - FirstFreed
     \/ /\ HasWord(image, word) /\ HasData
        /\ \/ Damaged /\ UNCHANGED spent
           \/ Fault
        /\ buffers' = buffers + 1 - FirstFreed
     \/ /\ ~Damaged /\ Fault
        /\ ExtType \in {BACKING_FILE_NAME, BITMAPS_EXTENSION, EXTERNAL_FILE_NAME}
        /\ buffers' = buffers + (IF HasData THEN 1 ELSE 0)
  /\ FailAfterDeinit(ctx, open)
  /\ UNCHANGED <<word, exts>>

(* The size of the file, and then each extension in turn.                  *)
GetBase ==
  /\ At("base")
  /\ pc' = "external"
  /\ UNCHANGED <<ctx, open, result>> /\ Steady /\ Local

GetBaseFails ==
  /\ At("base") /\ Fault
  /\ FailAsItIs(ctx, open) /\ Local

(* Variant: the data of an extension that is not used is not freed.        *)
FreeFirstUsed ==
  /\ exts' = Tail(exts)
  /\ buffers' = buffers - (IF Head(exts).type = EXTERNAL_FILE_NAME THEN 1 ELSE 0)
FreeFirst ==
  /\ exts' = Tail(exts)
  /\ buffers' = buffers - (IF Head(exts).data THEN 1 ELSE 0)

WithExternal == [ctx EXCEPT !.clusters_file = File("external")]

init_raw_external_data ==
  /\ At("external") /\ exts # <<>> /\ Head(exts).type = EXTERNAL_FILE_NAME
  /\ ctx' = WithExternal /\ open' = open \cup {File("external")}
  /\ FreeFirst
  /\ UNCHANGED <<pc, word, result>> /\ Steady

init_raw_external_data_fails ==
  /\ At("external") /\ exts # <<>> /\ Head(exts).type = EXTERNAL_FILE_NAME /\ Fault
  /\ \/ FailAsItIs([ctx EXCEPT !.clusters_file = NULL], open)
     \/ FailAsItIs(WithExternal, open \cup {File("external")})
  /\ Local

dump_qcow_header_extension ==
  /\ At("external") /\ exts # <<>> /\ Head(exts).type # EXTERNAL_FILE_NAME
  /\ FreeFirst
  /\ UNCHANGED <<ctx, open, pc, word, result>> /\ Steady

(* The else branch is also taken when an external file was opened.         *)
ChooseClustersFile ==
  /\ At("external") /\ exts = <<>>
  /\ \/ /\ ctx.clusters_file = NULL /\ ctx.use_erdf
        /\ FailAsItIs(ctx, open) /\ UNCHANGED spent
     \/ /\ ~(ctx.clusters_file = NULL /\ ctx.use_erdf)
        /\ ctx' = [ctx EXCEPT !.clusters_file = ctx.img_file]
        /\ pc' = "fields"
        /\ UNCHANGED <<open, result>> /\ Steady
  /\ Local

(* The fields that the header shares with the context, and what follows    *)
(* from them: refcount_bytes is 0 for an order below 3.                    *)
CopyFields ==
  /\ At("fields")
  /\ ctx' = [ctx EXCEPT !.backing_file_name_size = image.backing_file_name_size,
                        !.l1_size = image.l1_size,
                        !.refcount_table_size = image.refcount_table_size]
  /\ pc' = "refcounts"
  /\ death' = IF refcount_order(image) < 3 THEN "division" ELSE death
  /\ UNCHANGED <<open, result, image, spent, retried>> /\ Local

WithRefcounts == [ctx EXCEPT !.refcount_table = ctx.refcount_table_size]
WithL1 == [ctx EXCEPT !.l1_table = ctx.l1_size]

parse_ref_cnt_table ==
  /\ At("refcounts")
  /\ ctx' = WithRefcounts /\ pc' = "l1"
  /\ UNCHANGED <<open, result>> /\ Steady /\ Local

(* Without the table, or with some of its blocks.                          *)
parse_ref_cnt_table_fails ==
  /\ At("refcounts") /\ Fault
  /\ \E c \in {[ctx EXCEPT !.refcount_table = NULL], WithRefcounts} : FailAfterDeinit(c, open)
  /\ Local

parse_l1_table ==
  /\ At("l1")
  /\ ctx' = WithL1
  /\ IF Bit(incompatible_features(image), 0)
     THEN pc' = "recompute" /\ UNCHANGED result
     ELSE pc' = "idle" /\ result' = "ok"
  /\ UNCHANGED open /\ Steady /\ Local

parse_l1_table_fails ==
  /\ At("l1") /\ Fault
  /\ \E c \in {[ctx EXCEPT !.l1_table = NULL], WithL1} : FailAfterDeinit(c, open)
  /\ Local

(* What it does to the file is not modelled.                               *)
recompute_ref_cnt ==
  /\ At("recompute")
  /\ \/ pc' = "idle" /\ result' = "ok" /\ UNCHANGED <<ctx, open>> /\ Steady
     \/ Fault /\ FailAsItIs(ctx, open)
  /\ Local

init_qcow ==
  \/ init_qcow_img \/ parse_qcow_header \/ parse_qcow_ext \/ GetBase
  \/ init_raw_external_data \/ dump_qcow_header_extension \/ ChooseClustersFile
  \/ CopyFields \/ parse_ref_cnt_table \/ parse_l1_table \/ recompute_ref_cnt
  \/ init_qcow_img_fails \/ parse_qcow_header_fails \/ init_backing_file_fails
  \/ parse_qcow_ext_fails \/ GetBaseFails \/ init_raw_external_data_fails
  \/ parse_ref_cnt_table_fails \/ parse_l1_table_fails

Next == Start \/ Close \/ init_qcow

Spec == Init /\ [][Next]_vars

-----------------------------------------------------------------------------
(* Properties                                                              *)

(* The variables keep their types; a table is as long as some image says,  *)
(* and the file is read within its words.                                  *)
TypeOK ==
  /\ {ctx.img_file, ctx.clusters_file} \subseteq FileIds \cup {NULL} /\ ctx.backing_file = NULL
  /\ open \subseteq FileIds
  /\ image \in Images
  /\ pc \in {"idle", "image", "header", "backing", "extension", "base", "external", "fields",
             "refcounts", "l1", "recompute"}
  /\ word \in 1 .. Len(image.words) + 1
  /\ \A i \in DOMAIN exts : exts[i].type \in KnownTypes \ {HEADER_EXT_END, FEATURE_NAME_TABLE}
  /\ buffers \in 0 .. Len(image.words)
  /\ {ctx.refcount_table, ctx.l1_table} \subseteq Nat \cup {NULL}
  /\ result \in {"none", "ok", "error"}
  /\ death \in {"none", "fclose_null", "division"}

(* The context never names a FILE that was closed, so that deinit_qcow     *)
(* closes none twice; and what is open is what it names, but for external  *)
(* data files, whose FILE the choice of clusters_file overwrites.  A table *)
(* is freed with the length in the context, which every opening            *)
(* overwrites: it must be that of the table that is there.  A caller that  *)
(* opens again after an init_qcow that failed without deinit_qcow loses    *)
(* the first image.                                                        *)
HoldingsAccounted ==
  /\ TypeOK
  /\ FilesOf(ctx) \subseteq open
  /\ ~retried =>
       /\ open \ FilesOf(ctx) \subseteq {"external"} \X (1 .. MaxOpens)
       /\ ctx.refcount_table \in {NULL, ctx.refcount_table_size}
       /\ ctx.l1_table \in {NULL, ctx.l1_size}

(* When init_qcow succeeds, every buffer of an extension that it           *)
(* allocated, of known and unknown ones, used or printed, has been freed.  *)
BuffersFreed == result = "ok" => buffers = 0

(* The extension area as the format has it: each extension behind the data *)
(* of the one before, padded to a whole word, and one more that ends them. *)
Behind(img, e) == e.at + 1 + (img.words[e.at].lo + 7) \div 8
Begin(img, k) == IF k = 1 THEN FirstExtension(img) ELSE Behind(img, img.written[k - 1])
LaidOut(img) ==
  /\ img.version = 3 /\ HasWord(img, 4) /\ header_length(img) = 112
  /\ \A k \in DOMAIN img.written :
       LET e == img.written[k]
       IN  /\ e.type # HEADER_EXT_END /\ e.at = Begin(img, k)
           /\ HasWord(img, e.at) /\ img.words[e.at].hi = e.type
  /\ LET end == Begin(img, Len(img.written) + 1)
     IN  HasWord(img, end) /\ img.words[end].hi = HEADER_EXT_END

(* The extensions in list are those of the first n that were written, but  *)
(* for feature tables and unknown ones, in the same order.                 *)
KeptOf(img, n) ==
  {k \in 1 .. n :
    to_qcow_ext_type(img.written[k].type) \notin {FEATURE_NAME_TABLE, UNKNOWN_EXTENSION}}
Follows(list, img, n) ==
  \E from \in [DOMAIN list -> KeptOf(img, n)] :
    /\ \A i, j \in DOMAIN list : i < j => from[i] < from[j]
    /\ \A k \in KeptOf(img, n) : \E i \in DOMAIN list : from[i] = k
    /\ \A i \in DOMAIN list : list[i].type = img.written[from[i]].type

(* The extensions are found by counting lengths and paddings from what was *)
(* read before: for a header of version 3 with a compression type they are *)
(* those that the image was written with, in order.                        *)
ExtensionsFound ==
  At("base") /\ LaidOut(image) => Follows(exts, image, Len(image.written))

-----------------------------------------------------------------------------
(* What a comment, a message or a test of the repository says, and the     *)
(* code does not do.                                                       *)

(* A failure of init_qcow is a value that it returns: the process goes on  *)
(* after the deinit_qcow that most failures call.                          *)
FailureReturned == death # "fclose_null"

(* A valid image of version 2, which has no refcount_order, can be opened. *)
VersionTwoOpens == image.version = 2 => death # "division"

(* After an image with a backing file was opened, that file is open.       *)
BackingIsOpened ==
  result = "ok" /\ image.backing_file_name_size > 0 => ctx.backing_file # NULL

(* After an image with an external data file was opened, clusters are read *)
(* from that file.                                                         *)
ExternalIsUsed == result = "ok" /\ ctx.use_erdf => ctx.clusters_file # ctx.img_file

=============================================================================
