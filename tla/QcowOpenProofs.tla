---------------------------- MODULE QcowOpenProofs ----------------------------
(***************************************************************************)
(* Theorems about QcowOpen, for every set of images and all bounds.        *)
(*                                                                         *)
(* What a context holds depends on where init_qcow stands, and an opening  *)
(* starts from what the one before left; so the invariant says at every    *)
(* step which pointers are still NULL, and what a context that names no    *)
(* image file cannot hold either.                                          *)
(***************************************************************************)
EXTENDS QcowOpen, FiniteSetTheorems, SequenceTheorems, WellFoundedInduction, TLAPS

Context ==
  [img_file : FileIds \cup {NULL}, clusters_file : FileIds \cup {NULL}, backing_file : {NULL},
   refcount_table : Nat \cup {NULL}, l1_table : Nat \cup {NULL}, refcount_table_size : Nat,
   l1_size : Nat, backing_file_name_size : Nat, use_erdf : BOOLEAN]

KeptExtension == [type : KnownTypes \ {HEADER_EXT_END, FEATURE_NAME_TABLE}, data : BOOLEAN]
Steps == {"idle", "image", "header", "backing", "extension", "base", "external", "fields",
          "refcounts", "l1", "recompute"}

(* The types, and that every step of init_qcow belongs to a counted call.  *)
Shape ==
  /\ ctx \in Context /\ open \subseteq FileIds
  /\ image \in Images /\ pc \in Steps
  /\ word \in 1 .. Len(image.words) + 1
  /\ exts \in Seq(KeptExtension)
  /\ result \in {"none", "ok", "error"} /\ death \in {"none", "fclose_null", "division"}
  /\ spent \in [opens : 0 .. MaxOpens, faults : 0 .. MaxFaults] /\ retried \in BOOLEAN
  /\ pc # "idle" => spent.opens # 0

-----------------------------------------------------------------------------
(* What the context accounts for: all that is open but external data       *)
(* files, and the lengths of its tables.                                   *)
Externals == {"external"} \X (1 .. MaxOpens)
Owned(c, files) ==
  /\ files \ FilesOf(c) \subseteq Externals
  /\ c.refcount_table \in {NULL, c.refcount_table_size}
  /\ c.l1_table \in {NULL, c.l1_size}

NoTables(c) == c.refcount_table = NULL /\ c.l1_table = NULL

(* A context without an image file holds nothing.                          *)
Clean(c) == c.img_file = NULL => c.clusters_file = NULL /\ NoTables(c)

Progress ==
  /\ pc = "image" => ctx.img_file = NULL
  /\ pc \notin {"idle", "image"} => ctx.img_file # NULL
  /\ pc \in {"header", "backing", "extension", "base", "external", "fields", "refcounts"} =>
       NoTables(ctx)
  /\ pc \in {"header", "backing", "extension", "base", "external"} =>
       ctx.clusters_file \in Externals \cup {NULL}
  /\ pc = "l1" => ctx.l1_table = NULL

Held ==
  /\ FilesOf(ctx) \subseteq open
  /\ ~retried => Owned(ctx, open) /\ Clean(ctx) /\ Progress

-----------------------------------------------------------------------------
(* The buffers are those of the extensions that are kept and have data;    *)
(* there are fewer extensions than words read.                             *)
WithData(list) == {i \in DOMAIN list : list[i].data}
Counted ==
  /\ pc \in {"extension", "base", "external"} => buffers = Cardinality(WithData(exts))
  /\ pc = "extension" => Len(exts) + 1 <= word
  /\ pc \in {"image", "header", "backing", "fields", "refcounts", "l1", "recompute"} =>
       exts = <<>> /\ buffers = 0
  /\ result = "ok" => pc = "idle" /\ buffers = 0
  /\ buffers \in 0 .. Len(image.words)

OpenInv == Shape /\ Held /\ Counted

-----------------------------------------------------------------------------
(* Counting the extensions that have data.                                 *)

LEMMA CountType ==
  ASSUME NEW list \in Seq(KeptExtension)
  PROVE  /\ IsFiniteSet(WithData(list)) /\ Cardinality(WithData(list)) \in Nat
         /\ Cardinality(WithData(list)) <= Len(list)
         /\ list = <<>> => Cardinality(WithData(list)) = 0
<1>1. Len(list) \in Nat /\ DOMAIN list = 1 .. Len(list)
  BY LenProperties
<1>2. IsFiniteSet(1 .. Len(list)) /\ Cardinality(1 .. Len(list)) = Len(list)
  BY <1>1, FS_Interval
<1>3. WithData(list) \in SUBSET (1 .. Len(list))
  BY <1>1 DEF WithData
<1>4. IsFiniteSet(WithData(list)) /\ Cardinality(WithData(list)) <= Len(list)
  BY <1>2, <1>3, FS_Subset
<1>5. Cardinality(WithData(list)) \in Nat
  BY <1>4, FS_CardinalityType
<1>6. list = <<>> => WithData(list) = {}
  BY EmptySeq DEF WithData
<1> QED
  BY <1>1, <1>4, <1>5, <1>6, FS_EmptySet

LEMMA CountAppend ==
  ASSUME NEW list \in Seq(KeptExtension), NEW e \in KeptExtension
  PROVE  Cardinality(WithData(Append(list, e)))
           = Cardinality(WithData(list)) + (IF e.data THEN 1 ELSE 0)
<1> DEFINE n == Len(list)
           longer == Append(list, e)
<1>1. /\ n \in Nat /\ DOMAIN list = 1 .. n /\ DOMAIN longer = 1 .. n + 1
      /\ longer[n + 1] = e /\ \A i \in 1 .. n : longer[i] = list[i]
  BY AppendProperties, LenProperties
<1>2. n + 1 \notin WithData(list)
  BY <1>1 DEF WithData
<1>3. WithData(longer) = IF e.data THEN WithData(list) \cup {n + 1} ELSE WithData(list)
  BY <1>1 DEF WithData
<1>4. IsFiniteSet(WithData(list))
  BY CountType
<1>5. Cardinality(WithData(list) \cup {n + 1}) = Cardinality(WithData(list)) + 1
  BY <1>2, <1>4, FS_AddElement
<1>6. Cardinality(WithData(list)) \in Nat
  BY CountType
<1> QED
  BY <1>3, <1>5, <1>6

(* Dropping the head moves every index by one.                             *)
LEMMA CountTail ==
  ASSUME NEW list \in Seq(KeptExtension), list # <<>>
  PROVE  Cardinality(WithData(list))
           = Cardinality(WithData(Tail(list))) + (IF Head(list).data THEN 1 ELSE 0)
<1> DEFINE n == Len(list)
           rest == Tail(list)
           later == WithData(list) \ {1}
           f == [i \in WithData(rest) |-> i + 1]
<1>1. /\ n \in Nat \ {0} /\ DOMAIN list = 1 .. n /\ Head(list) = list[1]
      /\ rest \in Seq(KeptExtension) /\ Len(rest) = n - 1 /\ DOMAIN rest = 1 .. n - 1
      /\ \A i \in 1 .. n - 1 : rest[i] = list[i + 1]
  BY HeadTailProperties, LenProperties, EmptySeq
<1>2. IsFiniteSet(WithData(list)) /\ Cardinality(WithData(list)) \in Nat
      /\ IsFiniteSet(WithData(rest)) /\ Cardinality(WithData(rest)) \in Nat
  <2>1. rest \in Seq(KeptExtension)
    BY <1>1
  <2> HIDE DEF rest
  <2> QED
    BY <2>1, CountType
<1>3. f \in Bijection(WithData(rest), later)
  <2>1. \A i \in WithData(rest) : i \in Nat /\ i + 1 \in later
    BY <1>1 DEF WithData
  <2>2. \A j \in later : j \in Nat /\ j - 1 \in WithData(rest) /\ (j - 1) + 1 = j
    BY <1>1 DEF WithData
  <2>3. f \in [WithData(rest) -> later]
    BY <2>1
  <2>4. \A i, j \in WithData(rest) : f[i] = f[j] => i = j
    BY <2>1
  <2>5. \A j \in later : \E i \in WithData(rest) : f[i] = j
    BY <2>2
  <2> QED
    BY <2>3, <2>4, <2>5 DEF Bijection, Injection, Surjection, IsInjective
<1>4. ExistsBijection(WithData(rest), later)
  BY <1>3 DEF ExistsBijection
<1>5. Cardinality(later) = Cardinality(WithData(rest))
  BY <1>2, <1>4, FS_Bijection
<1>6. Cardinality(later) = IF 1 \in WithData(list) THEN Cardinality(WithData(list)) - 1
                           ELSE Cardinality(WithData(list))
  BY <1>2, FS_RemoveElement
<1>7. 1 \in WithData(list) <=> Head(list).data
  BY <1>1 DEF WithData
<1> QED
  BY <1>2, <1>5, <1>6, <1>7

-----------------------------------------------------------------------------
(* The failures of init_qcow.  All that differs is the context and the     *)
(* files that it leaves or closes; what they hold must be accounted for.   *)
Budget == [opens : 0 .. MaxOpens, faults : 0 .. MaxFaults]
Failed ==
  \E c \in Context, files \in SUBSET FileIds :
    /\ FailAfterDeinit(c, files) \/ FailAsItIs(c, files)
    /\ FilesOf(c) \subseteq files
    /\ ~retried => Owned(c, files) /\ Clean(c)
    /\ UNCHANGED <<word, exts>> /\ spent' \in Budget
    /\ buffers' \in 0 .. Len(image.words)

LEMMA FaultBudget == ASSUME Shape, Fault \/ UNCHANGED spent PROVE spent' \in Budget
BY OpenAssumption DEF Shape, Fault, Budget

(* deinit_qcow closes what the context names, and leaves it empty; or the  *)
(* process ends with the context as it was.                                *)
LEMMA DeinitHeld ==
  ASSUME NEW c \in Context, NEW files \in SUBSET FileIds, Deinit(c, files), FilesOf(c) \subseteq files
  PROVE  /\ ctx' \in Context /\ open' \subseteq FileIds /\ FilesOf(ctx') \subseteq open'
         /\ death' \in {death, "fclose_null"}
         /\ Owned(c, files) /\ Clean(c) => Owned(ctx', open') /\ Clean(ctx')
<1>1. CASE ctx' = c /\ open' = files
  BY <1>1 DEF Deinit
<1>2. CASE ctx' = deinit_qcow(c) /\ open' = files \ FilesOf(c)
  <2>1. ctx' \in Context /\ FilesOf(ctx') = {}
    BY <1>2 DEF deinit_qcow, Context, FilesOf
  <2>2. NoTables(ctx') /\ ctx'.clusters_file = NULL
    BY <1>2 DEF deinit_qcow, Context, NoTables
  <2>3. Owned(c, files) => Owned(ctx', open')
    BY <1>2, <2>1, <2>2 DEF Owned, NoTables
  <2> QED
    BY <1>2, <2>1, <2>2, <2>3 DEF Deinit, Clean
<1> QED
  BY <1>1, <1>2 DEF Deinit

LEMMA FailedStep == ASSUME OpenInv, Failed PROVE OpenInv'
<1>1. PICK c \in Context, files \in SUBSET FileIds :
        /\ FailAfterDeinit(c, files) \/ FailAsItIs(c, files)
        /\ FilesOf(c) \subseteq files
        /\ ~retried => Owned(c, files) /\ Clean(c)
        /\ UNCHANGED <<word, exts>> /\ spent' \in Budget
        /\ buffers' \in 0 .. Len(image.words)
  BY DEF Failed
<1>2. pc' = "idle" /\ result' = "error" /\ UNCHANGED <<image, retried>>
  BY <1>1 DEF FailAfterDeinit, FailAsItIs
<1>3. /\ ctx' \in Context /\ open' \subseteq FileIds /\ FilesOf(ctx') \subseteq open'
      /\ death' \in {death, "fclose_null"}
      /\ Owned(c, files) /\ Clean(c) => Owned(ctx', open') /\ Clean(ctx')
  <2>1. CASE FailAfterDeinit(c, files)
    BY <1>1, <2>1, DeinitHeld DEF FailAfterDeinit
  <2>2. CASE FailAsItIs(c, files)
    BY <1>1, <2>2 DEF FailAsItIs
  <2> QED
    BY <1>1, <2>1, <2>2
<1>4. Shape'
  BY <1>1, <1>2, <1>3 DEF OpenInv, Shape, Budget, Steps
<1>5. Held'
  BY <1>1, <1>2, <1>3 DEF Held, Progress
<1>6. Counted'
  BY <1>1, <1>2 DEF Counted
<1> QED
  BY <1>4, <1>5, <1>6 DEF OpenInv

(* A failure that leaves the context as it is.                             *)
LEMMA SameContextFails ==
  ASSUME OpenInv, FailAfterDeinit(ctx, open) \/ FailAsItIs(ctx, open),
         UNCHANGED <<word, exts>>, Fault \/ UNCHANGED spent, buffers' \in 0 .. Len(image.words)
  PROVE  Failed
<1>1. spent' \in Budget
  BY FaultBudget DEF OpenInv
<1> QED
  BY <1>1 DEF OpenInv, Shape, Held, Failed

LEMMA FileType ==
  ASSUME Shape, pc # "idle"
  PROVE  /\ File("image") \in FileIds /\ File("image") # NULL
         /\ File("external") \in Externals /\ File("external") \in FileIds
         /\ File("external") # NULL
BY OpenAssumption DEF Shape, File, FileIds, Externals

LEMMA ImageFails == ASSUME OpenInv, init_qcow_img_fails PROVE Failed
<1>1. pc = "image" /\ Fault /\ UNCHANGED <<word, exts, buffers>>
  BY DEF init_qcow_img_fails, At, Local
<1>2. spent' \in Budget /\ buffers' \in 0 .. Len(image.words)
  BY <1>1, FaultBudget DEF OpenInv, Counted
<1>3. ctx \in Context /\ open \subseteq FileIds
  BY DEF OpenInv, Shape
<1>4. CASE FailAfterDeinit([ctx EXCEPT !.img_file = NULL], open)
  <2> DEFINE c == [ctx EXCEPT !.img_file = NULL]
  <2>1. c \in Context /\ FilesOf(c) \subseteq FilesOf(ctx)
    BY <1>3 DEF Context, FilesOf
  <2>2. ~retried => c = ctx
    BY <1>1, <1>3 DEF OpenInv, Held, Progress, Context
  <2>3. FilesOf(c) \subseteq open /\ (~retried => Owned(c, open) /\ Clean(c))
    BY <2>1, <2>2 DEF OpenInv, Held
  <2> QED
    BY <1>1, <1>2, <1>3, <1>4, <2>1, <2>3 DEF Failed
<1>5. CASE FailAfterDeinit(WithImage, open \cup {File("image")})
  <2> DEFINE files == open \cup {File("image")}
  <2>1. WithImage \in Context /\ files \in SUBSET FileIds
        /\ FilesOf(WithImage) \subseteq FilesOf(ctx) \cup {File("image")}
    BY <1>1, <1>3, FileType DEF OpenInv, WithImage, Context, FilesOf
  <2>2. ~retried => Owned(WithImage, files) /\ Clean(WithImage)
    <3> SUFFICES ASSUME ~retried PROVE Owned(WithImage, files) /\ Clean(WithImage)
      OBVIOUS
    <3>1. Owned(ctx, open) /\ ctx.img_file = NULL
      BY <1>1 DEF OpenInv, Held, Progress
    <3>2. FilesOf(WithImage) = FilesOf(ctx) \cup {File("image")}
      BY <1>1, <1>3, <3>1, FileType DEF OpenInv, WithImage, Context, FilesOf
    <3>3. Owned(WithImage, files)
      BY <1>3, <3>1, <3>2 DEF Owned, WithImage, Context
    <3>4. Clean(WithImage)
      BY <1>1, <1>3, FileType DEF OpenInv, Clean, WithImage, Context
    <3> QED
      BY <3>3, <3>4
  <2>3. FilesOf(WithImage) \subseteq files
    BY <2>1 DEF OpenInv, Held
  <2> QED
    BY <1>1, <1>2, <1>5, <2>1, <2>2, <2>3 DEF Failed
<1> QED
  BY <1>4, <1>5 DEF init_qcow_img_fails


LEMMA HeaderFails == ASSUME OpenInv, parse_qcow_header_fails PROVE Failed
<1> DEFINE marked == [ctx EXCEPT !.use_erdf = use_erdf(image)]
<1>1. pc = "header" /\ (Fault \/ UNCHANGED spent) /\ UNCHANGED <<word, exts, buffers>>
      /\ (FailAfterDeinit(marked, open) \/ FailAfterDeinit(ctx, open))
  BY DEF parse_qcow_header_fails, At, Local
<1>2. spent' \in Budget /\ buffers' \in 0 .. Len(image.words)
  BY <1>1, FaultBudget DEF OpenInv, Counted
<1>3. ctx \in Context /\ open \subseteq FileIds /\ use_erdf(image) \in BOOLEAN
  BY DEF OpenInv, Shape, use_erdf, Bit
<1>4. marked \in Context /\ FilesOf(marked) = FilesOf(ctx)
      /\ (Owned(ctx, open) => Owned(marked, open)) /\ (Clean(ctx) => Clean(marked))
  <2> HIDE DEF use_erdf
  <2> QED
    BY <1>3 DEF Context, FilesOf, Owned, Clean, NoTables
<1> QED
  BY <1>1, <1>2, <1>3, <1>4 DEF Failed, OpenInv, Held

LEMMA BackingFails == ASSUME OpenInv, init_backing_file_fails PROVE Failed
BY SameContextFails DEF init_backing_file_fails, Local, OpenInv, Counted

LEMMA BaseFails == ASSUME OpenInv, GetBaseFails PROVE Failed
BY SameContextFails DEF GetBaseFails, Local, OpenInv, Counted

(* What is freed with an extension that fails is at most what there is,    *)
(* and what was allocated for it has been read.                            *)
LEMMA ExtensionFails == ASSUME OpenInv, parse_qcow_ext_fails PROVE Failed
<1> DEFINE n == Len(image.words)
<1>1. /\ pc = "extension" /\ FailAfterDeinit(ctx, open) /\ UNCHANGED <<word, exts>>
      /\ Fault \/ UNCHANGED spent
  BY DEF parse_qcow_ext_fails, At
<1>2. /\ exts \in Seq(KeptExtension) /\ word \in 1 .. n + 1 /\ n \in Nat
      /\ DOMAIN image.words = 1 .. n
  BY OpenAssumption, LenProperties DEF OpenInv, Shape, ImageFile
<1>3. /\ buffers = Cardinality(WithData(exts)) /\ buffers \in Nat /\ buffers <= Len(exts)
      /\ Len(exts) + 1 <= word /\ Len(exts) \in Nat
  BY <1>1, <1>2, CountType, LenProperties DEF OpenInv, Counted
<1>4. FirstFreed \in 0 .. 1 /\ FirstFreed <= buffers
  <2>1. CASE exts # <<>> /\ exts[1].data
    <3>1. Head(exts).data
      BY <2>1
    <3>2. Tail(exts) \in Seq(KeptExtension)
      BY <1>2, <2>1, HeadTailProperties
    <3>3. Cardinality(WithData(Tail(exts))) \in Nat
      BY <3>2, CountType
    <3>4. buffers = Cardinality(WithData(Tail(exts))) + 1
      BY <1>2, <1>3, <2>1, <3>1, CountTail
    <3> QED
      BY <3>3, <3>4 DEF FirstFreed
  <2>2. CASE ~(exts # <<>> /\ exts[1].data)
    BY <1>3, <2>2 DEF FirstFreed
  <2> QED
    BY <2>1, <2>2
<1>5. HasWord(image, word) => word <= n
  BY <1>2 DEF HasWord
<1>6. ~Damaged => HasWord(image, word)
  BY DEF Damaged
<1>7. \/ buffers' = buffers - FirstFreed
      \/ HasWord(image, word) /\ buffers' = buffers + 1 - FirstFreed
      \/ HasWord(image, word) /\ buffers' \in {buffers, buffers + 1}
  <2> HIDE DEF HasWord, Damaged, FirstFreed
  <2>1. CASE buffers' = buffers - FirstFreed
    BY <2>1
  <2>2. CASE HasWord(image, word) /\ buffers' = buffers + 1 - FirstFreed
    BY <2>2
  <2>3. CASE ~Damaged /\ buffers' = buffers + (IF HasData THEN 1 ELSE 0)
    BY <1>3, <1>6, <2>3
  <2> QED
    BY <2>1, <2>2, <2>3 DEF parse_qcow_ext_fails
<1>8. buffers' \in 0 .. n
  <2> HIDE DEF n
  <2> QED
    BY <1>2, <1>3, <1>4, <1>5, <1>7
<1> QED
  BY <1>1, <1>8, SameContextFails

(* A context that holds an external data file instead of what its          *)
(* clusters_file was.                                                      *)
LEMMA ExternalHeld ==
  ASSUME OpenInv, pc = "external", NEW f \in {NULL, File("external")}
  PROVE  LET c == [ctx EXCEPT !.clusters_file = f]
             files == IF f = NULL THEN open ELSE open \cup {f}
         IN  /\ c \in Context /\ files \in SUBSET FileIds /\ FilesOf(c) \subseteq files
             /\ c.img_file = ctx.img_file
             /\ NoTables(ctx) => NoTables(c)
             /\ ~retried => Owned(c, files) /\ Clean(c)
<1> DEFINE c == [ctx EXCEPT !.clusters_file = f]
           files == IF f = NULL THEN open ELSE open \cup {f}
<1>1. ctx \in Context /\ open \subseteq FileIds /\ FilesOf(ctx) \subseteq open
      /\ f \in Externals \cup {NULL} /\ Externals \subseteq FileIds
  BY FileType DEF OpenInv, Shape, Held, Externals, FileIds
<1>2. c \in Context /\ files \in SUBSET FileIds
  BY <1>1 DEF Context
<1>3. FilesOf(c) \subseteq files /\ c.img_file = ctx.img_file
  BY <1>1 DEF Context, FilesOf
<1>4. NoTables(ctx) => NoTables(c)
  BY <1>1 DEF Context, NoTables
<1>5. ASSUME ~retried PROVE Owned(c, files) /\ Clean(c)
  <2>1. Owned(ctx, open) /\ ctx.img_file # NULL /\ ctx.clusters_file \in Externals \cup {NULL}
    BY <1>5 DEF OpenInv, Held, Progress
  <2>2. files \ FilesOf(c) \subseteq (open \ FilesOf(ctx)) \cup Externals
    BY <1>1, <2>1 DEF FilesOf, Context
  <2>3. Owned(c, files)
    BY <1>1, <2>1, <2>2 DEF Owned, Context
  <2> QED
    BY <1>3, <2>1, <2>3 DEF Clean
<1> QED
  BY <1>2, <1>3, <1>4, <1>5

LEMMA ExternalFails == ASSUME OpenInv, init_raw_external_data_fails PROVE Failed
<1>1. /\ pc = "external" /\ Fault /\ UNCHANGED <<word, exts, buffers>>
      /\ \/ FailAsItIs([ctx EXCEPT !.clusters_file = NULL], open)
         \/ FailAsItIs(WithExternal, open \cup {File("external")})
  BY DEF init_raw_external_data_fails, At, Local
<1>2. spent' \in Budget /\ buffers' \in 0 .. Len(image.words) /\ File("external") # NULL
  BY <1>1, FaultBudget, FileType DEF OpenInv, Counted
<1>3. CASE FailAsItIs([ctx EXCEPT !.clusters_file = NULL], open)
  BY <1>1, <1>2, <1>3, ExternalHeld DEF Failed
<1>4. CASE FailAsItIs(WithExternal, open \cup {File("external")})
  BY <1>1, <1>2, <1>4, ExternalHeld DEF Failed, WithExternal
<1> QED
  BY <1>1, <1>3, <1>4

LEMMA ChooseFails ==
  ASSUME OpenInv, FailAsItIs(ctx, open), UNCHANGED <<spent, word, exts, buffers>> PROVE Failed
BY SameContextFails DEF OpenInv, Counted

LEMMA RecomputeFails ==
  ASSUME OpenInv, Fault, FailAsItIs(ctx, open), UNCHANGED <<word, exts, buffers>> PROVE Failed
BY SameContextFails DEF OpenInv, Counted

(* A context with or without one of its tables.                            *)
LEMMA TableHeld ==
  ASSUME OpenInv, pc \in {"refcounts", "l1"}, NEW c,
         \/ pc = "refcounts" /\ c \in {[ctx EXCEPT !.refcount_table = NULL], WithRefcounts}
         \/ pc = "l1" /\ c \in {[ctx EXCEPT !.l1_table = NULL], WithL1}
  PROVE  /\ c \in Context /\ FilesOf(c) = FilesOf(ctx) /\ c.img_file = ctx.img_file
         /\ c.clusters_file = ctx.clusters_file
         /\ pc = "refcounts" => c.l1_table = ctx.l1_table
         /\ ~retried => Owned(c, open) /\ Clean(c)
<1>1. ctx \in Context
  BY DEF OpenInv, Shape
<1>2. c \in Context /\ FilesOf(c) = FilesOf(ctx) /\ c.img_file = ctx.img_file
      /\ c.clusters_file = ctx.clusters_file /\ (pc = "refcounts" => c.l1_table = ctx.l1_table)
  BY <1>1 DEF Context, FilesOf, WithRefcounts, WithL1
<1>3. ASSUME ~retried PROVE Owned(c, open) /\ Clean(c)
  <2>1. Owned(ctx, open) /\ ctx.img_file # NULL
    BY <1>3 DEF OpenInv, Held, Progress
  <2> QED
    BY <1>1, <1>2, <2>1 DEF Owned, Clean, Context, WithRefcounts, WithL1
<1> QED
  BY <1>2, <1>3

LEMMA TablesFail ==
  ASSUME OpenInv, parse_ref_cnt_table_fails \/ parse_l1_table_fails PROVE Failed
<1>1. Fault /\ UNCHANGED <<word, exts, buffers>>
  BY DEF parse_ref_cnt_table_fails, parse_l1_table_fails, Local
<1>2. spent' \in Budget /\ buffers' \in 0 .. Len(image.words)
  BY <1>1, FaultBudget DEF OpenInv, Counted
<1>3. PICK c : /\ FailAfterDeinit(c, open) /\ pc \in {"refcounts", "l1"}
               /\ \/ pc = "refcounts" /\ c \in {[ctx EXCEPT !.refcount_table = NULL], WithRefcounts}
                  \/ pc = "l1" /\ c \in {[ctx EXCEPT !.l1_table = NULL], WithL1}
  BY DEF parse_ref_cnt_table_fails, parse_l1_table_fails, At
<1>4. open \in SUBSET FileIds /\ FilesOf(ctx) \subseteq open
  BY DEF OpenInv, Shape, Held
<1> QED
  BY <1>1, <1>2, <1>3, <1>4, TableHeld DEF Failed


-----------------------------------------------------------------------------
(* The steps that do not fail.                                             *)

LEMMA InitOpen == Init => OpenInv
<1> SUFFICES ASSUME Init PROVE OpenInv
  OBVIOUS
<1>1. image.words \in Seq(Word) /\ Len(image.words) \in Nat
  BY OpenAssumption, LenProperties DEF Init, ImageFile
<1>2. <<>> \in Seq(KeptExtension)
  BY EmptySeq
<1>3. ctx \in Context /\ FilesOf(ctx) = {} /\ NoTables(ctx) /\ ctx.clusters_file = NULL
  BY DEF Init, ZeroContext, Context, FilesOf, NoTables
<1>4. Shape
  <2>1. spent \in [opens : 0 .. MaxOpens, faults : 0 .. MaxFaults]
    BY OpenAssumption DEF Init
  <2>2. word \in 1 .. Len(image.words) + 1 /\ exts \in Seq(KeptExtension)
    BY <1>1, <1>2 DEF Init
  <2> QED
    BY <1>3, <2>1, <2>2 DEF Init, Shape, Steps
<1>5. Held
  BY <1>3 DEF Init, Held, Owned, Clean, Progress, NoTables
<1>6. Counted
  BY <1>1 DEF Init, Counted
<1> QED
  BY <1>4, <1>5, <1>6 DEF OpenInv

LEMMA StutterOpen == OpenInv /\ UNCHANGED vars => OpenInv'
BY DEF OpenInv, Shape, Held, Owned, Clean, NoTables, Progress, Counted, FilesOf, vars

LEMMA StartOpen == ASSUME OpenInv, Start PROVE OpenInv'
<1>1. /\ pc = "idle" /\ result # "ok" /\ spent.opens < MaxOpens
      /\ image' \in Images /\ pc' = "image" /\ word' = 1 /\ exts' = <<>> /\ buffers' = 0
      /\ retried' = (retried \/ ctx.img_file # NULL)
      /\ spent' = [spent EXCEPT !.opens = @ + 1]
      /\ UNCHANGED <<ctx, open, result, death>>
  BY DEF Start, At
<1>2. image'.words \in Seq(Word) /\ Len(image'.words) \in Nat
  BY <1>1, OpenAssumption, LenProperties DEF ImageFile
<1>3. <<>> \in Seq(KeptExtension)
  BY EmptySeq
<1>4. Shape'
  <2>1. spent' \in [opens : 0 .. MaxOpens, faults : 0 .. MaxFaults] /\ spent'.opens # 0
    BY <1>1, OpenAssumption DEF OpenInv, Shape
  <2>2. retried' \in BOOLEAN
    BY <1>1 DEF OpenInv, Shape
  <2> QED
    BY <1>1, <1>2, <1>3, <2>1, <2>2 DEF OpenInv, Shape, Steps
<1>5. Held'
  <2>1. FilesOf(ctx') = FilesOf(ctx)
    BY <1>1
  <2>2. ASSUME ~retried' PROVE Owned(ctx', open') /\ Clean(ctx') /\ Progress'
    <3>1. ~retried /\ ctx.img_file = NULL
      BY <1>1, <2>2 DEF OpenInv, Shape
    <3> QED
      BY <1>1, <3>1 DEF OpenInv, Held, Owned, FilesOf, Clean, NoTables, Progress
  <2> QED
    BY <1>1, <2>1, <2>2 DEF OpenInv, Held
<1>6. Counted'
  BY <1>1, <1>2 DEF OpenInv, Counted
<1> QED
  BY <1>4, <1>5, <1>6 DEF OpenInv

LEMMA CloseOpen == ASSUME OpenInv, Close PROVE OpenInv'
<1>1. /\ pc = "idle" /\ Deinit(ctx, open) /\ result' = "none"
      /\ UNCHANGED <<image, pc, spent, retried, word, exts, buffers>>
  BY DEF Close, At, Local
<1>2. ctx \in Context /\ open \subseteq FileIds /\ FilesOf(ctx) \subseteq open
  BY DEF OpenInv, Shape, Held
<1>3. /\ ctx' \in Context /\ open' \subseteq FileIds /\ FilesOf(ctx') \subseteq open'
      /\ death' \in {death, "fclose_null"}
      /\ Owned(ctx, open) /\ Clean(ctx) => Owned(ctx', open') /\ Clean(ctx')
  BY <1>1, <1>2, DeinitHeld
<1>4. Shape'
  BY <1>1, <1>3 DEF OpenInv, Shape
<1>5. Held'
  BY <1>1, <1>3 DEF OpenInv, Held, Progress
<1>6. Counted'
  BY <1>1 DEF OpenInv, Counted
<1> QED
  BY <1>4, <1>5, <1>6 DEF OpenInv

LEMMA ImageOpen == ASSUME OpenInv, init_qcow_img PROVE OpenInv'
<1>1. /\ pc = "image" /\ ctx' = WithImage /\ open' = open \cup {File("image")} /\ pc' = "header"
      /\ UNCHANGED <<result, image, spent, retried, death, word, exts, buffers>>
  BY DEF init_qcow_img, At, Steady, Local
<1>2. /\ ctx \in Context /\ open \subseteq FileIds
      /\ File("image") \in FileIds /\ File("image") # NULL
  BY <1>1, FileType DEF OpenInv, Shape
<1>3. ctx' \in Context /\ ctx'.img_file = File("image") /\ ctx'.clusters_file = ctx.clusters_file
      /\ ctx'.backing_file = NULL /\ (NoTables(ctx) => NoTables(ctx'))
  BY <1>1, <1>2 DEF WithImage, Context, NoTables
<1>4. Shape'
  BY <1>1, <1>2, <1>3 DEF OpenInv, Shape, Steps
<1>5. Held'
  <2>1. FilesOf(ctx') \subseteq open'
    BY <1>1, <1>2, <1>3 DEF OpenInv, Held, FilesOf
  <2>2. ASSUME ~retried PROVE Owned(ctx', open') /\ Clean(ctx') /\ Progress'
    <3>1. ctx.img_file = NULL /\ ctx.clusters_file = NULL /\ NoTables(ctx) /\ Owned(ctx, open)
      BY <1>1, <2>2 DEF OpenInv, Held, Progress, Clean
    <3>2. FilesOf(ctx) \subseteq FilesOf(ctx') /\ File("image") \in FilesOf(ctx')
      BY <1>2, <1>3, <3>1 DEF FilesOf, Context
    <3>3. Owned(ctx', open')
      BY <1>1, <1>3, <3>1, <3>2 DEF Owned, NoTables
    <3> QED
      BY <1>1, <1>2, <1>3, <3>1, <3>3 DEF Clean, Progress
  <2> QED
    BY <1>1, <2>1, <2>2 DEF Held
<1>6. Counted'
  BY <1>1 DEF OpenInv, Counted
<1> QED
  BY <1>4, <1>5, <1>6 DEF OpenInv

(* The header is read up to its last word before the extensions begin.     *)
LEMMA NoCheckFails ==
  ASSUME NEW checks, NEW n \in Nat, DOMAIN checks = 1 .. n, FirstError(checks) = "none",
         \A i \in 1 .. n : checks[i][2] # "none"
  PROVE  \A i \in 1 .. n : ~checks[i][1]
<1> DEFINE failed == {i \in DOMAIN checks : checks[i][1]}
<1>1. ASSUME failed # {} PROVE FALSE
  <2>1. failed \in SUBSET Nat
    OBVIOUS
  <2>2. \E i \in failed : \A j \in failed : i <= j
    <3>1. PICK i \in failed : \A j \in failed : ~(<<j, i>> \in OpToRel(<, Nat))
      BY <1>1, <2>1, WFMin, NatLessThanWellFounded
    <3>2. \A j \in failed : ~(j < i)
      BY <2>1, <3>1 DEF OpToRel
    <3> QED
      BY <2>1, <3>2
  <2>3. Min(failed) \in failed
    BY <2>2 DEF Min
  <2>4. FirstError(checks) = checks[Min(failed)][2]
    BY <1>1 DEF FirstError
  <2> QED
    BY <2>3, <2>4
<1> QED
  BY <1>1

LEMMA HeaderWords ==
  ASSUME image \in Images, HeaderError(image) = "none"
  PROVE  FirstExtension(image) \in 5 .. Len(image.words) + 1
<1>1. image.words \in Seq(Word) /\ Len(image.words) \in Nat /\ DOMAIN image.words = 1 .. Len(image.words)
  BY OpenAssumption, LenProperties DEF ImageFile
<1>2. FirstError(BaseChecks(image)) = "none"
      /\ (~(image.version < 3) => FirstError(FeatureChecks(image)) = "none")
  BY Zenon DEF HeaderError
<1>3. HasWord(image, 4)
  <2>1. DOMAIN BaseChecks(image) = 1 .. 6 /\ BaseChecks(image)[6] = <<~HasWord(image, 4), "IO_ERROR">>
        /\ \A i \in 1 .. 6 : BaseChecks(image)[i][2] # "none"
    BY DEF BaseChecks
  <2>2. ASSUME FirstError(BaseChecks(image)) = "none"
        PROVE  \A i \in 1 .. 6 : ~BaseChecks(image)[i][1]
    BY <2>1, <2>2, NoCheckFails
  <2>3. 6 \in 1 .. 6 /\ BaseChecks(image)[6][1] = ~HasWord(image, 4)
    BY <2>1
  <2> QED
    BY <1>2, <2>2, <2>3
<1>4. ~(image.version < 3) => HasWord(image, 5)
  <2>1. DOMAIN FeatureChecks(image) = 1 .. 10 /\ FeatureChecks(image)[10] = <<~HasWord(image, 5), "IO_ERROR">>
        /\ \A i \in 1 .. 10 : FeatureChecks(image)[i][2] # "none"
    BY DEF FeatureChecks
  <2>2. ASSUME FirstError(FeatureChecks(image)) = "none"
        PROVE  \A i \in 1 .. 10 : ~FeatureChecks(image)[i][1]
    BY <2>1, <2>2, NoCheckFails
  <2>3. 10 \in 1 .. 10 /\ FeatureChecks(image)[10][1] = ~HasWord(image, 5)
    BY <2>1
  <2> QED
    BY <1>2, <2>2, <2>3
<1> QED
  BY <1>1, <1>3, <1>4 DEF HasWord, FirstExtension


LEMMA HeaderOpen == ASSUME OpenInv, parse_qcow_header PROVE OpenInv'
<1>1. /\ pc = "header" /\ HeaderError(image) = "none"
      /\ ctx' = [ctx EXCEPT !.use_erdf = use_erdf(image)]
      /\ word' = FirstExtension(image) /\ pc' \in {"backing", "extension"}
      /\ UNCHANGED <<open, exts, buffers, result, image, spent, retried, death>>
  BY DEF parse_qcow_header, At, Steady
<1>2. ctx \in Context /\ use_erdf(image) \in BOOLEAN
  BY DEF OpenInv, Shape, use_erdf, Bit
<1>3. /\ ctx' \in Context /\ ctx'.img_file = ctx.img_file /\ FilesOf(ctx') = FilesOf(ctx)
      /\ ctx'.clusters_file = ctx.clusters_file
      /\ (NoTables(ctx) => NoTables(ctx')) /\ (Owned(ctx, open) => Owned(ctx', open'))
      /\ (Clean(ctx) => Clean(ctx'))
  <2> HIDE DEF use_erdf
  <2> QED
    BY <1>1, <1>2 DEF Context, FilesOf, Owned, Clean, NoTables
<1>4. word' \in 5 .. Len(image.words) + 1
  BY <1>1, HeaderWords DEF OpenInv, Shape
<1>5. Len(image.words) \in Nat
  BY OpenAssumption, LenProperties DEF OpenInv, Shape, ImageFile
<1>6. Shape'
  BY <1>1, <1>3, <1>4, <1>5 DEF OpenInv, Shape, Steps
<1>7. Held'
  BY <1>1, <1>3 DEF OpenInv, Held, Progress
<1>8. exts = <<>> /\ buffers = 0
  BY <1>1 DEF OpenInv, Counted
<1>9. Cardinality(WithData(exts)) = 0 /\ Len(exts) = 0
  BY <1>8, EmptySeq, CountType DEF OpenInv, Shape
<1>10. Counted'
  BY <1>1, <1>4, <1>5, <1>8, <1>9 DEF OpenInv, Counted
<1> QED
  BY <1>6, <1>7, <1>10 DEF OpenInv

LEMMA ExtensionOpen == ASSUME OpenInv, parse_qcow_ext PROVE OpenInv'
<1> DEFINE n == Len(image.words)
           kept == [type |-> ExtType, data |-> HasData]
<1>1. /\ pc = "extension" /\ ~Damaged /\ word' = NextExtension
      /\ UNCHANGED <<ctx, open, result, image, spent, retried, death>>
  BY DEF parse_qcow_ext, At, Steady
<1>2. /\ exts \in Seq(KeptExtension) /\ Len(exts) \in Nat
      /\ image.words \in Seq(Word) /\ n \in Nat /\ DOMAIN image.words = 1 .. n
      /\ word \in 1 .. n + 1
  BY OpenAssumption, LenProperties DEF OpenInv, Shape, ImageFile
<1>3. HasWord(image, word) /\ HasWord(image, word + DataWords)
  <2> HIDE DEF HasWord, DataWords
  <2> QED
    BY <1>1 DEF Damaged
<1>4. DataWords \in Nat
  <2>1. image.words[word] \in Word
    BY <1>2, <1>3, ElementOfSeq DEF HasWord
  <2>2. ExtLength \in Nat
    BY <2>1 DEF ExtLength, Word
  <2> HIDE DEF ExtLength
  <2> QED
    BY <2>2 DEF DataWords
<1>5. word' \in word + 1 .. n + 1
  <2> HIDE DEF DataWords
  <2> QED
    BY <1>1, <1>2, <1>3, <1>4 DEF HasWord, NextExtension
<1>6. buffers = Cardinality(WithData(exts)) /\ Len(exts) + 1 <= word
  BY <1>1 DEF OpenInv, Counted
<1>7. /\ exts' \in Seq(KeptExtension) /\ Len(exts') <= Len(exts) + 1
      /\ buffers' = Cardinality(WithData(exts')) /\ pc' \in {"base", "extension"}
  <2>1. CASE pc' \in {"base", "extension"} /\ UNCHANGED <<exts, buffers>>
    BY <1>2, <1>6, <2>1
  <2>2. CASE /\ ExtType \in {BACKING_FILE_NAME, BITMAPS_EXTENSION, EXTERNAL_FILE_NAME}
             /\ exts' = Append(exts, kept)
             /\ buffers' = buffers + (IF HasData THEN 1 ELSE 0)
             /\ UNCHANGED pc
    <3>1. kept \in KeptExtension
      BY <2>2 DEF KeptExtension, KnownTypes, HEADER_EXT_END, FEATURE_NAME_TABLE, BACKING_FILE_NAME,
                  BITMAPS_EXTENSION, EXTERNAL_FILE_NAME, HasData
    <3>2. kept.data = HasData
      OBVIOUS
    <3> HIDE DEF kept
    <3>3. exts' \in Seq(KeptExtension) /\ Len(exts') = Len(exts) + 1
      BY <1>2, <2>2, <3>1, AppendProperties
    <3>4. Cardinality(WithData(exts')) = Cardinality(WithData(exts)) + (IF HasData THEN 1 ELSE 0)
      BY <1>2, <2>2, <3>1, <3>2, CountAppend
    <3> QED
      BY <1>1, <1>2, <1>6, <2>2, <3>3, <3>4
  <2> QED
    BY <1>1, <2>1, <2>2 DEF parse_qcow_ext
<1>8. Cardinality(WithData(exts')) \in Nat /\ Cardinality(WithData(exts')) <= Len(exts')
      /\ Len(exts') \in Nat
  BY <1>7, CountType, LenProperties
<1>9. Shape'
  BY <1>1, <1>2, <1>5, <1>7 DEF OpenInv, Shape, Steps
<1>10. Held'
  BY <1>1, <1>7 DEF OpenInv, Held, Owned, FilesOf, Clean, NoTables, Progress
<1>11. buffers' \in 0 .. n /\ Len(exts') + 1 <= word'
  <2> HIDE DEF n
  <2> QED
    BY <1>2, <1>5, <1>6, <1>7, <1>8
<1>12. Counted'
  BY <1>1, <1>7, <1>11 DEF OpenInv, Counted
<1> QED
  BY <1>9, <1>10, <1>12 DEF OpenInv

LEMMA BaseOpen == ASSUME OpenInv, GetBase PROVE OpenInv'
<1>1. /\ pc = "base" /\ pc' = "external"
      /\ UNCHANGED <<ctx, open, result, image, spent, retried, death, word, exts, buffers>>
  BY DEF GetBase, At, Steady, Local
<1>2. Shape'
  BY <1>1 DEF OpenInv, Shape, Steps
<1>3. Held'
  BY <1>1 DEF OpenInv, Held, Owned, FilesOf, Clean, NoTables, Progress
<1> QED
  BY <1>1, <1>2, <1>3 DEF OpenInv, Counted

(* The first extension goes, and its buffer with it.                       *)
LEMMA FirstGoes ==
  ASSUME OpenInv, pc = "external", exts # <<>>, FreeFirst
  PROVE  /\ exts' \in Seq(KeptExtension) /\ buffers' = Cardinality(WithData(exts'))
         /\ buffers' \in 0 .. Len(image.words)
<1>1. exts \in Seq(KeptExtension) /\ buffers = Cardinality(WithData(exts))
      /\ buffers \in 0 .. Len(image.words)
  BY DEF OpenInv, Shape, Counted
<1>2. exts' = Tail(exts) /\ buffers' = buffers - (IF Head(exts).data THEN 1 ELSE 0)
  BY DEF FreeFirst
<1>3. exts' \in Seq(KeptExtension)
  BY <1>1, <1>2, HeadTailProperties
<1>4. Cardinality(WithData(exts')) \in Nat
  BY <1>3, CountType
<1>5. Cardinality(WithData(exts)) = Cardinality(WithData(exts')) + (IF Head(exts).data THEN 1 ELSE 0)
  BY <1>1, <1>2, CountTail
<1>6. Len(image.words) \in Nat
  BY OpenAssumption, LenProperties DEF OpenInv, Shape, ImageFile
<1> QED
  BY <1>1, <1>2, <1>3, <1>4, <1>5, <1>6

LEMMA ExternalOpen ==
  ASSUME OpenInv, init_raw_external_data \/ dump_qcow_header_extension PROVE OpenInv'
<1>1. /\ pc = "external" /\ exts # <<>> /\ FreeFirst /\ pc' = pc
      /\ UNCHANGED <<word, result, image, spent, retried, death>>
      /\ \/ UNCHANGED <<ctx, open>>
         \/ ctx' = WithExternal /\ open' = open \cup {File("external")}
  BY DEF init_raw_external_data, dump_qcow_header_extension, At, Steady
<1>2. /\ exts' \in Seq(KeptExtension) /\ buffers' = Cardinality(WithData(exts'))
      /\ buffers' \in 0 .. Len(image.words)
  BY <1>1, FirstGoes
<1>3. /\ ctx' \in Context /\ open' \subseteq FileIds /\ FilesOf(ctx') \subseteq open'
      /\ ~retried => Owned(ctx', open') /\ Clean(ctx') /\ Progress'
  <2>1. CASE UNCHANGED <<ctx, open>>
    BY <1>1, <2>1 DEF OpenInv, Shape, Held, Owned, FilesOf, Clean, NoTables, Progress
  <2>2. CASE ctx' = WithExternal /\ open' = open \cup {File("external")}
    <3>1. File("external") \in Externals /\ File("external") # NULL
      BY <1>1, FileType DEF OpenInv
    <3>2. /\ ctx' \in Context /\ open' \subseteq FileIds /\ FilesOf(ctx') \subseteq open'
          /\ ctx'.img_file = ctx.img_file /\ (NoTables(ctx) => NoTables(ctx'))
          /\ ~retried => Owned(ctx', open') /\ Clean(ctx')
      BY <1>1, <2>2, <3>1, ExternalHeld DEF WithExternal
    <3>3. ctx'.clusters_file = File("external")
      BY <2>2 DEF WithExternal, OpenInv, Shape, Context
    <3> QED
      BY <1>1, <3>1, <3>2, <3>3 DEF OpenInv, Held, Progress
  <2> QED
    BY <1>1, <2>1, <2>2
<1>4. Shape'
  BY <1>1, <1>2, <1>3 DEF OpenInv, Shape
<1>5. Held'
  BY <1>1, <1>3 DEF Held
<1>6. Counted'
  BY <1>1, <1>2 DEF OpenInv, Counted
<1> QED
  BY <1>4, <1>5, <1>6 DEF OpenInv

LEMMA ChooseOpen == ASSUME OpenInv, ChooseClustersFile PROVE OpenInv'
<1>1. pc = "external" /\ exts = <<>> /\ UNCHANGED <<word, exts, buffers>>
  BY DEF ChooseClustersFile, At, Local
<1>2. CASE FailAsItIs(ctx, open) /\ UNCHANGED spent
  BY <1>1, <1>2, ChooseFails, FailedStep
<1>3. CASE /\ ctx' = [ctx EXCEPT !.clusters_file = ctx.img_file] /\ pc' = "fields"
           /\ UNCHANGED <<open, result, image, spent, retried, death>>
  <2>1. ctx \in Context /\ FilesOf(ctx) \subseteq open
    BY DEF OpenInv, Shape, Held
  <2>2. /\ ctx' \in Context /\ ctx'.img_file = ctx.img_file /\ FilesOf(ctx') \subseteq FilesOf(ctx)
        /\ (NoTables(ctx) => NoTables(ctx'))
    BY <1>3, <2>1 DEF Context, FilesOf, NoTables
  <2>3. Shape'
    BY <1>1, <1>3, <2>2 DEF OpenInv, Shape, Steps
  <2>4. ASSUME ~retried PROVE Owned(ctx', open') /\ Clean(ctx') /\ Progress'
    <3>1. /\ Owned(ctx, open) /\ ctx.img_file # NULL /\ ctx.clusters_file \in Externals \cup {NULL}
          /\ NoTables(ctx)
      BY <1>1, <2>4 DEF OpenInv, Held, Progress
    <3>2. FilesOf(ctx) \subseteq FilesOf(ctx') \cup Externals
      BY <1>3, <2>1, <3>1 DEF FilesOf, Context
    <3>3. Owned(ctx', open')
      BY <1>3, <2>2, <3>1, <3>2 DEF Owned, NoTables
    <3> QED
      BY <1>3, <2>2, <3>1, <3>3 DEF Clean, Progress
  <2>5. Held'
    BY <1>3, <2>1, <2>2, <2>4 DEF Held
  <2>6. buffers = 0
    BY <1>1, CountType DEF OpenInv, Shape, Counted
  <2>7. Counted'
    BY <1>1, <1>3, <2>6 DEF OpenInv, Counted
  <2> QED
    BY <2>3, <2>5, <2>7 DEF OpenInv
<1> QED
  BY <1>2, <1>3 DEF ChooseClustersFile, Steady

LEMMA FieldsOpen == ASSUME OpenInv, CopyFields PROVE OpenInv'
<1>1. /\ pc = "fields" /\ pc' = "refcounts"
      /\ ctx' = [ctx EXCEPT !.backing_file_name_size = image.backing_file_name_size,
                            !.l1_size = image.l1_size,
                            !.refcount_table_size = image.refcount_table_size]
      /\ death' \in {"division", death}
      /\ UNCHANGED <<open, result, image, spent, retried, word, exts, buffers>>
  BY DEF CopyFields, At, Local
<1>2. ctx \in Context /\ image \in ImageFile
  BY OpenAssumption DEF OpenInv, Shape
<1>3. /\ ctx' \in Context /\ FilesOf(ctx') = FilesOf(ctx) /\ ctx'.img_file = ctx.img_file
      /\ (NoTables(ctx) => NoTables(ctx'))
  BY <1>1, <1>2 DEF Context, ImageFile, FilesOf, NoTables
<1>4. Shape'
  BY <1>1, <1>3 DEF OpenInv, Shape, Steps
<1>5. ASSUME ~retried PROVE Owned(ctx', open') /\ Clean(ctx') /\ Progress'
  <2>1. Owned(ctx, open) /\ ctx.img_file # NULL /\ NoTables(ctx)
    BY <1>1, <1>5 DEF OpenInv, Held, Progress
  <2> QED
    BY <1>1, <1>3, <2>1 DEF Owned, NoTables, Clean, Progress
<1>6. Held'
  BY <1>1, <1>3, <1>5 DEF OpenInv, Held
<1> QED
  BY <1>1, <1>4, <1>6 DEF OpenInv, Counted

LEMMA TablesOpen == ASSUME OpenInv, parse_ref_cnt_table \/ parse_l1_table PROVE OpenInv'
<1>1. /\ UNCHANGED <<open, image, spent, retried, death, word, exts, buffers>>
      /\ \/ pc = "refcounts" /\ ctx' = WithRefcounts /\ pc' = "l1" /\ result' = result
         \/ /\ pc = "l1" /\ ctx' = WithL1
            /\ \/ pc' = "recompute" /\ result' = result
               \/ pc' = "idle" /\ result' = "ok"
  BY DEF parse_ref_cnt_table, parse_l1_table, At, Steady, Local
<1>2. /\ ctx' \in Context /\ FilesOf(ctx') = FilesOf(ctx) /\ ctx'.img_file = ctx.img_file
      /\ pc = "refcounts" => ctx'.l1_table = ctx.l1_table
      /\ ~retried => Owned(ctx', open') /\ Clean(ctx')
  BY <1>1, TableHeld
<1>3. Shape'
  BY <1>1, <1>2 DEF OpenInv, Shape, Steps
<1>4. Held'
  BY <1>1, <1>2 DEF OpenInv, Held, Progress, NoTables
<1>5. Counted'
  BY <1>1 DEF OpenInv, Counted
<1> QED
  BY <1>3, <1>4, <1>5 DEF OpenInv

LEMMA RecomputeOpen == ASSUME OpenInv, recompute_ref_cnt PROVE OpenInv'
<1>1. pc = "recompute" /\ UNCHANGED <<word, exts, buffers>>
  BY DEF recompute_ref_cnt, At, Local
<1>2. CASE Fault /\ FailAsItIs(ctx, open)
  BY <1>1, <1>2, RecomputeFails, FailedStep
<1>3. CASE pc' = "idle" /\ result' = "ok"
           /\ UNCHANGED <<ctx, open, image, spent, retried, death>>
  <2>1. Shape'
    BY <1>1, <1>3 DEF OpenInv, Shape, Steps
  <2>2. Held'
    BY <1>1, <1>3 DEF OpenInv, Held, Owned, FilesOf, Clean, NoTables, Progress
  <2>3. Counted'
    BY <1>1, <1>3 DEF OpenInv, Counted
  <2> QED
    BY <2>1, <2>2, <2>3 DEF OpenInv
<1> QED
  BY <1>2, <1>3 DEF recompute_ref_cnt, Steady

-----------------------------------------------------------------------------
LEMMA OpenStep == OpenInv /\ [Next]_vars => OpenInv'
<1> SUFFICES ASSUME OpenInv, [Next]_vars PROVE OpenInv'
  OBVIOUS
<1>1. CASE init_qcow_img_fails \/ parse_qcow_header_fails \/ init_backing_file_fails
           \/ parse_qcow_ext_fails \/ GetBaseFails \/ init_raw_external_data_fails
           \/ parse_ref_cnt_table_fails \/ parse_l1_table_fails
  BY <1>1, ImageFails, HeaderFails, BackingFails, ExtensionFails, BaseFails, ExternalFails,
     TablesFail, FailedStep
<1>2. CASE init_qcow_img \/ parse_qcow_header \/ parse_qcow_ext \/ GetBase
           \/ init_raw_external_data \/ dump_qcow_header_extension \/ ChooseClustersFile
           \/ CopyFields \/ parse_ref_cnt_table \/ parse_l1_table \/ recompute_ref_cnt
  BY <1>2, ImageOpen, HeaderOpen, ExtensionOpen, BaseOpen, ExternalOpen, ChooseOpen,
     FieldsOpen, TablesOpen, RecomputeOpen
<1> QED
  BY <1>1, <1>2, StartOpen, CloseOpen, StutterOpen DEF Next, init_qcow

LEMMA Accounted == OpenInv => HoldingsAccounted
<1> SUFFICES ASSUME OpenInv PROVE HoldingsAccounted
  OBVIOUS
<1>1. \A i \in DOMAIN exts : exts[i].type \in KnownTypes \ {HEADER_EXT_END, FEATURE_NAME_TABLE}
  <2>1. exts \in Seq(KeptExtension)
    BY DEF OpenInv, Shape
  <2>2. \A i \in DOMAIN exts : exts[i] \in KeptExtension
    BY <2>1, ElementOfSeq, LenProperties
  <2> QED
    BY <2>2 DEF KeptExtension
<1>2. TypeOK
  BY <1>1 DEF OpenInv, Shape, Counted, Context, Steps, TypeOK
<1> QED
  BY <1>2 DEF OpenInv, Held, Owned, Externals, HoldingsAccounted

(* Whatever images are opened on one context, and wherever an opening      *)
(* fails: no FILE is named that was closed, so none is closed twice, and   *)
(* if no caller opened over a failure that kept the file, all that is open *)
(* but external data files is named, and tables have the lengths that they *)
(* are freed with.                                                         *)
THEOREM HoldingsTheorem == Spec => []HoldingsAccounted
BY InitOpen, OpenStep, Accounted, PTL DEF Spec

(* A successful opening has freed the data of every extension of the       *)
(* image, however many there are and in whatever order.                    *)
THEOREM BuffersFreedTheorem == Spec => []BuffersFreed
<1>1. OpenInv => BuffersFreed
  BY DEF OpenInv, Counted, BuffersFreed
<1> QED
  BY <1>1, InitOpen, OpenStep, PTL DEF Spec

-----------------------------------------------------------------------------
(* The extensions of an area that is laid out as the format has it.        *)

(* Reading stands where the next extension was written, and has kept what  *)
(* there was before.                                                       *)
Followed ==
  /\ pc = "extension" /\ LaidOut(image) =>
       \E k \in 1 .. Len(image.written) + 1 :
         word = Begin(image, k) /\ Follows(exts, image, k - 1)
  /\ pc = "base" /\ LaidOut(image) => Follows(exts, image, Len(image.written))

LEMMA FollowsNothing ==
  ASSUME NEW img
  PROVE  Follows(<<>>, img, 0)
<1>1. KeptOf(img, 0) = {} /\ DOMAIN <<>> = {}
  BY DEF KeptOf
<1>2. [i \in {} |-> 0] \in [{} -> {}]
  OBVIOUS
<1> QED
  BY <1>1, <1>2 DEF Follows

(* An extension that is let go changes nothing, and one that is kept comes *)
(* behind the others.                                                      *)
LEMMA FollowsSkipped ==
  ASSUME NEW img, NEW list, NEW k \in Nat \ {0}, k \notin KeptOf(img, k), Follows(list, img, k - 1)
  PROVE  Follows(list, img, k)
<1>1. 1 .. k = 1 .. k - 1 \cup {k}
  OBVIOUS
<1>2. KeptOf(img, k) = KeptOf(img, k - 1)
  BY <1>1 DEF KeptOf
<1> QED
  BY <1>2 DEF Follows

LEMMA FollowsKept ==
  ASSUME NEW img, NEW list \in Seq(KeptExtension), NEW k \in Nat \ {0}, k \in KeptOf(img, k),
         NEW e \in KeptExtension, e.type = img.written[k].type, Follows(list, img, k - 1)
  PROVE  Follows(Append(list, e), img, k)
<1> DEFINE n == Len(list)
           longer == Append(list, e)
<1>1. /\ n \in Nat /\ DOMAIN list = 1 .. n /\ DOMAIN longer = 1 .. n + 1
      /\ longer[n + 1] = e /\ \A i \in 1 .. n : longer[i] = list[i]
  BY AppendProperties, LenProperties
<1>2. KeptOf(img, k) = KeptOf(img, k - 1) \cup {k} /\ KeptOf(img, k - 1) \subseteq 1 .. k - 1
  <2>1. 1 .. k = 1 .. k - 1 \cup {k}
    OBVIOUS
  <2> QED
    BY <2>1 DEF KeptOf
<1> HIDE DEF n, longer
<1>3. PICK from \in [1 .. n -> KeptOf(img, k - 1)] :
        /\ \A i, j \in 1 .. n : i < j => from[i] < from[j]
        /\ \A m \in KeptOf(img, k - 1) : \E i \in 1 .. n : from[i] = m
        /\ \A i \in 1 .. n : list[i].type = img.written[from[i]].type
  <2>1. DOMAIN list = 1 .. n
    BY <1>1
  <2>2. \E from \in [DOMAIN list -> KeptOf(img, k - 1)] :
          /\ \A i, j \in DOMAIN list : i < j => from[i] < from[j]
          /\ \A m \in KeptOf(img, k - 1) : \E i \in DOMAIN list : from[i] = m
          /\ \A i \in DOMAIN list : list[i].type = img.written[from[i]].type
    BY DEF Follows
  <2> QED
    BY <2>1, <2>2, Zenon
<1> DEFINE onto == [i \in 1 .. n + 1 |-> IF i \in 1 .. n THEN from[i] ELSE k]
<1>4. onto[n + 1] = k /\ \A i \in 1 .. n : onto[i] = from[i]
  BY <1>1
<1>5. onto \in [1 .. n + 1 -> KeptOf(img, k)]
  BY <1>2, <1>3
<1> HIDE DEF onto
<1>6. ASSUME NEW i \in 1 .. n + 1, NEW j \in 1 .. n + 1, i < j
      PROVE  onto[i] < onto[j]
  <2>1. i \in 1 .. n
    BY <1>1, <1>6
  <2>2. from[i] \in 1 .. k - 1
    BY <1>2, <1>3, <2>1
  <2>3. CASE j \in 1 .. n
    BY <1>3, <1>4, <1>6, <2>1, <2>3
  <2>4. CASE j = n + 1
    <3>1. onto[i] = from[i] /\ onto[j] = k
      BY <1>4, <2>1, <2>4
    <3> QED
      BY <2>2, <3>1
  <2> QED
    BY <1>1, <2>3, <2>4
<1>7. ASSUME NEW m \in KeptOf(img, k)
      PROVE  \E i \in 1 .. n + 1 : onto[i] = m
  <2>1. CASE m = k
    BY <1>1, <1>4, <2>1
  <2>2. CASE m \in KeptOf(img, k - 1)
    <3>1. PICK i \in 1 .. n : from[i] = m
      BY <1>3, <2>2
    <3>2. i \in 1 .. n + 1 /\ onto[i] = m
      BY <1>1, <1>4, <3>1
    <3> QED
      BY <3>2
  <2> QED
    BY <1>2, <2>1, <2>2
<1>8. \A i \in 1 .. n + 1 : longer[i].type = img.written[onto[i]].type
  <2> TAKE i \in 1 .. n + 1
  <2>1. CASE i \in 1 .. n
    BY <1>1, <1>3, <1>4, <2>1
  <2>2. CASE i = n + 1
    BY <1>1, <1>4, <2>2
  <2> QED
    BY <1>1, <2>1, <2>2
<1>9. Follows(longer, img, k)
  <2>1. DOMAIN longer = 1 .. n + 1
    BY <1>1
  <2>2. \E f \in [DOMAIN longer -> KeptOf(img, k)] :
          /\ \A i, j \in DOMAIN longer : i < j => f[i] < f[j]
          /\ \A m \in KeptOf(img, k) : \E i \in DOMAIN longer : f[i] = m
          /\ \A i \in DOMAIN longer : longer[i].type = img.written[f[i]].type
    BY <1>5, <1>6, <1>7, <1>8, <2>1, Zenon
  <2> QED
    BY <2>2 DEF Follows
<1> QED
  BY <1>9 DEF longer

LEMMA HeaderFollowed == ASSUME OpenInv, parse_qcow_header PROVE Followed'
<1>1. /\ pc = "header" /\ pc' \in {"backing", "extension"}
      /\ UNCHANGED <<image, exts>> /\ word' = FirstExtension(image)
  BY DEF parse_qcow_header, At, Steady
<1>2. exts = <<>> /\ image \in Images
  BY <1>1 DEF OpenInv, Counted, Shape
<1>3. Len(image.written) \in Nat
  BY <1>2, OpenAssumption, LenProperties DEF ImageFile
<1>4. 1 \in 1 .. Len(image.written) + 1 /\ 1 - 1 = 0
  BY <1>3
<1>5. Begin(image, 1) = FirstExtension(image)
  BY DEF Begin
<1>6. Follows(exts, image, 1 - 1)
  BY <1>2, <1>4, FollowsNothing
<1> QED
  BY <1>1, <1>4, <1>5, <1>6 DEF Followed

(* One round of parse_qcow_ext: the word it stands at was written as the   *)
(* extension k, or as the end.                                             *)
LEMMA ExtensionFollowed == ASSUME OpenInv, Followed, parse_qcow_ext PROVE Followed'
<1>1. /\ pc = "extension" /\ image' = image /\ word' = NextExtension
      /\ image \in Images /\ exts \in Seq(KeptExtension)
  BY DEF parse_qcow_ext, At, Steady, OpenInv, Shape
<1>2. SUFFICES ASSUME LaidOut(image)
               PROVE  Followed'
  BY <1>1 DEF Followed
<1>3. PICK n \in Nat : n = Len(image.written) /\ DOMAIN image.written = 1 .. n
  <2>1. image.written \in Seq([type : Nat, at : Nat])
    BY <1>1, OpenAssumption DEF ImageFile
  <2> QED
    BY <2>1, LenProperties
<1>4. PICK k \in 1 .. n + 1 : word = Begin(image, k) /\ Follows(exts, image, k - 1)
  BY <1>1, <1>2, <1>3 DEF Followed
<1>5. CASE k = n + 1
  <2>1. image.words[word].hi = HEADER_EXT_END
    BY <1>2, <1>3, <1>4, <1>5 DEF LaidOut
  <2>2. ExtType = HEADER_EXT_END
    BY <2>1 DEF ExtType, to_qcow_ext_type, KnownTypes
  <2>3. pc' = "base" /\ exts' = exts
    BY <2>2 DEF parse_qcow_ext, HEADER_EXT_END, FEATURE_NAME_TABLE, UNKNOWN_EXTENSION,
       BACKING_FILE_NAME, BITMAPS_EXTENSION, EXTERNAL_FILE_NAME
  <2>4. Follows(exts, image, n)
    BY <1>4, <1>5
  <2> QED
    BY <1>1, <1>3, <2>3, <2>4 DEF Followed
<1>6. CASE k \in 1 .. n
  <2> DEFINE e == image.written[k]
  <2>1. /\ e.type # HEADER_EXT_END /\ e.at = word /\ image.words[word].hi = e.type
        /\ k \in Nat \ {0}
    BY <1>2, <1>3, <1>4, <1>6 DEF LaidOut
  <2>2. /\ ExtType = to_qcow_ext_type(e.type) /\ ExtType # HEADER_EXT_END
        /\ ExtType # UNKNOWN_EXTENSION => ExtType = e.type
    BY <2>1 DEF ExtType, to_qcow_ext_type, UNKNOWN_EXTENSION, HEADER_EXT_END
  <2>3. word' = Begin(image, k + 1)
    <3>1. k + 1 # 1 /\ k + 1 - 1 = k
      BY <2>1
    <3>2. word' = Behind(image, e)
      BY <1>1, <2>1 DEF NextExtension, DataWords, ExtLength, Behind
    <3> QED
      BY <3>1, <3>2 DEF Begin
  <2>4. pc' = "extension"
    BY <1>1, <2>2 DEF parse_qcow_ext
  <2>5. Follows(exts', image, k)
    <3>1. CASE ExtType \in {FEATURE_NAME_TABLE, UNKNOWN_EXTENSION}
      <4>1. k \notin KeptOf(image, k)
        BY <2>2, <3>1 DEF KeptOf
      <4>2. exts' = exts
        BY <3>1 DEF parse_qcow_ext, HEADER_EXT_END, FEATURE_NAME_TABLE, UNKNOWN_EXTENSION,
           BACKING_FILE_NAME, BITMAPS_EXTENSION, EXTERNAL_FILE_NAME
      <4> QED
        BY <1>4, <2>1, <4>1, <4>2, FollowsSkipped
    <3>2. CASE ExtType \in {BACKING_FILE_NAME, BITMAPS_EXTENSION, EXTERNAL_FILE_NAME}
      <4>1. ExtType # FEATURE_NAME_TABLE /\ ExtType # UNKNOWN_EXTENSION /\ ExtType \in KnownTypes
        BY <3>2 DEF FEATURE_NAME_TABLE, UNKNOWN_EXTENSION,
           BACKING_FILE_NAME, BITMAPS_EXTENSION, EXTERNAL_FILE_NAME, KnownTypes
      <4>2. k \in KeptOf(image, k)
        BY <2>1, <2>2, <4>1 DEF KeptOf
      <4> DEFINE kept == [type |-> ExtType, data |-> HasData]
      <4>3. exts' = Append(exts, kept)
        BY <2>2, <3>2, <4>1 DEF parse_qcow_ext
      <4>4. HasData \in BOOLEAN
        BY DEF HasData
      <4>5. kept \in KeptExtension /\ kept.type = e.type
        BY <2>2, <4>1, <4>4 DEF KeptExtension
      <4> HIDE DEF kept
      <4> QED
        BY <1>1, <1>4, <2>1, <4>2, <4>3, <4>5, FollowsKept
    <3> QED
      BY <2>2, <3>1, <3>2 DEF parse_qcow_ext
  <2>6. k + 1 \in 1 .. n + 1 /\ k + 1 - 1 = k
    BY <1>6
  <2>7. \E m \in 1 .. n + 1 : word' = Begin(image, m) /\ Follows(exts', image, m - 1)
    BY <2>3, <2>5, <2>6
  <2> QED
    BY <1>1, <1>3, <2>4, <2>7 DEF Followed
<1> QED
  BY <1>3, <1>4, <1>5, <1>6

LEMMA InitFollowed == Init => Followed
BY DEF Init, Followed

LEMMA FollowedStep == OpenInv /\ Followed /\ [Next]_vars => Followed'
<1> SUFFICES ASSUME OpenInv, Followed, [Next]_vars PROVE Followed'
  OBVIOUS
<1>1. CASE parse_qcow_header
  BY <1>1, HeaderFollowed
<1>2. CASE parse_qcow_ext
  BY <1>2, ExtensionFollowed
<1>3. CASE UNCHANGED vars
  BY <1>3 DEF Followed, vars
<1>4. CASE Failed
  <2>1. pc' = "idle"
    BY <1>4 DEF Failed, FailAfterDeinit, FailAsItIs
  <2> QED
    BY <2>1 DEF Followed
<1>5. CASE init_qcow_img_fails \/ parse_qcow_header_fails \/ init_backing_file_fails
           \/ parse_qcow_ext_fails \/ GetBaseFails \/ init_raw_external_data_fails
           \/ parse_ref_cnt_table_fails \/ parse_l1_table_fails
  BY <1>4, <1>5, ImageFails, HeaderFails, BackingFails, ExtensionFails, BaseFails, ExternalFails,
     TablesFail
<1>6. CASE Start \/ Close \/ init_qcow_img \/ GetBase
  <2>1. pc' \in {"image", "idle", "header", "external"}
    BY <1>6 DEF Start, Close, init_qcow_img, GetBase, At
  <2> QED
    BY <2>1 DEF Followed
<1>7. CASE init_raw_external_data \/ dump_qcow_header_extension \/ ChooseClustersFile
  <2>1. pc' \in {"external", "fields", "idle"}
    BY <1>7 DEF init_raw_external_data, dump_qcow_header_extension, ChooseClustersFile, At,
       FailAsItIs
  <2> QED
    BY <2>1 DEF Followed
<1>8. CASE CopyFields \/ parse_ref_cnt_table \/ parse_l1_table \/ recompute_ref_cnt
  <2>1. pc' \notin {"extension", "base"}
    BY <1>8 DEF CopyFields, parse_ref_cnt_table, parse_l1_table, recompute_ref_cnt, FailAsItIs,
       FailAfterDeinit
  <2> QED
    BY <2>1 DEF Followed
<1> QED
  BY <1>1, <1>2, <1>3, <1>5, <1>6, <1>7, <1>8 DEF Next, init_qcow

(* The extensions that are kept are those that an image of version 3 was   *)
(* written with, in order, whatever their number, types and lengths: no    *)
(* padding is taken for an extension, and none is passed over.             *)
THEOREM ExtensionsTheorem == Spec => []ExtensionsFound
<1>1. Followed => ExtensionsFound
  BY DEF Followed, ExtensionsFound, At
<1> QED
  BY <1>1, InitOpen, OpenStep, InitFollowed, FollowedStep, PTL DEF Spec

=============================================================================
