------------------------------ MODULE QcowImage ------------------------------
(***************************************************************************)
(* The qcow2 image of qcow-parser/qcow_parser.h: the image file, the       *)
(* tables that init_qcow loads in memory, and the path of qwrite from the  *)
(* guest address to the last write of the file, one action per write that  *)
(* reaches the file.                                                       *)
(*                                                                         *)
(* The file is a stdio stream.  write_at, read_at, zero_out_at and fsize   *)
(* begin with fseek, which flushes what the last fwrite left in the        *)
(* buffer; a flush that fails drops it, in the call that comes next.  So   *)
(* pc names the write that is made or still in the buffer, the action of   *)
(* its name is the moment it reaches the file, and its failure does what   *)
(* the code does where the failure shows: after the changes that it makes  *)
(* in memory between the fwrite and the next fseek.  The last write of an  *)
(* iteration has no fseek behind it and may stay in the buffer for long:   *)
(* this is late.                                                           *)
(*                                                                         *)
(* Everything is counted in 8-byte words, the size of an L1, L2 or         *)
(* refcount table entry.  Refcounts are 64 bits wide (refcount_order 6),   *)
(* clusters are neither compressed nor split in subclusters, and there is  *)
(* no backing file and no external data file.                              *)
(***************************************************************************)
EXTENDS Integers

CONSTANTS
  ClusterSize,    \* words of a cluster, and so entries of an L2 table or refcount block
  Sector,         \* words of the 512 bytes that bits 9..55 of an entry address
  L1Size,         \* entries of the L1 table
  RefTableSize,   \* entries of the refcount table
  L1Off, RefTableOff,   \* where these two tables are in the file
  Images,         \* the files a first init_qcow may find
  Requests,       \* the (off, len) pairs qwrite is called with
  FaultPoints,    \* where the library or the file system may fail
  NoTable,        \* the NULL of a table that is not allocated
  MaxCalls, MaxFaults, MaxOpens, MaxCrashes   \* bounds on what the environment does

(* The writes of zeros, of L1 and L2 entries, of data and of refcount       *)
(* table entries; the reads of table entries; calloc; and the flush of the *)
(* word that an iteration left in the buffer.                              *)
Points == {"extend", "table", "data", "ref", "read", "calloc", "flush"}

Word == [n : Nat, copied : BOOLEAN]
Zero == [n |-> 0, copied |-> FALSE]

Slots == 0 .. ClusterSize - 1
L1Index == 0 .. L1Size - 1
RefIndex == 0 .. RefTableSize - 1
GuestWords == L1Size * ClusterSize * ClusterSize
Guest == 0 .. GuestWords - 1
Table == [Slots -> Word]

ASSUME SizesAssumption ==
  /\ ClusterSize \in Nat \ {0} /\ Sector \in Nat \ {0}
  /\ ClusterSize % Sector = 0
  /\ L1Size \in Nat \ {0} /\ RefTableSize \in Nat \ {0}
  /\ L1Off \in Nat \ {0} /\ RefTableOff \in Nat \ {0}

Disjoint(a, m, b, n) == a + m <= b \/ b + n <= a

ASSUME LayoutAssumption ==
  /\ ClusterSize <= L1Off /\ ClusterSize <= RefTableOff
  /\ Disjoint(L1Off, L1Size, RefTableOff, RefTableSize)

ASSUME EnvironmentAssumption ==
  /\ Requests \subseteq [off : Nat, len : Nat \ {0}]
  /\ FaultPoints \subseteq Points
  /\ NoTable \notin Table
  /\ MaxCalls \in Nat /\ MaxFaults \in Nat /\ MaxOpens \in Nat /\ MaxCrashes \in Nat

ASSUME ImagesAssumption ==
  \A img \in Images :
    /\ img.eof \in Nat
    /\ img.disk \in [0 .. img.eof - 1 -> Word]
    /\ L1Off + L1Size <= img.eof
    /\ RefTableOff + RefTableSize <= img.eof

VARIABLES
  disk, eof,      \* the image file as its stream has it: its words and its size
  late,           \* the refcount still in the buffer, and what the file has there
  handle,         \* "open" between init_qcow and deinit_qcow
  base,           \* img_file_base, the file size init_qcow saw
  l1, rt,         \* l1_table and refcount_table of the context
  pc,             \* the write qwrite is about to do
  req, done,      \* its arguments and bytes_written
  entry, pos,     \* img_offset, and the l2 table or refcount block being linked
  result,         \* what the last call returned
  calls, faults, opens, crashes,   \* how much of each bound is used
  allowed,        \* ghost: what a guest word may hold
  erred,          \* ghost: a call on this handle returned an error
  unseen,         \* ghost: what failed writes lost on this handle without an error
  stray,          \* ghost: entries in memory of clusters that the file did not get
  retried,        \* ghost: such a cluster was written to once more
  uncounted       \* ghost: clusters whose refcount a kill lost in the buffer

file == <<disk, eof>>
context == <<handle, base, l1, rt>>
frame == <<req, done, entry, pos>>
counters == <<calls, faults, opens, crashes>>
ghosts == <<allowed, erred, unseen, stray, retried, uncounted>>
marks == <<unseen, stray, retried, uncounted>>
vars == <<disk, eof, late, handle, base, l1, rt, pc, req, done, entry, pos, result,
          calls, faults, opens, crashes, allowed, erred, unseen, stray, retried, uncounted>>

-----------------------------------------------------------------------------
(* Addresses.  What is below a sector in the address of an entry stands    *)
(* for its bits 0..8: bit 0 is the zero flag of an L2 entry, the others    *)
(* are reserved.                                                           *)

Larger(a, b) == IF a >= b THEN a ELSE b
Smaller(a, b) == IF a <= b THEN a ELSE b

Mask(n) == n - (n % Sector)
LowBits(n) == n % Sector

ClusterOf(g) == g \div ClusterSize
L1Of(g) == ClusterOf(g) \div ClusterSize
L2Of(g) == ClusterOf(g) % ClusterSize
Index(g) == <<L1Of(g), L2Of(g)>>

(* The file as fread and fwrite see it: a hole reads as zeros.             *)
At(a) == IF a \in 0 .. eof - 1 THEN disk[a] ELSE Zero

PutWord(a, w) ==
  /\ eof' = Larger(eof, a + 1)
  /\ disk' = [x \in 0 .. Larger(eof, a + 1) - 1 |-> IF x = a THEN w ELSE At(x)]

ZeroTo(end) ==
  /\ eof' = end
  /\ disk' = [x \in 0 .. end - 1 |-> At(x)]

(* An empty buffer, and what a word that is lost in it leaves.             *)
Flushed == [at |-> 0, was |-> Zero, size |-> 0, of |-> <<0, 0>>]
Buffered == late # Flushed
Lose ==
  /\ Buffered
  /\ eof' = late.size
  /\ disk' = [x \in 0 .. late.size - 1 |-> IF x = late.at THEN late.was ELSE At(x)]

(* A distinct word for every call and every place of its buffer.           *)
Payload(c, k) == [n |-> c * GuestWords + k, copied |-> FALSE]

-----------------------------------------------------------------------------
(* The two tables on the file.                                             *)

L1Entry(i) == At(L1Off + i)
RefEntry(j) == At(RefTableOff + j)
L2Table(i) == Mask(L1Entry(i).n)
RefBlock(j) == Mask(RefEntry(j).n)
L2Entry(i, k) == IF L2Table(i) = 0 THEN Zero ELSE At(L2Table(i) + k)
RefCountOnDisk(j, k) == IF RefBlock(j) = 0 THEN Zero ELSE At(RefBlock(j) + k)

Readable(e) == e.n % ClusterSize = 0 /\ LowBits(e.n) = 0 /\ e.n + ClusterSize <= eof

Parsable ==
  /\ \A j \in RefIndex : RefEntry(j).n = 0 \/ Readable(RefEntry(j))
  /\ \A i \in L1Index : L2Table(i) = 0 \/ Readable(L1Entry(i))

LoadedL1 == [i \in L1Index |->
  IF L2Table(i) = 0 THEN NoTable ELSE [k \in Slots |-> At(L2Table(i) + k)]]
LoadedRefs == [j \in RefIndex |->
  IF RefEntry(j).n = 0 THEN NoTable ELSE [k \in Slots |-> At(RefEntry(j).n + k)]]

-----------------------------------------------------------------------------
(* The two lookups of a guest address in memory.                           *)

RefInRange(g) == L1Of(g) \in RefIndex

RefCount(g) == IF rt[L1Of(g)] = NoTable THEN 0 ELSE rt[L1Of(g)][L2Of(g)].n

Mapped(g) == l1[L1Of(g)][L2Of(g)]

Lba(g) ==
  IF L1Of(g) \notin L1Index THEN "invalid_offset"
  ELSE IF l1[L1Of(g)] = NoTable THEN "unallocated_l1_table"
  ELSE IF Mapped(g).n = 0 THEN "unallocated_cluster"
  ELSE IF Mask(Mapped(g).n) = 0 /\ Mapped(g).copied THEN "invalid_offset"
  ELSE IF LowBits(Mapped(g).n) > 1 THEN "use_of_reserved_field"
  ELSE IF Mask(Mapped(g).n) % ClusterSize # 0 THEN "unaligned_cluster"
  ELSE "no_error"

(* qread of one word: its status, and the word when there is no error.     *)
ReadStatus(g) ==
  IF ~RefInRange(g) THEN "invalid_offset"
  ELSE IF RefCount(g) = 0 \/ Lba(g) = "unallocated_cluster" THEN "zeros"
  ELSE IF Lba(g) # "no_error" THEN Lba(g)
  ELSE IF LowBits(Mapped(g).n) # 0 THEN "use_of_reserved_field"
  ELSE IF Mapped(g).n + (g % ClusterSize) >= eof THEN "io_error"
  ELSE "no_error"

ReadWord(g) ==
  IF ReadStatus(g) = "zeros" THEN Zero ELSE At(Mapped(g).n + (g % ClusterSize))

(* What the tables of the file say a guest word holds.                     *)
DiskWord(g) ==
  LET e == L2Entry(L1Of(g), L2Of(g))
  IN IF Mask(e.n) = 0 THEN Zero ELSE At(Mask(e.n) + (g % ClusterSize))

-----------------------------------------------------------------------------
(* init_qcow and deinit_qcow.                                              *)

EmptyFrame == /\ pc' = "idle"
              /\ done' = 0
              /\ entry' = Zero
              /\ pos' = 0

Release ==
  /\ handle' = "closed"
  /\ base' = 0
  /\ l1' = [i \in L1Index |-> NoTable]
  /\ rt' = [j \in RefIndex |-> NoTable]
  /\ late' = Flushed
  /\ stray' = {}

Open ==
  /\ handle = "closed"
  /\ opens < MaxOpens
  /\ opens' = opens + 1
  /\ Parsable
  /\ handle' = "open"
  /\ base' = eof
  /\ l1' = LoadedL1
  /\ rt' = LoadedRefs
  /\ result' = "no_error"
  /\ erred' = FALSE
  /\ unseen' = {}
  /\ UNCHANGED <<file, late, pc, frame, calls, faults, crashes, allowed, stray, retried, uncounted>>

OpenFails ==
  /\ handle = "closed"
  /\ opens < MaxOpens
  /\ opens' = opens + 1
  /\ ~Parsable
  /\ result' = "io_error"
  /\ UNCHANGED <<file, late, context, pc, frame, calls, faults, crashes, ghosts>>

Close ==
  /\ handle = "open"
  /\ pc = "idle"
  /\ Release
  /\ UNCHANGED <<file, pc, frame, result, counters, allowed, erred, unseen, retried, uncounted>>

-----------------------------------------------------------------------------
(* qwrite: the frame, and the ways out of it.                              *)

Off == req.off + done
(* Variant: writable_bytes ignores where in its cluster the write starts.  *)
ChunkOfWholeCluster == Smaller(req.len - done, ClusterSize)

Chunk == Smaller(req.len - done, ClusterSize - (Off % ClusterSize))

Written(g) == g >= req.off /\ g < req.off + req.len

StartWrite ==
  /\ handle = "open"
  /\ pc = "idle"
  /\ calls < MaxCalls
  /\ calls' = calls + 1
  /\ \E r \in Requests :
       /\ req' = r
       /\ allowed' = [g \in Guest |->
            IF g >= r.off /\ g < r.off + r.len
            THEN allowed[g] \cup {Payload(calls + 1, g - r.off)} ELSE allowed[g]]
  /\ done' = 0
  /\ pc' = "lookup"
  /\ UNCHANGED <<file, late, context, entry, pos, result, faults, opens, crashes, erred, marks>>

ReturnOk ==
  /\ EmptyFrame
  /\ result' = "no_error"
  /\ allowed' = [g \in Guest |->
       IF Written(g) THEN {Payload(calls, g - req.off)} ELSE allowed[g]]
  /\ UNCHANGED erred

ReturnError(err) ==
  /\ EmptyFrame
  /\ result' = err
  /\ erred' = TRUE
  /\ UNCHANGED allowed

(* Variant: the loop of qwrite goes round once more when all is written.   *)
NextClusterOneTooMany ==
  /\ pc' = "lookup"
  /\ done' = done + Chunk
  /\ entry' = Zero
  /\ pos' = 0
  /\ UNCHANGED <<result, allowed, erred>>

(* Variant: bytes_written and offset do not move.                          *)
NextClusterStuck ==
  \/ /\ done + Chunk = req.len
     /\ ReturnOk
  \/ /\ done + Chunk < req.len
     /\ pc' = "lookup"
     /\ entry' = Zero
     /\ pos' = 0
     /\ UNCHANGED <<done, result, allowed, erred>>

(* The end of an iteration.  The result of update_ref_cnt is not looked at. *)
NextCluster ==
  \/ /\ done + Chunk = req.len
     /\ ReturnOk
  \/ /\ done + Chunk < req.len
     /\ pc' = "lookup"
     /\ done' = done + Chunk
     /\ entry' = Zero
     /\ pos' = 0
     /\ UNCHANGED <<result, allowed, erred>>

Continue(step) == pc' = step /\ UNCHANGED <<done, result, allowed, erred>>

-----------------------------------------------------------------------------
(* get_lba_img_offset_for_write: what the two tables in memory say.        *)

LookupFails ==
  /\ pc = "lookup"
  /\ \/ /\ ~RefInRange(Off)
        /\ ReturnError("invalid_offset")
     \/ /\ RefInRange(Off)
        /\ Lba(Off) \notin {"no_error", "unallocated_cluster"}
        /\ ~(RefCount(Off) = 0 /\ Lba(Off) = "unallocated_l1_table")
        /\ ReturnError(Lba(Off))
  /\ UNCHANGED <<file, late, context, req, counters, marks>>

LookupUnallocated ==
  /\ pc = "lookup"
  /\ RefInRange(Off)
  /\ \/ Lba(Off) = "unallocated_cluster"
     \/ RefCount(Off) = 0 /\ Lba(Off) = "unallocated_l1_table"
  /\ Continue("extend_data")
  /\ UNCHANGED <<file, late, context, req, entry, pos, counters, marks>>

(* The cluster found is used: one that only memory maps may be another's.  *)
UseMapped ==
  /\ retried' = (retried \/ Index(Off) \in stray)
  /\ UNCHANGED <<unseen, stray, uncounted>>

(* alloc_cluster on a mapped cluster without a reference.                  *)
LookupUnreferenced ==
  /\ pc = "lookup"
  /\ RefInRange(Off)
  /\ RefCount(Off) = 0 /\ Lba(Off) = "no_error"
  /\ entry' = [n |-> Mask(Mapped(Off).n), copied |-> TRUE]
  /\ Continue("set_entry")
  /\ UseMapped
  /\ UNCHANGED <<file, late, context, req, pos, counters>>

LookupInPlace ==
  /\ pc = "lookup"
  /\ RefInRange(Off)
  /\ RefCount(Off) = 1 /\ Lba(Off) = "no_error"
  /\ \/ /\ LowBits(Mapped(Off).n) = 0
        /\ entry' = Mapped(Off)
        /\ pos' = 0
        /\ Continue("write_data")
        /\ UseMapped
     \/ /\ LowBits(Mapped(Off).n) # 0
        /\ ReturnError("use_of_reserved_field")
        /\ UNCHANGED marks
  /\ UNCHANGED <<file, late, context, req, counters>>

(* cow_alloc_cluster passes extend_img_file the boundary                   *)
(* cluster_size * IS_COMPRESSED_CLUSTER, which is 0, and the remainder it  *)
(* takes after fsize, before the test of boundary, ends the process.       *)
IsShared == RefInRange(Off) /\ RefCount(Off) > 1 /\ Lba(Off) = "no_error"

LookupShared ==
  /\ pc = "lookup"
  /\ IsShared
  /\ Release
  /\ EmptyFrame
  /\ result' = "killed"
  /\ UNCHANGED <<file, req, counters, allowed, erred, unseen, retried, uncounted>>

-----------------------------------------------------------------------------
(* The writes of qwrite, each with its next step when it succeeds.         *)

(* Variant: extend_img_file without its padding to the boundary.           *)
ExtendedEofUnpadded == eof + ClusterSize

(* extend_img_file(file, cluster_size, base, cluster_size): the new size,  *)
(* which is also the position it returns.                                  *)
ExtendedEof ==
  LET over == (eof - base) % ClusterSize
  IN eof + (IF over = 0 THEN 0 ELSE ClusterSize - over) + ClusterSize

(* Variant: the file grows only when the cluster is written.               *)
ExtendDataLazily ==
  /\ pc = "extend_data"
  /\ entry' = [n |-> Mask(ExtendedEof), copied |-> TRUE]
  /\ Continue("set_entry")
  /\ late' = Flushed
  /\ UNCHANGED <<file, context, req, pos, counters, marks>>

ExtendData ==
  /\ pc = "extend_data"
  /\ ZeroTo(ExtendedEof)
  /\ entry' = [n |-> Mask(ExtendedEof), copied |-> TRUE]
  /\ Continue("set_entry")
  /\ late' = Flushed
  /\ UNCHANGED <<context, req, pos, counters, marks>>

(* set_lba_at_img_offset: memory first, then the L2 entry of the file.     *)
(* Variant: the L2 entry changes on the file only.                         *)
PutMappingOnFileOnly == UNCHANGED l1

PutMapping == l1' = [l1 EXCEPT ![L1Of(Off)] = [@ EXCEPT ![L2Of(Off)] = entry]]

SetEntry ==
  /\ pc = "set_entry"
  /\ l1[L1Of(Off)] # NoTable
  /\ PutMapping
  /\ PutWord(L2Table(L1Of(Off)) + L2Of(Off), entry)
  /\ Continue("write_data")
  /\ late' = Flushed
  /\ UNCHANGED <<handle, base, rt, req, entry, pos, counters, marks>>

(* allocate_l2_table, in two writes.                                       *)
ExtendL2 ==
  /\ pc = "set_entry"
  /\ l1[L1Of(Off)] = NoTable
  /\ ZeroTo(ExtendedEof)
  /\ pos' = Mask(ExtendedEof)
  /\ Continue("link_l2")
  /\ late' = Flushed
  /\ UNCHANGED <<context, req, entry, counters, marks>>

(* Variant: the table linked in the file is not allocated in memory.       *)
LinkL2OnFileOnly ==
  /\ pc = "link_l2"
  /\ PutWord(L1Off + L1Of(Off), [n |-> pos, copied |-> FALSE])
  /\ pos' = 0
  /\ Continue("set_entry")
  /\ late' = Flushed
  /\ UNCHANGED <<context, req, entry, counters, marks>>

LinkL2 ==
  /\ pc = "link_l2"
  /\ PutWord(L1Off + L1Of(Off), [n |-> pos, copied |-> FALSE])
  /\ l1' = [l1 EXCEPT ![L1Of(Off)] = [k \in Slots |-> Zero]]
  /\ pos' = 0
  /\ Continue("set_entry")
  /\ late' = Flushed
  /\ UNCHANGED <<handle, base, rt, req, entry, counters, marks>>

(* Variant: every cluster gets the start of the buffer.                    *)
PutDataFromStart(m) ==
  LET at == Mask(entry.n) + (Off % ClusterSize)
      end == IF m = 0 THEN eof ELSE Larger(eof, at + m)
  IN /\ eof' = end
     /\ disk' = [x \in 0 .. end - 1 |->
          IF x >= at /\ x < at + m THEN Payload(calls, x - at) ELSE At(x)]

PutData(m) ==
  LET at == Mask(entry.n) + (Off % ClusterSize)
      end == IF m = 0 THEN eof ELSE Larger(eof, at + m)
  IN /\ eof' = end
     /\ disk' = [x \in 0 .. end - 1 |->
          IF x >= at /\ x < at + m THEN Payload(calls, done + (x - at)) ELSE At(x)]

WriteData ==
  /\ pc = "write_data"
  /\ PutData(Chunk)
  /\ Continue("update_ref")
  /\ late' = Flushed
  /\ UNCHANGED <<context, req, entry, pos, counters, marks>>

(* update_ref_cnt: memory first, then the refcount of the file, whose      *)
(* block is used only if the low bits of its address are zero.  The word   *)
(* stays in the buffer until the next fseek, which may be that of another  *)
(* call, or fclose.                                                        *)
One == [n |-> 1, copied |-> FALSE]
(* Variant: the refcount changes on the file only.                         *)
PutRefCountOnFileOnly == UNCHANGED rt

PutRefCount == rt' = [rt EXCEPT ![L1Of(Off)] = [@ EXCEPT ![L2Of(Off)] = One]]

UpdateRef ==
  /\ pc = "update_ref"
  /\ rt[L1Of(Off)] # NoTable
  /\ PutRefCount
  /\ \/ /\ LowBits(RefEntry(L1Of(Off)).n) = 0
        /\ PutWord(RefEntry(L1Of(Off)).n + L2Of(Off), One)
        /\ late' = [at |-> RefEntry(L1Of(Off)).n + L2Of(Off),
                    was |-> At(RefEntry(L1Of(Off)).n + L2Of(Off)),
                    size |-> eof, of |-> Index(Off)]
     \/ /\ LowBits(RefEntry(L1Of(Off)).n) # 0
        /\ late' = Flushed
        /\ UNCHANGED file
  /\ NextCluster
  /\ uncounted' = uncounted \ {Index(Off)}
  /\ UNCHANGED <<handle, base, l1, req, counters, unseen, stray, retried>>

(* allocate_ref_cnt_table, in two writes.                                  *)
ExtendRef ==
  /\ pc = "update_ref"
  /\ rt[L1Of(Off)] = NoTable
  /\ ZeroTo(ExtendedEof)
  /\ pos' = ExtendedEof
  /\ Continue("link_ref")
  /\ late' = Flushed
  /\ UNCHANGED <<context, req, entry, counters, marks>>

LinkRef ==
  /\ pc = "link_ref"
  /\ PutWord(RefTableOff + L1Of(Off), [n |-> pos, copied |-> FALSE])
  /\ rt' = [rt EXCEPT ![L1Of(Off)] = [k \in Slots |-> Zero]]
  /\ pos' = 0
  /\ Continue("update_ref")
  /\ late' = Flushed
  /\ UNCHANGED <<handle, base, l1, req, entry, counters, marks>>

-----------------------------------------------------------------------------
(* The same writes when they fail.                                         *)

CanFail(point) ==
  /\ point \in FaultPoints
  /\ faults < MaxFaults
  /\ faults' = faults + 1

(* zero_out_at goes byte by byte, and the file keeps what reached it.      *)
PartOfZeros == \E end \in eof .. ExtendedEof - 1 : ZeroTo(end)

ExtendFails ==
  /\ \/ pc = "extend_data"
     \/ pc = "set_entry" /\ l1[L1Of(Off)] = NoTable
  /\ CanFail("extend")
  /\ PartOfZeros
  /\ ReturnError("io_error")
  /\ late' = Flushed
  /\ UNCHANGED <<context, req, calls, opens, crashes, marks>>

(* Zeros that fit in the buffer fail in the fseek of set_lba_at_img_offset,*)
(* which has put the entry of the cluster in memory before.                *)
ExtendFailsMapped ==
  /\ pc = "extend_data"
  /\ l1[L1Of(Off)] # NoTable
  /\ CanFail("extend")
  /\ PartOfZeros
  /\ l1' = [l1 EXCEPT ![L1Of(Off)] =
             [@ EXCEPT ![L2Of(Off)] = [n |-> Mask(ExtendedEof), copied |-> TRUE]]]
  /\ stray' = stray \cup {Index(Off)}
  /\ ReturnError("io_error")
  /\ late' = Flushed
  /\ UNCHANGED <<handle, base, rt, req, calls, opens, crashes, unseen, retried, uncounted>>

(* Variant: the result of set_lba_at_img_offset is not looked at.          *)
ReadLinkFailsUnseen ==
  /\ pc = "set_entry"
  /\ l1[L1Of(Off)] # NoTable
  /\ CanFail("read")
  /\ PutMapping
  /\ Continue("write_data")
  /\ late' = Flushed
  /\ UNCHANGED <<file, handle, base, rt, req, entry, pos, calls, opens, crashes, marks>>

(* set_lba_at_img_offset cannot read where the L2 table is.                *)
ReadLinkFails ==
  /\ pc = "set_entry"
  /\ l1[L1Of(Off)] # NoTable
  /\ CanFail("read")
  /\ PutMapping
  /\ ReturnError("io_error")
  /\ late' = Flushed
  /\ UNCHANGED <<file, handle, base, rt, req, calls, opens, crashes, marks>>

(* The L2 entry is lost in the fseek of the write of the data, whose       *)
(* result is not looked at: the data is not written either.                *)
SetEntryFails ==
  /\ pc = "set_entry"
  /\ l1[L1Of(Off)] # NoTable
  /\ CanFail("table")
  /\ PutMapping
  /\ Continue("update_ref")
  /\ late' = Flushed
  /\ unseen' = unseen \cup {"entry", "data"}
  /\ UNCHANGED <<file, handle, base, rt, req, entry, pos, calls, opens, crashes,
                 stray, retried, uncounted>>

(* The L1 entry is lost in the fseek of set_lba_at_img_offset, after the   *)
(* new table has its entry in memory; or it is in the buffer when calloc   *)
(* fails, and lost or not before anybody reads it.                         *)
LinkL2Fails ==
  /\ pc = "link_l2"
  /\ \/ /\ CanFail("table")
        /\ l1' = [l1 EXCEPT ![L1Of(Off)] = [[k \in Slots |-> Zero] EXCEPT ![L2Of(Off)] = entry]]
        /\ UNCHANGED file
     \/ /\ CanFail("calloc")
        /\ UNCHANGED l1
        /\ PutWord(L1Off + L1Of(Off), [n |-> pos, copied |-> FALSE]) \/ UNCHANGED file
  /\ ReturnError("io_error")
  /\ late' = Flushed
  /\ UNCHANGED <<handle, base, rt, req, calls, opens, crashes, marks>>

PartOfData == \E m \in 0 .. Chunk - 1 : PutData(m)

(* The result of this write_at is not looked at.                           *)
WriteDataFails ==
  /\ pc = "write_data"
  /\ CanFail("data")
  /\ PartOfData
  /\ Continue("update_ref")
  /\ late' = Flushed
  /\ unseen' = unseen \cup {"data"}
  /\ UNCHANGED <<context, req, entry, pos, calls, opens, crashes, stray, retried, uncounted>>

(* Data that fits in the buffer is lost in the first fseek of              *)
(* update_ref_cnt, whose result is not looked at.                          *)
FlushDataFails ==
  /\ pc = "write_data"
  /\ CanFail("data")
  /\ PartOfData
  /\ IF rt[L1Of(Off)] = NoTable THEN UNCHANGED rt ELSE PutRefCount
  /\ NextCluster
  /\ late' = Flushed
  /\ unseen' = unseen \cup {"data"}
  /\ UNCHANGED <<handle, base, l1, req, calls, opens, crashes, stray, retried, uncounted>>

ExtendRefFails ==
  /\ pc = "update_ref"
  /\ rt[L1Of(Off)] = NoTable
  /\ CanFail("ref")
  /\ PartOfZeros
  /\ NextCluster
  /\ late' = Flushed
  /\ UNCHANGED <<context, req, calls, opens, crashes, marks>>

(* The entry of the refcount table is lost in the first fseek after the    *)
(* new block has its refcount in memory, or with calloc as in LinkL2Fails. *)
LinkRefFails ==
  /\ pc = "link_ref"
  /\ \/ /\ CanFail("ref")
        /\ rt' = [rt EXCEPT ![L1Of(Off)] = [[k \in Slots |-> Zero] EXCEPT ![L2Of(Off)] = One]]
        /\ UNCHANGED file
     \/ /\ CanFail("calloc")
        /\ UNCHANGED rt
        /\ PutWord(RefTableOff + L1Of(Off), [n |-> pos, copied |-> FALSE]) \/ UNCHANGED file
  /\ NextCluster
  /\ late' = Flushed
  /\ UNCHANGED <<handle, base, l1, req, calls, opens, crashes, marks>>

UpdateRefFails ==
  /\ pc = "update_ref"
  /\ rt[L1Of(Off)] # NoTable
  /\ CanFail("read")
  /\ PutRefCount
  /\ NextCluster
  /\ late' = Flushed
  /\ UNCHANGED <<file, handle, base, l1, req, calls, opens, crashes, marks>>

(* The refcount in the buffer is lost in the first fseek of what comes     *)
(* next: the fsize of an extension or of a copy, the read of the L1 entry, *)
(* the unchecked write of the data, or the read of a qread between calls.  *)
FlushFails ==
  /\ handle = "open"
  /\ CanFail("flush")
  /\ Lose
  /\ late' = Flushed
  /\ \/ /\ \/ pc = "extend_data"
           \/ pc = "lookup" /\ IsShared
           \/ pc = "idle" /\ \E g \in Guest : ReadStatus(g) = "no_error"
        /\ ReturnError("io_error")
        /\ UNCHANGED <<context, unseen>>
     \/ /\ pc = "set_entry"
        /\ l1[L1Of(Off)] # NoTable
        /\ PutMapping
        /\ ReturnError("io_error")
        /\ UNCHANGED <<handle, base, rt, unseen>>
     \/ /\ pc = "write_data"
        /\ Continue("update_ref")
        /\ unseen' = unseen \cup {"data"}
        /\ UNCHANGED <<context, entry, pos>>
  /\ UNCHANGED <<req, calls, opens, crashes, stray, retried, uncounted>>

(* fclose cannot write the refcount, and deinit_qcow does not look.        *)
CloseFails ==
  /\ handle = "open"
  /\ pc = "idle"
  /\ CanFail("flush")
  /\ Lose
  /\ Release
  /\ UNCHANGED <<pc, frame, result, calls, opens, crashes, allowed, erred, unseen, retried, uncounted>>

(* The process is killed, between two calls or within one.  The refcount   *)
(* in the buffer is lost, unless the call on its way or a qread had flushed*)
(* it; of zeros and of data a part may have reached the file.              *)
KilledFile ==
  \/ UNCHANGED file
  \/ /\ \/ pc = "extend_data"
        \/ pc = "set_entry" /\ l1[L1Of(Off)] = NoTable
        \/ pc = "update_ref" /\ rt[L1Of(Off)] = NoTable
     /\ \E end \in eof .. ExtendedEof : ZeroTo(end)
  \/ pc = "write_data" /\ \E m \in 1 .. Chunk : PutData(m)

Crash ==
  /\ handle = "open"
  /\ crashes < MaxCrashes
  /\ crashes' = crashes + 1
  /\ \/ Lose /\ uncounted' = uncounted \cup {late.of}
     \/ KilledFile /\ UNCHANGED uncounted
  /\ Release
  /\ EmptyFrame
  /\ result' = "killed"
  /\ UNCHANGED <<req, calls, faults, opens, allowed, erred, unseen, retried>>

-----------------------------------------------------------------------------
(* What the tables of the file own: an L2 table per L1 entry, a block per  *)
(* refcount table entry, a data cluster per L2 entry.                      *)
Owners == ({"l2"} \X L1Index \X {0}) \cup ({"ref"} \X RefIndex \X {0})
          \cup ({"data"} \X L1Index \X Slots)
Place(o) == IF o[1] = "l2" THEN L2Table(o[2])
            ELSE IF o[1] = "ref" THEN RefBlock(o[2])
            ELSE Mask(L2Entry(o[2], o[3]).n)
Live == {o \in Owners : Place(o) # 0}

(* What an image is before the first init_qcow: its clusters do not        *)
(* overlap and begin within the file.                                      *)
Apart ==
  /\ \A o, p \in Live : o # p => Disjoint(Place(o), ClusterSize, Place(p), ClusterSize)
  /\ \A o \in Live :
       /\ Disjoint(Place(o), ClusterSize, 0, ClusterSize)
       /\ Disjoint(Place(o), ClusterSize, L1Off, L1Size)
       /\ Disjoint(Place(o), ClusterSize, RefTableOff, RefTableSize)

SoundImage == Apart /\ \A o \in Live : Place(o) <= eof

Init ==
  /\ \E img \in Images : disk = img.disk /\ eof = img.eof
  /\ SoundImage
  /\ handle = "closed"
  /\ base = 0
  /\ l1 = [i \in L1Index |-> NoTable]
  /\ rt = [j \in RefIndex |-> NoTable]
  /\ pc = "idle"
  /\ req = [off |-> 0, len |-> 1]
  /\ done = 0
  /\ entry = Zero
  /\ pos = 0
  /\ result = "no_error"
  /\ calls = 0
  /\ faults = 0
  /\ opens = 0
  /\ crashes = 0
  /\ allowed = [g \in Guest |-> {DiskWord(g)}]
  /\ erred = FALSE
  /\ late = Flushed
  /\ unseen = {}
  /\ stray = {}
  /\ retried = FALSE
  /\ uncounted = {}

Lookup == LookupFails \/ LookupUnallocated \/ LookupUnreferenced \/ LookupInPlace
          \/ LookupShared
Step == Lookup \/ ExtendData \/ SetEntry \/ ExtendL2 \/ LinkL2 \/ WriteData
        \/ UpdateRef \/ ExtendRef \/ LinkRef
Failure == ExtendFails \/ ExtendFailsMapped \/ ReadLinkFails \/ SetEntryFails \/ LinkL2Fails
           \/ WriteDataFails \/ FlushDataFails \/ ExtendRefFails \/ LinkRefFails
           \/ UpdateRefFails \/ FlushFails \/ CloseFails

Next == Open \/ OpenFails \/ Close \/ StartWrite \/ Step \/ Failure \/ Crash

Spec == Init /\ [][Next]_vars

(* qwrite runs in the thread of its caller and waits for nobody.           *)
FairSpec == Spec /\ WF_vars(Step)

-----------------------------------------------------------------------------
(* Properties.                                                             *)

ReadStatuses == {"no_error", "zeros", "io_error", "invalid_offset", "unallocated_l1_table",
                 "unallocated_cluster", "use_of_reserved_field", "unaligned_cluster"}

(* Every variable holds a value of its C type: the tables of the context   *)
(* are NULL or whole, the file has a word at each of its places, and       *)
(* qwrite is at one of the writes it makes.                                *)
FileOK ==
  /\ eof \in Nat
  /\ disk \in [0 .. eof - 1 -> Word]

BufferOK ==
  /\ late \in [at : Nat, was : Word, size : Nat, of : Nat \X Nat]
  /\ Buffered => late.size <= eof

ContextOK ==
  /\ handle \in {"open", "closed"}
  /\ base \in Nat
  /\ l1 \in [L1Index -> Table \cup {NoTable}]
  /\ rt \in [RefIndex -> Table \cup {NoTable}]

FrameOK ==
  /\ pc \in {"idle", "lookup", "extend_data", "set_entry", "link_l2", "write_data",
             "update_ref", "link_ref"}
  /\ req \in [off : Nat, len : Nat \ {0}]
  /\ done \in 0 .. req.len - 1
  /\ entry \in Word
  /\ pos \in Nat

CallsOK ==
  /\ result \in ReadStatuses \cup {"killed"}
  /\ calls \in Nat /\ faults \in Nat /\ opens \in Nat /\ crashes \in Nat
  /\ allowed \in [Guest -> SUBSET Word]
  /\ erred \in BOOLEAN

MarksOK ==
  /\ unseen \subseteq {"entry", "data"}
  /\ retried \in BOOLEAN
  /\ stray \subseteq Nat \X Nat /\ uncounted \subseteq Nat \X Nat

TypeOK == FileOK /\ BufferOK /\ ContextOK /\ FrameOK /\ CallsOK /\ MarksOK

(* No two clusters that the tables of the file refer to share a word, and  *)
(* none shares a word with the header, the L1 table or the refcount table: *)
(* extend_img_file hands out no position twice, whatever was padded, left  *)
(* by a failed call, lost in the buffer or cut short by a crash before.    *)
(* But a data cluster whose zeros are lost keeps its entry in memory, its  *)
(* position is handed out again, and a second write to it on that handle   *)
(* links it: until somebody makes one.                                     *)
NoOverlap == ~retried => Apart

(* Between two calls, and until one returns an error, the L1 and L2 tables *)
(* of the context are those of the file: set_lba_at_img_offset updates     *)
(* both or says so, but for an entry that is lost in the write of the data,*)
(* whose result qwrite does not look at.                                   *)
TablesAgree ==
  \A i \in L1Index :
    /\ (l1[i] = NoTable) = (L2Table(i) = 0)
    /\ l1[i] # NoTable => \A k \in Slots : l1[i][k] = L2Entry(i, k)

MappingCoherent ==
  handle = "open" /\ pc = "idle" /\ ~erred /\ "entry" \notin unseen /\ ~retried => TablesAgree

(* Between two calls of a session that began on a file of whole sectors,   *)
(* the refcounts of the context are those of the file.  On another file    *)
(* the entry of a new refcount block has low bits, and update_ref_cnt then *)
(* counts in memory only: a data cluster that is the last of the file and  *)
(* not filled leaves such a file to the next session.                      *)
(* This, the next two and LinksAreFinal are about crashes and reopening    *)
(* and not about failing calls, of which LossIsReported and NoOverlap are. *)
RefCountsCoherent ==
  handle = "open" /\ pc = "idle" /\ faults = 0 /\ base % Sector = 0 =>
    \A j \in RefIndex :
      /\ (rt[j] = NoTable) = (RefEntry(j).n = 0)
      /\ rt[j] # NoTable => \A k \in Slots : rt[j][k] = RefCountOnDisk(j, k)

(* After every single write of the file, the words a guest was never asked *)
(* to change hold what they held, and the others what the last qwrite that *)
(* succeeded put there or what a later one tried to put.                   *)
DataOnDisk == \A g \in Guest : DiskWord(g) \in allowed[g]
DiskKeepsData == faults = 0 => DataOnDisk

(* A qread that reports no error returns only such words, and zeros for a  *)
(* cluster whose refcount was still in the buffer when the process was     *)
(* killed: qwrite may have returned long before.  It is counted again by   *)
(* the next write to it.                                                   *)
ReadsAllowed ==
  handle = "open" /\ pc = "idle" /\ faults = 0 =>
    \A g \in Guest : ReadStatus(g) \in {"no_error", "zeros"} =>
      \/ ReadWord(g) \in allowed[g]
      \/ ReadStatus(g) = "zeros" /\ Index(g) \in uncounted

(* The first session, on a file of whole clusters.  A later one may begin  *)
(* on a file that ends within a cluster, and extend_img_file then keeps to *)
(* multiples of the cluster size from there.                               *)
WholeSession == handle = "open" /\ opens = 1 /\ base % ClusterSize = 0

(* What a qwrite that reported no error wrote is read back without error.  *)
(* After a fault this is not so: qwrite reports no error when a refcount   *)
(* could not be put down, and the cluster then counts as not referenced.   *)
ReadBack ==
  WholeSession /\ pc = "idle" /\ ~erred /\ calls > 0 /\ faults = 0 =>
    \A g \in Guest : Written(g) => ReadStatus(g) = "no_error"

(* Whatever failed since it began, every table and cluster is on a cluster *)
(* boundary, as parsing and lba_to_img_offset require: the padding of      *)
(* extend_img_file repairs what an unfinished extension left.              *)
ClustersAligned ==
  WholeSession /\ ~retried => \A o \in Live : Place(o) % ClusterSize = 0

(* While no call of the first session returned an error, guest data is     *)
(* lost in one place only: the write_at of qwrite, and what is in the      *)
(* buffer or goes through it there.  A failing extension, link, read or    *)
(* allocation, a refcount that is not put down and a failing fclose lose   *)
(* no data or make a call fail.  (A later session may find lost what an    *)
(* earlier one reported, and wrote again in a cluster that only its memory *)
(* mapped.)                                                                *)
LossIsReported == ~erred /\ opens <= 1 /\ unseen = {} => DataOnDisk

(* A table or cluster, once linked in the file, stays where it is.         *)
LinksAreFinal ==
  [][faults = 0 => \A o \in Live : Place(o)' = Place(o)]_vars

(* qwrite comes back: its loop over the clusters ends, and so does the     *)
(* detour of each iteration through the tables it has to allocate.         *)
QwriteReturns == pc = "lookup" ~> pc = "idle"

-----------------------------------------------------------------------------
(* What a comment or a test of the repository says, and the code does not. *)

(* "The cluster offset can be zero only if an external raw data file is    *)
(* used": without one, no L2 entry of the file is marked so.               *)
ZeroOffsetNeedsErdf ==
  \A i \in L1Index, k \in Slots : L2Entry(i, k).copied => Mask(L2Entry(i, k).n) # 0

(* "Copy the data to the newly allocated clusters": a write to a cluster   *)
(* that is shared with a snapshot copies it and goes on.                   *)
SharedIsCopied == crashes = 0 => result # "killed"

(* The test writes back what it found and closes the image, to leave it as *)
(* it was: what a session without errors leaves can be opened again.       *)
ReopensAfterClose == handle = "closed" /\ ~erred /\ crashes = 0 => Parsable

(* "Failed to update the l2 entry" is logged and returned: the caller is   *)
(* told of every loss.                                                     *)
EveryLossReported == ~erred /\ opens <= 1 => DataOnDisk

(* What qwrite acknowledged is what the next session reads.                *)
AcknowledgedIsRead ==
  handle = "open" /\ pc = "idle" /\ faults = 0 =>
    \A g \in Guest : ReadStatus(g) \in {"no_error", "zeros"} => ReadWord(g) \in allowed[g]

=============================================================================
