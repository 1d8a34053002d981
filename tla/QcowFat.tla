------------------------------- MODULE QcowFat -------------------------------
(***************************************************************************)
(* A mounted FAT32 volume of qcow-qfs: the chains of clusters, the one     *)
(* cluster that fetch_next_cluster caches for all files and directories,   *)
(* the cursors of the open files and directories, and the state that long  *)
(* names keep from one entry to the next (qcow_fat.h, qcow_qfs.h).         *)
(*                                                                         *)
(* The unit is a slot of 32 bytes, the size of a directory entry.  What is *)
(* stored in slot k of cluster n is named by its place <<n, k>>.           *)
(***************************************************************************)
EXTENDS Integers, Sequences, FiniteSets

CONSTANTS
  Size,             \* slots of a cluster
  EndOfChain,       \* FAT_END_OF_CHAIN
  U32, U64,         \* one more than the largest u32 and u64
  Max,              \* max_valid_cluster
  Fat,              \* fat_tables[0], from cluster to cluster
  Chain,            \* for the first cluster of a file or directory, its clusters
  RootCluster,      \* root_cluster
  Entries,          \* the directory entries, by their place
  BeyondTable,      \* what memory may hold after the FAT table
  Files, Dirs,      \* the qfs_file_t and qfs_dir_t of the callers
  Opens,            \* which paths, as sequences of names, are opened with which
  ReadSizes, Seeks, \* what qfs_read and qfs_seek are asked for
  MaxCalls, MaxFaults, MaxMounts   \* bounds on what the environment does

BadCluster == EndOfChain - 1
RsvClusters == EndOfChain - 2
FreeCluster == 0

Slots == 0 .. Size - 1
Word == 0 .. U32 - 1
Place == (Word \cup {-1}) \X Slots
Node == [first : Word, size : Word, dir : BOOLEAN]
Whence == {"set", "cur", "end"}
Handles == Files \cup Dirs

ASSUME SizeAssumption ==
  /\ Size \in Nat \ {0}
  /\ EndOfChain \in Nat /\ EndOfChain < U32 /\ Max \in Nat /\ Max < RsvClusters
  /\ U32 \in Nat /\ U64 \in Nat /\ U64 > U32 + U32
  /\ ReadSizes \subseteq Nat /\ Seeks \subseteq (0 .. U64 - 1) \X Whence
  /\ Files \cap Dirs = {} /\ \A o \in Opens : o[1] \in Handles /\ o[2] \in Seq(STRING)

(* The chain of a file or directory is what the FAT links from its first   *)
(* cluster, up to an entry that is the number of no cluster.               *)
ASSUME VolumeAssumption ==
  /\ RootCluster \in DOMAIN Chain
  /\ Fat \in [DOMAIN Fat -> Word] /\ DOMAIN Fat \subseteq Word
  /\ BeyondTable \subseteq Word /\ BeyondTable # {}
  /\ \A f \in DOMAIN Chain :
       LET c == Chain[f]
       IN /\ c \in Seq(2 .. Max) /\ Len(c) > 0 /\ c[1] = f
          /\ \A i \in 1 .. Len(c) : c[i] \in DOMAIN Fat
          /\ \A i \in 1 .. Len(c) - 1 : Fat[c[i]] = c[i + 1]
          /\ Fat[c[Len(c)]] \notin 1 .. Max

(* An entry ends the directory, is deleted, is a part of a long name, or   *)
(* names a file or directory; names holds all that a lookup of it accepts. *)
(* An empty file, and ".." to the root, name the cluster 0, which has no   *)
(* chain.  A number that is not of the volume has entries too: its product *)
(* with the sectors of a cluster wraps to some sectors of the disk.        *)
ASSUME EntriesAssumption ==
  \A p \in DOMAIN Entries :
    LET e == Entries[p]
    IN /\ p \in Word \X Slots
       /\ \/ e.kind \in {"end", "deleted"}
          \/ e.kind = "lfn" /\ e.order \in 0 .. 191 /\ e.last \in BOOLEAN
             /\ e.sum \in 0 .. 255 /\ e.zero \in BOOLEAN
          \/ e.kind = "live" /\ e.node \in Node

VARIABLES
  mounted,
  cache,    \* lru_cluster_idx and lru_cluster; ghost: is the buffer not that cluster's
  lfn,      \* order and checksum, static in update_lfn_entry_name
  file, dir,       \* the cursors
  call,     \* the frame of the call on its way, or of the last one
  result,   \* what the last call returned
  spent,    \* how much of each bound is used
  listed,   \* ghost: the entries returned since the last qfs_opendir
  tainted   \* ghost: files sought out of their first cluster, or by more than
            \* a cluster, and directories listed from a wrong buffer or from
            \* a number that is not of the volume

vars == <<mounted, cache, lfn, file, dir, call, result, spent, listed, tainted>>

-----------------------------------------------------------------------------
(* What is stored.                                                         *)

Smaller(a, b) == IF a <= b THEN a ELSE b

Stored(n) == [k \in Slots |-> <<n, k>>]

(* What qcow_calloc leaves is stored nowhere.                              *)
Calloc == [k \in Slots |-> <<-1, k>>]

(* What is in no directory reads as zeros, and so as the end of one.       *)
EndEntry == [kind |-> "end"]
EntryAt(place) == IF place \in DOMAIN Entries THEN Entries[place] ELSE EndEntry

Root == [first |-> RootCluster, size |-> 0, dir |-> TRUE]

(* The place that an offset in a file or directory denotes.                *)
Spot(first, offset) == <<Chain[first][(offset \div Size) + 1], offset % Size>>

-----------------------------------------------------------------------------
(* Calls.  A call begins when none is on its way.                          *)

NoCall == [pc |-> "idle", op |-> "none", who |-> 0, path |-> <<>>, goal |-> <<>>, node |-> Root,
           at |-> 0, slot |-> 0, stray |-> FALSE, left |-> 0, from |-> 0, out |-> <<>>, sure |-> TRUE]

pc == call.pc
op == call.op
who == call.who

Ready ==
  /\ mounted
  /\ pc = "idle"
  /\ spent.calls < MaxCalls
  /\ spent' = [spent EXCEPT !.calls = @ + 1]

Return(status) ==
  /\ call' = [call EXCEPT !.pc = "idle"]
  /\ result' = status

(* qfs_mount zeroes the cluster buffer and keeps the index of the cluster  *)
(* that an earlier mount of the same qfs_t left.                           *)
Mount ==
  /\ ~mounted
  /\ spent.mounts < MaxMounts
  /\ spent' = [spent EXCEPT !.mounts = @ + 1]
  /\ mounted' = TRUE
  /\ cache' = [cache EXCEPT !.data = Calloc, !.torn = (cache.idx # 0)]
  /\ UNCHANGED <<lfn, file, dir, call, result, listed, tainted>>

Closed == [open |-> FALSE, node |-> Root, offset |-> 0, cluster |-> 0]
ClosedDir == [open |-> FALSE, node |-> Root, cluster |-> 0, idx |-> 0, cnt |-> 0]

(* The callers have no use for their handles after qfs_unmount.            *)
Unmount ==
  /\ mounted
  /\ pc = "idle"
  /\ mounted' = FALSE
  /\ file' = [h \in Files |-> Closed]
  /\ dir' = [d \in Dirs |-> ClosedDir]
  /\ listed' = [d \in Dirs |-> <<>>]
  /\ tainted' = {}
  /\ call' = NoCall
  /\ UNCHANGED <<cache, lfn, result, spent>>

-----------------------------------------------------------------------------
(* qfs_open and qfs_opendir: one lookup per name of the path.              *)

StartOpen ==
  /\ Ready
  /\ \E o \in Opens :
       call' = [NoCall EXCEPT !.pc = "resolve", !.op = IF o[1] \in Files THEN "open" ELSE "opendir",
                              !.who = o[1], !.path = o[2], !.goal = o[2]]
  /\ UNCHANGED <<mounted, cache, lfn, file, dir, result, listed, tainted>>

ResolveName ==
  /\ pc = "resolve"
  /\ call.path # <<>>
  /\ \/ /\ call.node.dir
        /\ call' = [call EXCEPT !.pc = "fetch", !.at = call.node.first,
                                !.sure = @ /\ call.node.first \in DOMAIN Chain]
        /\ UNCHANGED result
     \/ /\ ~call.node.dir
        /\ Return("not_a_directory")
  /\ UNCHANGED <<mounted, cache, lfn, file, dir, spent, listed, tainted>>

Opened ==
  /\ pc = "resolve"
  /\ call.path = <<>>
  /\ \/ /\ op = "open" /\ call.node.dir
        /\ Return("not_a_file")
        /\ UNCHANGED <<file, dir, listed, tainted>>
     \/ /\ op = "open" /\ ~call.node.dir
        /\ Return("no_error")
        /\ file' = [file EXCEPT ![who] = [open |-> TRUE, node |-> call.node, offset |-> 0,
                                          cluster |-> call.node.first]]
        /\ tainted' = tainted \ {who}
        /\ UNCHANGED <<dir, listed>>
     \/ /\ op = "opendir" /\ ~call.node.dir
        /\ Return("not_a_directory")
        /\ UNCHANGED <<file, dir, listed, tainted>>
     \/ /\ op = "opendir" /\ call.node.dir
        /\ Return("no_error")
        /\ dir' = [dir EXCEPT ![who] = [open |-> TRUE, node |-> call.node,
                                        cluster |-> call.node.first, idx |-> 0, cnt |-> -1]]
        /\ listed' = [listed EXCEPT ![who] = <<>>]
        /\ tainted' = tainted \ {who}
        /\ UNCHANGED file
  /\ UNCHANGED <<mounted, cache, lfn, spent>>

-----------------------------------------------------------------------------
(* qfs_seek, qfs_read and qfs_readdir up to their first fetch.             *)

(* The clusters of a file are taken as consecutive, and off as counted     *)
(* from its beginning.                                                     *)
SeekCluster(f, off) == (f.node.first + (off - (off % Size)) \div Size) % U32

SeekTo(h, off, offset) ==
  /\ file' = [file EXCEPT ![h].offset = offset, ![h].cluster = SeekCluster(file[h], off)]
  /\ tainted' = IF offset < Size /\ off < Size THEN tainted \ {h} ELSE tainted \cup {h}
  /\ result' = "no_error"

Seek ==
  /\ Ready
  /\ \E h \in Files, s \in Seeks :
       LET off == s[1]
           whence == s[2]
           size == file[h].node.size
           target == IF whence = "set" THEN off ELSE (off + file[h].offset) % U64
       IN /\ file[h].open
          /\ call' = [NoCall EXCEPT !.op = "seek", !.who = h]
          /\ \/ /\ whence # "end" /\ target <= size
                /\ SeekTo(h, off, target)
             \/ /\ whence = "end"
                /\ SeekTo(h, off, size)
             \/ /\ whence # "end" /\ target > size
                /\ result' = "invalid_offset"
                /\ UNCHANGED <<file, tainted>>
  /\ UNCHANGED <<mounted, cache, lfn, dir, listed>>

StartRead ==
  /\ Ready
  /\ \E h \in Files, n \in ReadSizes :
       LET f == file[h]
           frame == [NoCall EXCEPT !.op = "read", !.who = h, !.from = f.offset]
       IN /\ f.open
          /\ \/ /\ f.offset >= f.node.size
                /\ call' = frame
                /\ result' = "end_of_file"
             \/ /\ f.offset < f.node.size
                /\ call' = [frame EXCEPT !.pc = "fetch",
                                         !.left = Smaller(n, f.node.size - f.offset)]
                /\ UNCHANGED result
  /\ UNCHANGED <<mounted, cache, lfn, file, dir, listed, tainted>>

StartReadDir ==
  /\ Ready
  /\ \E d \in Dirs :
       LET frame == [NoCall EXCEPT !.op = "readdir", !.who = d]
           ended == dir[d].cnt > 0 /\ dir[d].cnt = dir[d].idx
       IN /\ dir[d].open
          /\ \/ /\ ended
                /\ call' = frame
                /\ result' = "end_of_directory"
             \/ /\ ~ended
                /\ call' = [frame EXCEPT !.pc = "fetch"]
                /\ UNCHANGED result
  /\ UNCHANGED <<mounted, cache, lfn, file, dir, listed, tainted>>

-----------------------------------------------------------------------------
(* fetch_next_cluster.  cluster_n is that of the cursor, or of the lookup. *)

Cluster == IF op = "read" THEN file[who].cluster
           ELSE IF op = "readdir" THEN dir[who].cluster
           ELSE call.at

MoveCursor(n) ==
  /\ file' = IF op = "read" THEN [file EXCEPT ![who].cluster = n] ELSE file
  /\ dir' = IF op = "readdir" THEN [dir EXCEPT ![who].cluster = n] ELSE dir

At(n) == IF op \in {"open", "opendir"} THEN n ELSE 0

LinkedToItself(n) == {n}

Linked(n) == IF n \in DOMAIN Fat THEN {Fat[n]} ELSE BeyondTable

Refused(n) ==
  \/ n = BadCluster
  \/ n = FreeCluster
  \/ n > Max /\ n <= RsvClusters

(* The cluster to fetch: that of the cursor, or the next of its chain.     *)
Wanted == IF pc = "fetch" THEN {Cluster}
          ELSE {n \in Linked(Cluster) : n < EndOfChain /\ ~Refused(n)}

Fetching == pc \in {"fetch", "advance"}

(* fat_read ignores what a fetch returns once it has read everything.      *)
FetchReturns(err) ==
  Return(IF op = "read" /\ pc = "advance" /\ call.left = 0 THEN "no_error" ELSE err)

(* What follows the fetch of cluster n, from a buffer that holds it or not. *)
Fetched(n, held) ==
  \/ /\ op = "read" /\ call.left > 0
     /\ call' = [call EXCEPT !.pc = "copy", !.sure = @ /\ held]
     /\ UNCHANGED result
  \/ /\ op = "read" /\ call.left = 0
     /\ Return("no_error")
  \/ /\ op # "read"
     /\ call' = [call EXCEPT !.pc = "scan", !.sure = @ /\ held, !.at = At(n),
                             !.slot = IF op = "readdir" THEN dir[who].idx % Size ELSE 0]
     /\ UNCHANGED result

FetchEnds ==
  /\ pc = "advance"
  /\ \E n \in Linked(Cluster) :
       /\ MoveCursor(n)
       /\ \/ /\ n >= EndOfChain
             /\ FetchReturns("file_not_found")
          \/ /\ Refused(n)
             /\ FetchReturns("corrupted_directory")
  /\ UNCHANGED <<mounted, cache, lfn, spent, listed, tainted>>

(* A listing goes astray over a wrong buffer, and over what the sectors of *)
(* a number that is not of the volume hold: the one that fetch_next_cluster*)
(* leaves in cluster_n where it ends a chain.                              *)
Astray(n, torn) ==
  tainted' = IF op = "readdir" /\ (torn \/ n \notin 2 .. Max) THEN tainted \cup {who} ELSE tainted

FetchCached ==
  /\ Fetching
  /\ cache.idx \in Wanted
  /\ MoveCursor(cache.idx)
  /\ Fetched(cache.idx, ~cache.torn)
  /\ Astray(cache.idx, cache.torn)
  /\ UNCHANGED <<mounted, cache, lfn, spent, listed>>

FetchStored ==
  /\ Fetching
  /\ \E n \in Wanted \ {cache.idx} :
       /\ MoveCursor(n)
       /\ Fetched(n, TRUE)
       /\ Astray(n, FALSE)
       /\ cache' = [idx |-> n, data |-> Stored(n), torn |-> FALSE]
  /\ UNCHANGED <<mounted, lfn, spent, listed>>

(* Variant: the index names the cluster before it is read.                 *)
FetchFailsWithIndex ==
  /\ Fetching
  /\ spent.faults < MaxFaults
  /\ spent' = [spent EXCEPT !.faults = @ + 1]
  /\ \E n \in Wanted \ {cache.idx} :
       /\ MoveCursor(n)
       /\ cache' = [cache EXCEPT !.idx = n]
  /\ FetchReturns("io_error")
  /\ UNCHANGED <<mounted, lfn, listed, tainted>>

(* get_n_sector_at fails after a part of the cluster.                      *)
FetchFails ==
  /\ Fetching
  /\ spent.faults < MaxFaults
  /\ spent' = [spent EXCEPT !.faults = @ + 1]
  /\ \E n \in Wanted \ {cache.idx}, k \in Slots :
       /\ MoveCursor(n)
       /\ cache' = [cache EXCEPT !.data = [i \in Slots |-> IF i < k THEN <<n, i>> ELSE @[i]],
                                 !.torn = @ \/ k > 0]
  /\ FetchReturns("io_error")
  /\ UNCHANGED <<mounted, lfn, listed, tainted>>

-----------------------------------------------------------------------------
(* fat_read: one iteration of its loop.                                    *)


Readable(offset) == Smaller(call.left, Size - (offset % Size))

(* Variant: the next cluster is fetched only if there is more to read.     *)
CrossesLazily(offset) ==
  offset % Size = 0 /\ offset < call.from + Len(call.out) + call.left

Crosses(offset) == offset % Size = 0

Copy ==
  LET offset == file[who].offset
      m == Readable(offset)
  IN /\ pc = "copy"
     /\ file' = [file EXCEPT ![who].offset = offset + m]
     /\ call' = [call EXCEPT
          !.out = @ \o [i \in 1 .. m |-> cache.data[(offset % Size) + i - 1]],
          !.left = @ - m,
          !.pc = IF Crosses(offset + m) THEN "advance" ELSE "idle"]
     /\ result' = IF Crosses(offset + m) THEN result ELSE "no_error"
     /\ UNCHANGED <<mounted, cache, lfn, dir, spent, listed, tainted>>

-----------------------------------------------------------------------------
(* iterate_fat_dir: one entry of the cached cluster at a time.             *)

Entry == EntryAt(cache.data[call.slot])

Scanning(kind) ==
  /\ pc = "scan"
  /\ call.slot < Size
  /\ Entry.kind = kind

(* entry_idx goes with i; that of a lookup is a local that nobody reads.   *)
CountEntry == dir' = IF op = "readdir" THEN [dir EXCEPT ![who].idx = (@ + 1) % U32] ELSE dir

(* Variant: a lookup does not go on to the next cluster.                   *)
ScanClusterEndsLookup ==
  /\ pc = "scan"
  /\ call.slot = Size
  /\ call' = [call EXCEPT !.pc = IF op = "readdir" THEN "advance" ELSE "idle"]
  /\ result' = IF op = "readdir" THEN result ELSE "file_not_found"
  /\ UNCHANGED <<mounted, cache, lfn, file, dir, spent, listed, tainted>>

ScanClusterEnds ==
  /\ pc = "scan"
  /\ call.slot = Size
  /\ call' = [call EXCEPT !.pc = "advance"]
  /\ UNCHANGED <<mounted, cache, lfn, file, dir, result, spent, listed, tainted>>

ScanEnds ==
  /\ Scanning("end")
  /\ \/ /\ op = "readdir"
        /\ dir' = [dir EXCEPT ![who].cnt = dir[who].idx]
        /\ Return("end_of_directory")
     \/ /\ op # "readdir"
        /\ Return("file_not_found")
        /\ UNCHANGED dir
  /\ UNCHANGED <<mounted, cache, lfn, file, spent, listed, tainted>>

(* The characters of a long name are stored at indices that are read from  *)
(* the stack after name_size: they may land in the name that is compared.  *)
MayMatch == call.stray \/ Head(call.path) \in Entry.names
MayDiffer == call.stray \/ Head(call.path) \notin Entry.names

ScanSkips ==
  /\ \/ Scanning("deleted")
     \/ Scanning("live") /\ op # "readdir" /\ MayDiffer
  /\ CountEntry
  /\ call' = [call EXCEPT !.slot = @ + 1, !.stray = @ /\ Entry.kind = "deleted"]
  /\ UNCHANGED <<mounted, cache, lfn, file, result, spent, listed, tainted>>

ScanFinds ==
  /\ Scanning("live")
  /\ op # "readdir"
  /\ MayMatch
  /\ call' = [call EXCEPT !.pc = "resolve", !.node = Entry.node, !.path = Tail(@)]
  /\ UNCHANGED <<mounted, cache, lfn, file, dir, result, spent, listed, tainted>>

(* Variant: the index is not moved past the entry that is returned.        *)
ScanListsInPlace ==
  /\ Scanning("live")
  /\ op = "readdir"
  /\ listed' = [listed EXCEPT ![who] = Append(@, cache.data[call.slot])]
  /\ Return("no_error")
  /\ UNCHANGED <<mounted, cache, lfn, file, dir, spent, tainted>>

ScanLists ==
  /\ Scanning("live")
  /\ op = "readdir"
  /\ listed' = [listed EXCEPT ![who] = Append(@, cache.data[call.slot])]
  /\ CountEntry
  /\ Return("no_error")
  /\ UNCHANGED <<mounted, cache, lfn, file, spent, tainted>>

(* update_lfn_entry_name.  Every entry with one of the attributes of       *)
(* FAT_ATTR_LFN comes here, the volume label too.                          *)
FirstOrder == 255
LastMask == 64

ScanLongName ==
  LET e == Entry
      order == IF e.order = 1 THEN FirstOrder ELSE lfn.order
      sum == IF e.order # 1 /\ e.last THEN e.sum ELSE lfn.sum
  IN /\ Scanning("lfn")
     /\ \/ /\ e.order >= lfn.order
           /\ Return("corrupted_lfn_entry")
           /\ UNCHANGED <<lfn, dir>>
        \/ /\ e.order < lfn.order
           /\ ~e.zero \/ sum # e.sum
           /\ Return("corrupted_lfn_entry")
           /\ lfn' = [order |-> order, sum |-> sum]
           /\ UNCHANGED dir
        \/ /\ e.order < lfn.order
           /\ e.zero /\ sum = e.sum
           /\ lfn' = [order |-> IF e.last THEN LastMask ELSE 0, sum |-> sum]
           /\ CountEntry
           /\ call' = [call EXCEPT !.slot = @ + 1, !.stray = op # "readdir",
                                   !.sure = @ /\ op = "readdir"]
           /\ UNCHANGED result
     /\ UNCHANGED <<mounted, cache, file, spent, listed, tainted>>

-----------------------------------------------------------------------------

Init ==
  /\ mounted = FALSE
  /\ cache = [idx |-> 0, data |-> Calloc, torn |-> FALSE]
  /\ lfn = [order |-> FirstOrder, sum |-> 0]
  /\ file = [h \in Files |-> Closed]
  /\ dir = [d \in Dirs |-> ClosedDir]
  /\ call = NoCall
  /\ result = "no_error"
  /\ spent = [calls |-> 0, faults |-> 0, mounts |-> 0]
  /\ listed = [d \in Dirs |-> <<>>]
  /\ tainted = {}

Start == StartOpen \/ Seek \/ StartRead \/ StartReadDir
Fetch == FetchEnds \/ FetchCached \/ FetchStored
Scan == ScanClusterEnds \/ ScanEnds \/ ScanSkips \/ ScanFinds \/ ScanLists \/ ScanLongName
Step == ResolveName \/ Opened \/ Fetch \/ Copy \/ Scan

Next == Mount \/ Unmount \/ Start \/ Step \/ FetchFails

Spec == Init /\ [][Next]_vars

(* A call runs in the thread of its caller and waits for nobody.           *)
FairSpec == Spec /\ WF_vars(Step)

-----------------------------------------------------------------------------
(* Properties.                                                             *)

Results == {"no_error", "io_error", "file_not_found", "corrupted_directory",
            "corrupted_lfn_entry", "end_of_directory", "end_of_file", "invalid_offset",
            "not_a_file", "not_a_directory"}

(* The cursors, the cached cluster and the frame of the call have their    *)
(* types: in particular the slot being scanned is one of the cluster, and  *)
(* what is left to read is not negative.                                   *)
TypeOK ==
  /\ mounted \in BOOLEAN
  /\ cache \in [idx : Word, data : [Slots -> Place], torn : BOOLEAN]
  /\ lfn \in [order : {0, LastMask, FirstOrder}, sum : 0 .. 255]
  /\ file \in [Files -> [open : BOOLEAN, node : Node, offset : Word, cluster : Word]]
  /\ dir \in [Dirs -> [open : BOOLEAN, node : Node, cluster : Word, idx : Word,
                       cnt : Word \cup {-1}]]
  /\ pc \in {"idle", "resolve", "fetch", "advance", "copy", "scan"}
  /\ \/ op = "none"
     \/ op \in {"open", "seek", "read"} /\ who \in Files
     \/ op \in {"opendir", "readdir"} /\ who \in Dirs
  /\ call.node \in Node /\ call.at \in Word /\ call.slot \in 0 .. Size
  /\ call.left \in Word /\ call.from \in Word /\ call.stray \in BOOLEAN
  /\ call.sure \in BOOLEAN
  /\ result \in Results
  /\ tainted \subseteq Handles

(* Between two calls the cluster of a file's cursor is the one its offset  *)
(* is in, whatever failed before and whoever moved the shared cache: a     *)
(* read that failed can be repeated from where it stopped.                 *)
CursorOnChain ==
  /\ TypeOK
  /\ pc = "idle" =>
       \A h \in Files \ tainted :
         LET f == file[h]
             k == (f.offset \div Size) + 1
         IN f.open /\ f.node.first \in DOMAIN Chain /\ k <= Len(Chain[f.node.first]) =>
              f.cluster = Chain[f.node.first][k]

(* A qfs_read that succeeds returns what the chain of the file holds from  *)
(* the old offset to the new one, with other files and directories read in *)
(* between and after reads that failed, unless the file has fewer clusters *)
(* than its size asks for.                                                 *)
Complete(node) ==
  node.first \in DOMAIN Chain /\ node.size <= Len(Chain[node.first]) * Size

IsRead(h, from, out) ==
  LET f == file[h]
  IN /\ f.offset = from + Len(out)
     /\ out = [i \in 1 .. Len(out) |-> Spot(f.node.first, from + i - 1)]

ReadExact ==
  pc = "idle" /\ op = "read" /\ result = "no_error" /\ call.sure /\ who \notin tainted
    /\ Complete(file[who].node) => IsRead(who, call.from, call.out)

(* The entry at a position of a directory, and the positions up to its end *)
(* that hold an entry to return.                                           *)
Nth(first, n) == EntryAt(Spot(first, n))

Positions(first) ==
  {n \in 0 .. (Len(Chain[first]) * Size) - 1 : \A m \in 0 .. n : Nth(first, m).kind # "end"}

LivePositions(first) == {n \in Positions(first) : Nth(first, n).kind = "live"}

(* The directories that a listing goes through: with a chain, no cluster   *)
(* of which ends with an entry that is returned (entry_idx would be in the *)
(* next cluster and cur_cluster not), and fewer entries than a u32 counts. *)
Listable(first) ==
  /\ first \in DOMAIN Chain
  /\ Len(Chain[first]) * Size < U32
  /\ \A i \in 1 .. Len(Chain[first]) : EntryAt(<<Chain[first][i], Size - 1>>).kind # "live"

(* qfs_readdir returns the entries of such a directory one by one in their *)
(* order, none twice and none left out, whatever is read or fails between  *)
(* two calls: the i-th that it returns has i - 1 before it.  It reports    *)
(* the end after the last, as the end or, where no entry ends the chain,   *)
(* as a file that is not found; the calls after that go astray.            *)
ListedOnce ==
  \A d \in Dirs \ tainted :
    dir[d].open /\ Listable(dir[d].node.first) =>
      LET first == dir[d].node.first
          live == LivePositions(first)
      IN /\ \A i \in DOMAIN listed[d] :
              \E n \in live : /\ listed[d][i] = Spot(first, n)
                              /\ Cardinality({m \in live : m < n}) = i - 1
         /\ pc = "idle" /\ op = "readdir" /\ who = d
              /\ result \in {"end_of_directory", "file_not_found"} =>
              Len(listed[d]) = Cardinality(live)

(* The first entry of that name in a directory; none if there is none.     *)
Found(node, name) ==
  IF node.dir /\ node.first \in DOMAIN Chain
  THEN LET hits == {n \in LivePositions(node.first) : name \in Nth(node.first, n).names}
       IN {Nth(node.first, n).node : n \in {k \in hits : \A j \in hits : k <= j}}
  ELSE {}

Nodes == {Root} \cup {Entries[p].node : p \in {q \in DOMAIN Entries : Entries[q].kind = "live"}}

(* The node that the first names of a path lead to from the root, each     *)
(* found in the directory before it.                                       *)
Reached(path, length) ==
  LET Leads(trail) == /\ trail[0] = Root
                      /\ \A i \in 1 .. length : trail[i] \in Found(trail[i - 1], path[i])
  IN {trail[length] : trail \in {t \in [0 .. length -> Nodes] : Leads(t)}}

Named(path) == Reached(path, Len(path))

(* qfs_open and qfs_opendir reach the node that the path names, over       *)
(* directories of several clusters and with deleted entries, and report    *)
(* that there is none only if there is none; unless the path goes through  *)
(* a directory that has no chain, as ".." to the root.                     *)
OpenExact ==
  pc = "idle" /\ op \in {"open", "opendir"} /\ call.sure =>
    /\ result = "no_error" => Named(call.goal) = {IF op = "open" THEN file[who].node ELSE dir[who].node}
    /\ result = "file_not_found" => Named(call.goal) = {}

(* Every call returns: the loops over the slots, the clusters and the      *)
(* names of a path end.                                                    *)
CallReturns == pc # "idle" ~> pc = "idle"

-----------------------------------------------------------------------------
(* What a test or a message of the repository says, and the code does not  *)
(* do.                                                                     *)

(* "Failed to read the same file in different ways.", the test says where  *)
(* two readings differ: a read returns what the file holds at its offset,  *)
(* also after a seek.                                                      *)
SameInDifferentWays ==
  pc = "idle" /\ op = "read" /\ result = "no_error" /\ call.sure /\ Complete(file[who].node) =>
    IsRead(who, call.from, call.out)

(* "Reached end of directory.": the test calls qfs_readdir until it says   *)
(* so, and prints every entry it returns; none is returned twice.          *)
NoEntryTwice ==
  \A d \in Dirs : \A i, j \in DOMAIN listed[d] : listed[d][i] = listed[d][j] => i = j

(* "Invalid LFN order, must be less than the previous lfn order.": where   *)
(* every long name counts down, no entry is refused.                       *)
LongNamesAccepted == result # "corrupted_lfn_entry"

=============================================================================
