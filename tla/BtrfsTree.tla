------------------------------ MODULE BtrfsTree ------------------------------
(***************************************************************************)
(* Mounting a btrfs volume (qcow_btrfs.h): the superblock, the map from    *)
(* logical addresses to the disk that the system chunk array starts and    *)
(* the chunk tree extends while it is walked with it, and the walk of the  *)
(* chunk tree and of the root tree.  The mount frees the map and fails     *)
(* with QCOW_TODO when both walks succeed.                                 *)
(*                                                                         *)
(* A volume is a superblock, what is on the disk by physical address, and  *)
(* home, the address where the volume itself says that a node is stored.   *)
(* The recursion of parse_btree is the variable stack, a call that has not *)
(* read its node yet is the variable call.                                 *)
(***************************************************************************)
EXTENDS Integers, Sequences

CONSTANTS
  SECTOR_SIZE,          \* of the partition layer
  Word32,               \* one more than the largest u32
  BTRFS_MAX_LEVEL, BTRFS_MAX_NODE_SIZE, BTRFS_MAX_SYS_CHUNK_ARRAY_SIZE,
  KEY_SIZE, CHUNK_ITEM_SIZE, STRIPE_SIZE,
  Logical,              \* the logical addresses that TranslationStable speaks of
  Volumes

ASSUME ConstantsAssumption ==
  /\ SECTOR_SIZE \in Nat \ {0, 1} /\ Word32 \in Nat \ {0}
  /\ BTRFS_MAX_LEVEL \in Nat
  /\ {KEY_SIZE, CHUNK_ITEM_SIZE, STRIPE_SIZE, BTRFS_MAX_SYS_CHUNK_ARRAY_SIZE} \subseteq Nat
  /\ Logical \subseteq Nat

Stripe == [dev_id : Nat, offset : Nat]
ChunkItem == [length : Nat, stripe_len : Nat, sector_size : Nat, stripes : Seq(Stripe)]
(* The item types that parse_node_header only prints.                      *)
PrintedItems ==
  {"DEV_ITEM", "ROOT_ITEM", "INODE_REF", "DIR_ITEM", "DIR_INDEX", "XATTR_ITEM", "ROOT_REF",
   "ROOT_BACKREF", "INODE_ITEM", "EXTENT_DATA_ITEM", "EXTENT_ITEM", "METADATA_ITEM",
   "BLOCK_GROUP", "DEV_EXTENT", "DEV_STATS", "CSUM_ITEM", "UUID", "FREE_SPACE_INFO",
   "FREE_SPACE_BITMAP", "FREE_SPACE_EXTENT"}

Key == [obj_id : Nat, item_type : PrintedItems \cup {"CHUNK_ITEM", "UNKNOWN"}, offset : Nat]
Item == [key : Key, chunk : ChunkItem]

(* fault is the first of the superblock's checks by value that fails.      *)
Fault == {"none", "algorithm", "crc", "magic", "address", "generation", "devices"}
Superblock ==
  [fault : Fault, fs_uuid : Nat, sector_size : Nat, node_size : Nat, stripe_size : Nat,
   root_tree_root_lba : Nat, chunk_tree_root_lba : Nat, log_tree_root_lba : Nat,
   root_tree_level : Nat, chunk_root_level : Nat, log_root_level : Nat,
   sys_chunk_array : Seq(Item), sys_chunk_array_size : Nat]

(* A node: of a leaf the items, of an internal node the block_idx of its   *)
(* children.  A block that holds no node has sum FALSE or is all zero.     *)
Node == [zero : BOOLEAN, sum : BOOLEAN, fs_uuid : Nat, node_lba : Nat, level : Nat,
         items : Seq(Item), children : Seq(Nat)]
ZeroNode == [zero |-> TRUE, sum |-> FALSE, fs_uuid |-> 0, node_lba |-> 0, level |-> 0,
             items |-> <<>>, children |-> <<>>]

ASSUME VolumesAssumption ==
  \A v \in Volumes : /\ v.super \in Superblock
                     /\ v.disk \in [DOMAIN v.disk -> Node] /\ DOMAIN v.disk \subseteq Nat

VARIABLES
  vol,     \* the volume that is mounted
  stage,   \* "read", "sys", "chunk", "root", "ended"
  at,      \* check_sys_chunk_array_size: bytes_cnt and the item it stands for
  chunks,  \* the chunk map
  call,    \* the arguments of a parse_btree that has not read its node, or NoCall
  stack,   \* the parse_node_header frames, the outermost first
  held,    \* node buffers allocated and not freed
  result,
  seen,    \* ghost: the nodes parsed, in order, by tree
  empty    \* ghost: the addresses answered with an empty block

vars == <<vol, stage, at, chunks, call, stack, held, result, seen, empty>>

(* What a check may find.                                                  *)
Errors == Fault \cup
  {"IO_ERROR", "INVALID_SIZE", "INVALID_LEVEL", "UNALIGNED_SECTOR", "INVALID_SYS_CHUNK_ARRAY_SIZE",
   "UNALIGNED_LENGTH", "CHUNK_ITEM_WITH_NO_STRIPES", "FIELD_MISMATCH", "INVALID_STRIPE_LENGTH",
   "UNALIGNED_OFFSET", "EMPTY_TREE", "INVALID_CRC_CHECKSUM", "GUID_MISMATCH", "UNKNOWN_ITEM_TYPE",
   "NO_ERROR", "crash"}

-----------------------------------------------------------------------------
NoCall == [lba |-> 0, level |-> 0, root |-> FALSE, made |-> FALSE]
Call(lba, level, root) == [lba |-> lba, level |-> level, root |-> root, made |-> TRUE]
Top == stack[Len(stack)]
Sb == vol.super

(* extend_chunk_mapping: one range for each stripe; both ends of the range *)
(* belong to it, and dev_id is that of the first stripe.  (The ranges that *)
(* an unaligned stripe leaves behind go with the map that the failure frees.) *)
AppendChunks(map, key, item) ==
  map \o [i \in DOMAIN item.stripes |->
            [low_range |-> key.offset, up_range |-> key.offset + item.length,
             phys_offset |-> item.stripes[i].offset, dev_id |-> item.stripes[1].dev_id]]

ChunkError(item) ==
  CASE item.stripe_len = 0                  -> "crash"
    [] item.length % item.stripe_len # 0    -> "UNALIGNED_LENGTH"
    [] Len(item.stripes) = 0                -> "CHUNK_ITEM_WITH_NO_STRIPES"
    [] item.sector_size # Sb.sector_size    -> "FIELD_MISMATCH"
    [] item.stripe_len < item.sector_size   -> "INVALID_STRIPE_LENGTH"
    [] OTHER                                -> "NO_ERROR"

StripeError(item) ==
  IF \E i \in DOMAIN item.stripes : item.stripes[i].offset % item.stripe_len # 0
  THEN "UNALIGNED_OFFSET" ELSE "NO_ERROR"

(* btrfs_lba_to_physical_lba: the first range of a map with the address;   *)
(* -1 as u64 is odd, hence no multiple of a sector.                        *)
Holds(chunk, a) == chunk.low_range <= a /\ a <= chunk.up_range
NotFound == -1
(* Variant: the last range of the map that has the address.               *)
LookupLast(map, a) ==
  IF \E i \in DOMAIN map : Holds(map[i], a)
  THEN LET i == CHOOSE i \in DOMAIN map :
                  Holds(map[i], a) /\ \A j \in DOMAIN map : Holds(map[j], a) => j <= i
       IN  map[i].phys_offset + (a - map[i].low_range)
  ELSE NotFound

Lookup(map, a) ==
  IF \E i \in DOMAIN map : Holds(map[i], a)
  THEN LET i == CHOOSE i \in DOMAIN map :
                  Holds(map[i], a) /\ \A j \in DOMAIN map : Holds(map[j], a) => i <= j
       IN  map[i].phys_offset + (a - map[i].low_range)
  ELSE NotFound

BlockAt(p) == IF p \in DOMAIN vol.disk THEN vol.disk[p] ELSE ZeroNode

(* validate_superblock up to the system chunk array, in its order.  A      *)
(* sector size of 0 passes, and is then a divisor.                         *)
SuperError ==
  CASE Sb.fault \in {"algorithm", "crc", "magic", "address"}   -> Sb.fault
    [] \/ Sb.sector_size % 2 # 0 \/ Sb.sector_size > Sb.node_size
       \/ Sb.sector_size > Sb.stripe_size                      -> "INVALID_SIZE"
    [] \/ Sb.node_size % 2 # 0 \/ Sb.node_size > BTRFS_MAX_NODE_SIZE
       \/ Sb.stripe_size % 2 # 0                               -> "INVALID_SIZE"
    [] \E l \in {Sb.root_tree_level, Sb.chunk_root_level, Sb.log_root_level} :
         l > BTRFS_MAX_LEVEL                                   -> "INVALID_LEVEL"
    [] Sb.sector_size = 0                                      -> "crash"
    [] \E a \in {Sb.root_tree_root_lba, Sb.chunk_tree_root_lba, Sb.log_tree_root_lba} :
         a % Sb.sector_size # 0                                -> "UNALIGNED_SECTOR"
    [] Sb.fault \in {"generation", "devices"}                  -> Sb.fault
    [] OTHER                                                   -> "NO_ERROR"

(* Variant: the address of the node is not compared.                       *)
NodeErrorAnyLba(node, lba, level, root) ==
  CASE node.zero                                -> "EMPTY_TREE"
    [] ~node.sum                                -> "INVALID_CRC_CHECKSUM"
    [] root /\ node.fs_uuid # Sb.fs_uuid        -> "GUID_MISMATCH"
    [] node.level # level                       -> "FIELD_MISMATCH"
    [] OTHER                                    -> "NO_ERROR"

(* Variant: the level of the node is not compared.                         *)
NodeErrorAnyLevel(node, lba, level, root) ==
  CASE node.zero                                -> "EMPTY_TREE"
    [] ~node.sum                                -> "INVALID_CRC_CHECKSUM"
    [] root /\ node.fs_uuid # Sb.fs_uuid        -> "GUID_MISMATCH"
    [] node.node_lba # lba % Word32             -> "FIELD_MISMATCH"
    [] OTHER                                    -> "NO_ERROR"

(* validate_chunk_tree.  Its parameter chunk_lba is a u32.                 *)
NodeError(node, lba, level, root) ==
  CASE node.zero                                -> "EMPTY_TREE"
    [] ~node.sum                                -> "INVALID_CRC_CHECKSUM"
    [] root /\ node.fs_uuid # Sb.fs_uuid        -> "GUID_MISMATCH"
    [] node.node_lba # lba % Word32             -> "FIELD_MISMATCH"
    [] node.level # level                       -> "FIELD_MISMATCH"
    [] OTHER                                    -> "NO_ERROR"

-----------------------------------------------------------------------------
Init ==
  /\ vol \in Volumes
  /\ stage = "read" /\ at = [bytes |-> 0, item |-> 1]
  /\ chunks = <<>> /\ call = NoCall /\ stack = <<>> /\ held = 0
  /\ result = "none"
  /\ seen = [t \in {"chunk", "root"} |-> <<>>] /\ empty = {}

(* Every failure returns through all the frames to parse_btrfs_fs, which   *)
(* frees the chunk map; the node buffers of the frames are not freed.      *)
Fail(error) ==
  /\ stage' = "ended" /\ result' = error
  /\ chunks' = <<>> /\ call' = NoCall /\ stack' = <<>>
  /\ UNCHANGED <<vol, at, seen, empty>>

ReadSuperblock ==
  /\ stage = "read"
  /\ \/ Fail("IO_ERROR") /\ UNCHANGED held
     \/ SuperError # "NO_ERROR" /\ Fail(SuperError) /\ UNCHANGED held
     \/ /\ SuperError = "NO_ERROR"
        /\ stage' = "sys"
        /\ UNCHANGED <<vol, at, chunks, call, stack, held, result, seen, empty>>

(* One turn of the loop of check_sys_chunk_array_size.  Every error of it  *)
(* reaches the caller as QCOW_INVALID_SYS_CHUNK_ARRAY_SIZE.  What follows  *)
(* the items of the array is zero.                                         *)
SysSize == Sb.sys_chunk_array_size
SysItem == Sb.sys_chunk_array[at.item]
SysError ==
  CASE SysSize > BTRFS_MAX_SYS_CHUNK_ARRAY_SIZE              -> "INVALID_SYS_CHUNK_ARRAY_SIZE"
    [] at.item > Len(Sb.sys_chunk_array)                     -> "INVALID_SYS_CHUNK_ARRAY_SIZE"
    [] \/ SysItem.key.offset % Sb.sector_size # 0
       \/ SysItem.key.obj_id # 256
       \/ SysItem.key.item_type # "CHUNK_ITEM"               -> "INVALID_SYS_CHUNK_ARRAY_SIZE"
    [] ChunkError(SysItem.chunk) = "crash"                   -> "crash"
    [] ChunkError(SysItem.chunk) # "NO_ERROR"                -> "INVALID_SYS_CHUNK_ARRAY_SIZE"
    [] OTHER                                                 -> "NO_ERROR"

SysChunk ==
  /\ stage = "sys"
  /\ at.bytes < SysSize
  /\ UNCHANGED held
  /\ \/ SysError # "NO_ERROR" /\ Fail(SysError)
     \/ /\ SysError = "NO_ERROR"
        /\ LET bytes == at.bytes + KEY_SIZE + CHUNK_ITEM_SIZE
                        + STRIPE_SIZE * Len(SysItem.chunk.stripes)
           IN \/ \* realloc, a stripe or the size fails
                 Fail("INVALID_SYS_CHUNK_ARRAY_SIZE")
              \/ /\ StripeError(SysItem.chunk) = "NO_ERROR" /\ bytes <= SysSize
                 /\ chunks' = AppendChunks(chunks, SysItem.key, SysItem.chunk)
                 /\ at' = [bytes |-> bytes, item |-> at.item + 1]
                 /\ UNCHANGED <<vol, stage, call, stack, result, seen, empty>>

(* Variant: the array is taken for done only beyond its size.              *)
SysEndBeyond ==
  /\ stage = "sys"
  /\ at.bytes > SysSize
  /\ stage' = "chunk"
  /\ call' = Call(Sb.chunk_tree_root_lba, Sb.chunk_root_level, TRUE)
  /\ UNCHANGED <<vol, at, chunks, stack, held, result, seen, empty>>

SysEnd ==
  /\ stage = "sys"
  /\ at.bytes >= SysSize
  /\ stage' = "chunk"
  /\ call' = Call(Sb.chunk_tree_root_lba, Sb.chunk_root_level, TRUE)
  /\ UNCHANGED <<vol, at, chunks, stack, held, result, seen, empty>>

(* parse_btree: the buffer, the address, the read, the checks.  Only a     *)
(* failed read and an empty node free the buffer.                          *)
Phys == Lookup(chunks, call.lba)
Asked == BlockAt(Phys)
Bad == NodeError(Asked, call.lba, call.level, call.root)

ReadNode ==
  /\ call.made
  /\ \/ \* calloc or get_n_sector_at fails
        Fail("IO_ERROR") /\ UNCHANGED held
     \/ /\ Phys % SECTOR_SIZE # 0
        /\ Fail("UNALIGNED_SECTOR") /\ held' = held + 1
     \/ /\ Phys % SECTOR_SIZE = 0
        /\ Bad \notin {"NO_ERROR", "EMPTY_TREE"}
        /\ Fail(Bad) /\ held' = held + 1
     \/ /\ Phys % SECTOR_SIZE = 0
        /\ Bad = "EMPTY_TREE"
        /\ call' = NoCall
        /\ empty' = empty \cup {call.lba}
        /\ UNCHANGED <<vol, stage, at, chunks, stack, held, result, seen>>
     \/ /\ Phys % SECTOR_SIZE = 0
        /\ Bad = "NO_ERROR"
        /\ call' = NoCall
        /\ stack' = Append(stack, [lba |-> call.lba, node |-> Asked, i |-> 1])
        /\ held' = held + 1
        /\ seen' = [seen EXCEPT ![stage] = Append(@, call.lba)]
        /\ UNCHANGED <<vol, stage, at, chunks, result, empty>>

InNode == stage \in {"chunk", "root"} /\ ~call.made /\ stack # <<>>
Advanced == [stack EXCEPT ![Len(stack)].i = @ + 1]

LeafItem ==
  /\ InNode
  /\ Top.node.level = 0
  /\ Top.i <= Len(Top.node.items)
  /\ UNCHANGED held
  /\ LET item == Top.node.items[Top.i]
         kind == item.key.item_type
         error == ChunkError(item.chunk)
     IN \/ /\ kind = "CHUNK_ITEM"
           /\ \/ error # "NO_ERROR" /\ Fail(error)
              \/ error = "NO_ERROR" /\ Fail("IO_ERROR")
              \/ /\ error = "NO_ERROR" /\ StripeError(item.chunk) # "NO_ERROR"
                 /\ Fail(StripeError(item.chunk))
              \/ /\ error = "NO_ERROR" /\ StripeError(item.chunk) = "NO_ERROR"
                 /\ chunks' = AppendChunks(chunks, item.key, item.chunk)
                 /\ stack' = Advanced
                 /\ UNCHANGED <<vol, stage, at, call, result, seen, empty>>
        \/ /\ kind \in PrintedItems
           /\ stack' = Advanced
           /\ UNCHANGED <<vol, stage, at, chunks, call, result, seen, empty>>
        \/ /\ kind \notin PrintedItems \cup {"CHUNK_ITEM"}
           /\ Fail("UNKNOWN_ITEM_TYPE")

(* An internal node calls parse_btree for each child, one level down and   *)
(* with no fs_uuid to compare.                                             *)
ChildNode ==
  /\ InNode
  /\ Top.node.level # 0
  /\ Top.i <= Len(Top.node.children)
  /\ call' = Call(Top.node.children[Top.i], Top.node.level - 1, FALSE)
  /\ stack' = Advanced
  /\ UNCHANGED <<vol, stage, at, chunks, held, result, seen, empty>>

NodeItems(node) == IF node.level = 0 THEN Len(node.items) ELSE Len(node.children)

(* Variant: the buffer of the node is not freed.                           *)
NodeDoneLeaking ==
  /\ InNode
  /\ Top.i > NodeItems(Top.node)
  /\ stack' = SubSeq(stack, 1, Len(stack) - 1)
  /\ UNCHANGED <<vol, stage, at, chunks, call, held, result, seen, empty>>

(* Variant: the loop over the items may end one item early.                *)
NodeDoneEarly ==
  /\ InNode
  /\ Top.i >= NodeItems(Top.node)
  /\ stack' = SubSeq(stack, 1, Len(stack) - 1)
  /\ held' = held - 1
  /\ UNCHANGED <<vol, stage, at, chunks, call, result, seen, empty>>

(* Variant: the buffer is freed twice.                                     *)
NodeDoneFreeingTwice ==
  /\ InNode
  /\ Top.i > NodeItems(Top.node)
  /\ stack' = SubSeq(stack, 1, Len(stack) - 1)
  /\ held' = held - 2
  /\ UNCHANGED <<vol, stage, at, chunks, call, result, seen, empty>>

NodeDone ==
  /\ InNode
  /\ Top.i > NodeItems(Top.node)
  /\ stack' = SubSeq(stack, 1, Len(stack) - 1)
  /\ held' = held - 1
  /\ UNCHANGED <<vol, stage, at, chunks, call, result, seen, empty>>

(* parse_superblock: the chunk tree, then the root tree, then QCOW_TODO.   *)
ChunkTreeDone ==
  /\ stage = "chunk" /\ ~call.made /\ stack = <<>>
  /\ stage' = "root"
  /\ call' = Call(Sb.root_tree_root_lba, Sb.root_tree_level, TRUE)
  /\ UNCHANGED <<vol, at, chunks, stack, held, result, seen, empty>>

RootTreeDone ==
  /\ stage = "root" /\ ~call.made /\ stack = <<>>
  /\ Fail("TODO")
  /\ UNCHANGED held

Next ==
  \/ ReadSuperblock \/ SysChunk \/ SysEnd
  \/ ReadNode \/ LeafItem \/ ChildNode \/ NodeDone
  \/ ChunkTreeDone \/ RootTreeDone

Spec == Init /\ [][Next]_vars
FairSpec == Spec /\ WF_vars(Next)

-----------------------------------------------------------------------------
Chunk == [low_range : Nat, up_range : Nat, phys_offset : Nat, dev_id : Nat]
Frame == [lba : Nat, node : Node, i : Nat \ {0}]

TypeOK ==
  /\ vol \in Volumes
  /\ stage \in {"read", "sys", "chunk", "root", "ended"}
  /\ at \in [bytes : Nat, item : Nat \ {0}]
  /\ chunks \in Seq(Chunk)
  /\ call \in [lba : Nat, level : Nat, root : BOOLEAN, made : BOOLEAN]
  /\ stack \in Seq(Frame)
  /\ held \in Nat
  /\ result \in Errors \cup {"none", "TODO"}
  /\ seen \in [{"chunk", "root"} -> Seq(Nat)] /\ empty \subseteq Nat

(* The recursion of parse_btree is bounded by the level of the root, also  *)
(* when the pointers of the volume form a cycle: a node is entered only    *)
(* one level below its parent (lines 1254 and 1403), and the root only at  *)
(* a level that the superblock check bounds (lines 1179 to 1187).          *)
LevelsDescend ==
  /\ Len(stack) <= BTRFS_MAX_LEVEL + 1
  /\ \A i \in DOMAIN stack :
       stack[i].node.level + i = stack[1].node.level + 1
  /\ call.made /\ stack # <<>> => call.level + 1 = Top.node.level
  /\ call.made => call.level <= BTRFS_MAX_LEVEL

(* A node that is parsed is the one that the volume stores under that      *)
(* address.  The map may resolve the first address of a chunk to the end   *)
(* of the chunk before it (line 1263); what is found there is refused by   *)
(* validate_chunk_tree, unless it is the same node.                        *)
Home(a) == IF a \in DOMAIN vol.home THEN BlockAt(vol.home[a]) ELSE ZeroNode
RightNode == \A i \in DOMAIN stack : stack[i].node = Home(stack[i].lba)

(* A tree parsed whole and in order.  Position p of the list s has its     *)
(* subtree up to end[p], and the subtrees of its children tile what is     *)
(* behind p; a child that read as zero takes no place.                     *)
NodeKids(node) == IF node.level = 0 THEN <<>> ELSE node.children
Kids(a) == NodeKids(Home(a))
Over(s, end, gone, a, from, to) ==
  IF a \in gone THEN to = from
  ELSE from \in DOMAIN end /\ s[from] = a /\ to = end[from] + 1
Tiles(s, end, gone, kids, m, from, to) ==
  \E cut \in [0 .. m -> 1 .. Len(s) + 1] :
    /\ cut[0] = from /\ cut[m] = to
    /\ \A k \in 1 .. m : Over(s, end, gone, kids[k], cut[k - 1], cut[k])
Parsed(s, end, gone, p) ==
  Tiles(s, end, gone, Kids(s[p]), Len(Kids(s[p])), p + 1, end[p] + 1)
InOrder(s, gone, root) ==
  \E end \in [1 .. Len(s) -> 1 .. Len(s)] :
    /\ Over(s, end, gone, root, 1, Len(s) + 1)
    /\ \A p \in DOMAIN end : Parsed(s, end, gone, p)

(* When both walks succeed, each tree was parsed whole and in order, but   *)
(* for the subtrees whose root read as zero (lines 1446 to 1448); and this *)
(* happens to a node that is not zero only at the upper end of a chunk.    *)
NothingMissed ==
  stage = "root" /\ ~call.made /\ stack = <<>> =>
    /\ InOrder(seen["chunk"], empty, Sb.chunk_tree_root_lba)
    /\ InOrder(seen["root"], empty, Sb.root_tree_root_lba)
    /\ \A a \in empty : Home(a).zero \/ \E i \in DOMAIN chunks : chunks[i].up_range = a

(* Each frame holds one node buffer, and nothing is held when both trees   *)
(* were walked; only a failure leaves buffers behind (lines 1433 to 1456). *)
BuffersBalanced ==
  /\ stage # "ended" => held = Len(stack)
  /\ result = "TODO" => held = 0

(* The chunk tree is walked with the map that it extends: no address that  *)
(* was resolved once is resolved differently later in the same mount.      *)
TranslationStable ==
  [][stage' # "ended" =>
       \A a \in Logical :
         Lookup(chunks, a) # NotFound => Lookup(chunks', a) = Lookup(chunks, a)]_vars

(* A mount ends, whatever the volume holds.                                *)
MountEnds == <>(stage = "ended")

=============================================================================
