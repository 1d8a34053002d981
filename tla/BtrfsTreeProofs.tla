--------------------------- MODULE BtrfsTreeProofs ---------------------------
(***************************************************************************)
(* Theorems about BtrfsTree, for every set of volumes and all constants.   *)
(***************************************************************************)
EXTENDS BtrfsTree, Functions, SequenceTheorems, WellFoundedInduction, TLAPS

-----------------------------------------------------------------------------
(* The chunk map.                                                          *)

(* A product of naturals is a natural.                                     *)
LEMMA ProductNat ==
  ASSUME NEW a \in Nat, NEW b \in Nat
  PROVE  a * b \in Nat
  BY SMT

(* A set of naturals that is not empty has a least member.                 *)
LEMMA Least ==
  ASSUME NEW T \in SUBSET Nat, T # {}
  PROVE  \E x \in T : \A y \in T : x <= y
<1>1. PICK x \in T : \A y \in T : ~(<<y, x>> \in OpToRel(<, Nat))
  BY WFMin, NatLessThanWellFounded, Zenon
<1>2. \A y \in T : ~(y < x)
  BY <1>1 DEF OpToRel
<1> QED
  BY <1>2

(* The least index of a range with the address is the one that is taken.   *)
First(map, a, i) ==
  i \in DOMAIN map /\ Holds(map[i], a) /\ \A j \in DOMAIN map : Holds(map[j], a) => i <= j

LEMMA LookupFirst ==
  ASSUME NEW map \in Seq(Chunk), NEW a, NEW i, First(map, a, i)
  PROVE  Lookup(map, a) = map[i].phys_offset + (a - map[i].low_range)
<1>1. DOMAIN map \subseteq Nat
  BY LenProperties
<1>2. \A k : First(map, a, k) => k = i
  BY <1>1 DEF First
<1>3. i = CHOOSE k \in DOMAIN map : Holds(map[k], a) /\ \A j \in DOMAIN map : Holds(map[j], a) => k <= j
  BY <1>2 DEF First
<1> QED
  BY <1>3 DEF Lookup, First

LEMMA FirstExists ==
  ASSUME NEW map \in Seq(Chunk), NEW a, \E i \in DOMAIN map : Holds(map[i], a)
  PROVE  \E i : First(map, a, i)
<1>1. DOMAIN map \subseteq Nat
  BY LenProperties
<1>2. PICK i \in {j \in DOMAIN map : Holds(map[j], a)} :
         \A j \in {k \in DOMAIN map : Holds(map[k], a)} : i <= j
  BY <1>1, Least
<1> QED
  BY <1>2 DEF First

(* What is appended to a map does not change an address it resolves.       *)
LEMMA LookupStable ==
  ASSUME NEW map \in Seq(Chunk), NEW more \in Seq(Chunk), NEW a, Lookup(map, a) # NotFound
  PROVE  Lookup(map \o more, a) = Lookup(map, a)
<1>1. PICK i : First(map, a, i)
  BY FirstExists DEF Lookup
<1>2. map \o more \in Seq(Chunk) /\ DOMAIN (map \o more) = 1 .. Len(map) + Len(more)
      /\ DOMAIN map = 1 .. Len(map) /\ Len(map) \in Nat /\ Len(more) \in Nat
  BY ConcatProperties, LenProperties
<1>3. \A j \in DOMAIN map : j \in DOMAIN (map \o more) /\ (map \o more)[j] = map[j]
  BY <1>2, ConcatProperties
<1>4. First(map \o more, a, i)
  <2>1. i \in DOMAIN (map \o more) /\ Holds((map \o more)[i], a)
    BY <1>1, <1>3 DEF First
  <2>2. ASSUME NEW j \in DOMAIN (map \o more), Holds((map \o more)[j], a) PROVE i <= j
    <3>1. CASE j \in DOMAIN map
      BY <1>1, <1>3, <2>2, <3>1 DEF First
    <3>2. CASE j \notin DOMAIN map
      BY <1>1, <1>2, <3>2 DEF First
    <3> QED
      BY <3>1, <3>2
  <2> QED
    BY <2>1, <2>2 DEF First
<1>5. (map \o more)[i] = map[i]
  BY <1>1, <1>3 DEF First
<1>6. Lookup(map, a) = map[i].phys_offset + (a - map[i].low_range)
  BY <1>1, LookupFirst
<1>7. Lookup(map \o more, a)
      = (map \o more)[i].phys_offset + (a - (map \o more)[i].low_range)
  BY <1>2, <1>4, LookupFirst
<1> QED
  BY <1>5, <1>6, <1>7, Zenon

-----------------------------------------------------------------------------
(* The inductive invariant: the types; what has been checked of the        *)
(* superblock; where a call and frames are possible; the levels of the     *)
(* frames and of the call; and the buffers.                                *)
Staged ==
  /\ stage # "ended" => result = "none"
  /\ stage \in {"sys", "chunk", "root"} =>
       {Sb.root_tree_level, Sb.chunk_root_level} \subseteq 0 .. BTRFS_MAX_LEVEL
  /\ call.made \/ stack # <<>> => stage \in {"chunk", "root"}

Levels ==
  /\ \A i \in DOMAIN stack : stack[i].node.level + i = stack[1].node.level + 1
  /\ stack # <<>> => stack[1].node.level <= BTRFS_MAX_LEVEL
  /\ call.made => call.level <= BTRFS_MAX_LEVEL
  /\ call.made /\ stack # <<>> => call.level + 1 = Top.node.level

WalkInv == TypeOK /\ Staged /\ Levels /\ BuffersBalanced

(* What the volumes hold.                                                  *)
LEMMA VolumeTypes ==
  ASSUME vol \in Volumes
  PROVE  /\ Sb \in Superblock
         /\ \A p : BlockAt(p) \in Node
<1>1. Sb \in Superblock
  BY VolumesAssumption DEF Sb
<1>2. ZeroNode \in Node
  <2>1. <<>> \in Seq(Item) /\ <<>> \in Seq(Nat)
    BY EmptySeq
  <2> QED
    BY <2>1 DEF ZeroNode, Node
<1>3. \A p : BlockAt(p) \in Node
  BY <1>2, VolumesAssumption DEF BlockAt
<1> QED
  BY <1>1, <1>3

LEMMA FrameFacts ==
  ASSUME TypeOK, stack # <<>>
  PROVE  /\ Len(stack) \in Nat \ {0} /\ DOMAIN stack = 1 .. Len(stack)
         /\ Top \in Frame /\ Top.node \in Node /\ Top.i \in Nat /\ Top.node.level \in Nat
         /\ \A i \in DOMAIN stack : stack[i] \in Frame /\ stack[i].node.level \in Nat
<1>1. stack \in Seq(Frame)
  BY DEF TypeOK
<1>2. Len(stack) \in Nat \ {0} /\ DOMAIN stack = 1 .. Len(stack)
  BY <1>1, EmptySeq, LenProperties
<1>3. \A i \in DOMAIN stack : stack[i] \in Frame
  BY <1>1, <1>2, ElementOfSeq
<1> QED
  BY <1>2, <1>3 DEF Top, Frame, Node

(* The errors of the checks are among those that are listed.               *)
LEMMA ErrorRange ==
  ASSUME vol \in Volumes
  PROVE  /\ SuperError \in Errors
         /\ SysError \in Errors
         /\ Bad \in Errors
         /\ \A item : ChunkError(item) \in Errors /\ StripeError(item) \in Errors
<1>1. Sb.fault \in Fault
  BY VolumeTypes DEF Superblock
<1>2. SuperError \in Fault \cup {"INVALID_SIZE", "INVALID_LEVEL", "crash", "UNALIGNED_SECTOR", "NO_ERROR"}
  BY <1>1, Zenon DEF SuperError
<1>3. ASSUME NEW item
      PROVE  /\ ChunkError(item) \in {"crash", "UNALIGNED_LENGTH", "CHUNK_ITEM_WITH_NO_STRIPES",
                                       "FIELD_MISMATCH", "INVALID_STRIPE_LENGTH", "NO_ERROR"}
             /\ StripeError(item) \in {"UNALIGNED_OFFSET", "NO_ERROR"}
  BY Zenon DEF ChunkError, StripeError
<1>4. SysError \in {"INVALID_SYS_CHUNK_ARRAY_SIZE", "crash", "NO_ERROR"}
  BY Zenon DEF SysError
<1>5. Bad \in {"EMPTY_TREE", "INVALID_CRC_CHECKSUM", "GUID_MISMATCH", "FIELD_MISMATCH", "NO_ERROR"}
  BY Zenon DEF Bad, NodeError
<1> QED
  BY <1>2, <1>3, <1>4, <1>5 DEF Errors

(* A chunk item that is read extends the map by chunks.                    *)
StripeChunks(key, item) ==
  [i \in DOMAIN item.stripes |->
     [low_range |-> key.offset, up_range |-> key.offset + item.length,
      phys_offset |-> item.stripes[i].offset, dev_id |-> item.stripes[1].dev_id]]

LEMMA StripeChunksType ==
  ASSUME NEW key \in Key, NEW item \in ChunkItem
  PROVE  StripeChunks(key, item) \in Seq(Chunk)
<1>1. item.stripes \in Seq(Stripe) /\ key.offset \in Nat /\ item.length \in Nat
  BY DEF Key, ChunkItem
<1>2. DOMAIN item.stripes = 1 .. Len(item.stripes) /\ Len(item.stripes) \in Nat
  BY <1>1, LenProperties
<1>3. ASSUME NEW i \in 1 .. Len(item.stripes)
      PROVE  [low_range |-> key.offset, up_range |-> key.offset + item.length,
              phys_offset |-> item.stripes[i].offset, dev_id |-> item.stripes[1].dev_id] \in Chunk
  <2>1. 1 \in 1 .. Len(item.stripes)
    BY <1>2, <1>3
  <2>2. item.stripes[i] \in Stripe /\ item.stripes[1] \in Stripe
    BY <1>1, <1>3, <2>1, ElementOfSeq
  <2> QED
    BY <1>1, <2>2, SMTT(30) DEF Stripe, Chunk
<1> QED
  BY <1>2, <1>3, IsASeq DEF StripeChunks

LEMMA AppendChunksType ==
  ASSUME NEW map \in Seq(Chunk), NEW key \in Key, NEW item \in ChunkItem
  PROVE  AppendChunks(map, key, item) \in Seq(Chunk)
BY StripeChunksType, ConcatProperties DEF AppendChunks, StripeChunks

-----------------------------------------------------------------------------
LEMMA InitWalk == Init => WalkInv
<1> SUFFICES ASSUME Init PROVE WalkInv
  OBVIOUS
<1>1. /\ <<>> \in Seq(Chunk) /\ <<>> \in Seq(Frame) /\ <<>> \in Seq(Nat)
      /\ Len(<<>>) = 0 /\ DOMAIN <<>> = {}
  BY EmptySeq
<1>2. TypeOK
  BY <1>1 DEF Init, TypeOK, NoCall
<1> QED
  BY <1>1, <1>2 DEF Init, WalkInv, Staged, Levels, BuffersBalanced, NoCall

LEMMA StutterWalk == WalkInv /\ UNCHANGED vars => WalkInv'
BY DEF WalkInv, TypeOK, Staged, Levels, BuffersBalanced, vars, Sb, Top

(* A failure leaves no frame and no call.                                  *)
LEMMA FailWalk ==
  ASSUME WalkInv, NEW error \in Errors \cup {"TODO"}, Fail(error), held' \in Nat,
         error = "TODO" => held' = 0
  PROVE  WalkInv'
<1>1. <<>> \in Seq(Chunk) /\ <<>> \in Seq(Frame) /\ DOMAIN <<>> = {}
  BY EmptySeq
<1>2. /\ stage' = "ended" /\ result' = error /\ chunks' = <<>> /\ call' = NoCall /\ stack' = <<>>
      /\ UNCHANGED <<vol, at, seen, empty>>
  BY DEF Fail
<1>3. TypeOK'
  BY <1>1, <1>2 DEF WalkInv, TypeOK, NoCall
<1> QED
  BY <1>1, <1>2, <1>3 DEF WalkInv, Staged, Levels, BuffersBalanced, NoCall

LEMMA ReadSuperblockWalk == ASSUME WalkInv, ReadSuperblock PROVE WalkInv'
<1>1. vol \in Volumes /\ held \in Nat /\ stage = "read"
  BY DEF WalkInv, TypeOK, ReadSuperblock
<1>2. CASE Fail("IO_ERROR") /\ UNCHANGED held
  BY <1>1, <1>2, FailWalk DEF Errors
<1>3. CASE Fail(SuperError) /\ UNCHANGED held
  BY <1>1, <1>3, FailWalk, ErrorRange DEF Errors, Fault
<1>4. CASE SuperError = "NO_ERROR" /\ stage' = "sys"
           /\ UNCHANGED <<vol, at, chunks, call, stack, held, result, seen, empty>>
  <2>1. Sb \in Superblock
    BY <1>1, VolumeTypes
  <2>2. \A l \in {Sb.root_tree_level, Sb.chunk_root_level, Sb.log_root_level} : l <= BTRFS_MAX_LEVEL
    <3>1. Sb.fault \in Fault
      BY <2>1 DEF Superblock
    <3>2. ~\E l \in {Sb.root_tree_level, Sb.chunk_root_level, Sb.log_root_level} : l > BTRFS_MAX_LEVEL
      BY <1>4 DEF SuperError
    <3>3. {Sb.root_tree_level, Sb.chunk_root_level, Sb.log_root_level} \subseteq Nat
      BY <2>1 DEF Superblock
    <3> QED
      BY <3>2, <3>3, ConstantsAssumption
  <2>3. {Sb.root_tree_level, Sb.chunk_root_level} \subseteq 0 .. BTRFS_MAX_LEVEL
    BY <2>1, <2>2, ConstantsAssumption DEF Superblock
  <2>4. Sb' = Sb
    BY <1>4 DEF Sb
  <2>5. TypeOK'
    BY <1>4 DEF WalkInv, TypeOK
  <2> QED
    BY <1>1, <1>4, <2>3, <2>4, <2>5 DEF WalkInv, Staged, Levels, BuffersBalanced, Top
<1> QED
  BY <1>2, <1>3, <1>4 DEF ReadSuperblock

LEMMA SysChunkWalk == ASSUME WalkInv, SysChunk PROVE WalkInv'
<1>1. vol \in Volumes /\ held \in Nat /\ stage = "sys" /\ at \in [bytes : Nat, item : Nat \ {0}]
      /\ UNCHANGED held
  BY DEF WalkInv, TypeOK, SysChunk
<1>2. CASE Fail(SysError) \/ Fail("INVALID_SYS_CHUNK_ARRAY_SIZE")
  BY <1>1, <1>2, FailWalk, ErrorRange DEF Errors, Fault
<1>3. CASE /\ SysError = "NO_ERROR"
           /\ chunks' = AppendChunks(chunks, SysItem.key, SysItem.chunk)
           /\ at' = [bytes |-> at.bytes + KEY_SIZE + CHUNK_ITEM_SIZE
                                + STRIPE_SIZE * Len(SysItem.chunk.stripes),
                     item |-> at.item + 1]
           /\ UNCHANGED <<vol, stage, call, stack, result, seen, empty>>
  <2>1. Sb.sys_chunk_array \in Seq(Item)
    BY <1>1, VolumeTypes DEF Superblock
  <2>2. at.item \in DOMAIN Sb.sys_chunk_array
    <3>1. at.item <= Len(Sb.sys_chunk_array)
      BY <1>1, <1>3, <2>1, LenProperties DEF SysError
    <3> QED
      BY <1>1, <2>1, <3>1, LenProperties
  <2>3. SysItem \in Item
    BY <2>1, <2>2, ElementOfSeq, LenProperties DEF SysItem
  <2>4. SysItem.key \in Key /\ SysItem.chunk \in ChunkItem
    BY <2>3 DEF Item
  <2>5. chunks' \in Seq(Chunk)
    BY <1>3, <2>4, AppendChunksType DEF WalkInv, TypeOK
  <2>6. STRIPE_SIZE * Len(SysItem.chunk.stripes) \in Nat
    <3>1. Len(SysItem.chunk.stripes) \in Nat
      BY <2>4, LenProperties DEF ChunkItem
    <3> QED
      BY <3>1, ProductNat, ConstantsAssumption
  <2>7. at' \in [bytes : Nat, item : Nat \ {0}]
    <3>1. PICK n \in Nat : n = STRIPE_SIZE * Len(SysItem.chunk.stripes)
      BY <2>6
    <3>2. at' = [bytes |-> at.bytes + KEY_SIZE + CHUNK_ITEM_SIZE + n, item |-> at.item + 1]
      BY <1>3, <3>1, Zenon
    <3> QED
      BY <1>1, <3>2, ConstantsAssumption
  <2>8. TypeOK'
    BY <1>1, <1>3, <2>5, <2>7 DEF WalkInv, TypeOK
  <2>9. Sb' = Sb
    BY <1>3 DEF Sb
  <2> QED
    BY <1>1, <1>3, <2>8, <2>9 DEF WalkInv, Staged, Levels, BuffersBalanced, Top
<1> QED
  BY <1>2, <1>3 DEF SysChunk

LEMMA SysEndWalk == ASSUME WalkInv, SysEnd PROVE WalkInv'
<1>1. /\ stage = "sys" /\ stage' = "chunk" /\ stack = <<>> /\ vol \in Volumes
      /\ call' = Call(Sb.chunk_tree_root_lba, Sb.chunk_root_level, TRUE)
      /\ UNCHANGED <<vol, at, chunks, stack, held, result, seen, empty>>
  BY DEF WalkInv, TypeOK, Staged, SysEnd
<1>2. Sb.chunk_tree_root_lba \in Nat /\ Sb.chunk_root_level \in 0 .. BTRFS_MAX_LEVEL
  BY <1>1, VolumeTypes DEF WalkInv, Staged, Superblock
<1>3. TypeOK'
  BY <1>1, <1>2 DEF WalkInv, TypeOK, Call
<1>4. Sb' = Sb
  BY <1>1 DEF Sb
<1> QED
  BY <1>1, <1>2, <1>3, <1>4, ConstantsAssumption, EmptySeq
     DEF WalkInv, Staged, Levels, BuffersBalanced, Call

LEMMA ChunkTreeDoneWalk == ASSUME WalkInv, ChunkTreeDone PROVE WalkInv'
<1>1. /\ stage = "chunk" /\ stage' = "root" /\ stack = <<>> /\ vol \in Volumes
      /\ call' = Call(Sb.root_tree_root_lba, Sb.root_tree_level, TRUE)
      /\ UNCHANGED <<vol, at, chunks, stack, held, result, seen, empty>>
  BY DEF WalkInv, TypeOK, ChunkTreeDone
<1>2. Sb.root_tree_root_lba \in Nat /\ Sb.root_tree_level \in 0 .. BTRFS_MAX_LEVEL
  BY <1>1, VolumeTypes DEF WalkInv, Staged, Superblock
<1>3. TypeOK'
  BY <1>1, <1>2 DEF WalkInv, TypeOK, Call
<1>4. Sb' = Sb
  BY <1>1 DEF Sb
<1> QED
  BY <1>1, <1>2, <1>3, <1>4, ConstantsAssumption, EmptySeq
     DEF WalkInv, Staged, Levels, BuffersBalanced, Call

LEMMA RootTreeDoneWalk == ASSUME WalkInv, RootTreeDone PROVE WalkInv'
<1>1. stage = "root" /\ stack = <<>> /\ Fail("TODO") /\ held' = held
  BY DEF RootTreeDone
<1>2. held = 0
  BY <1>1, EmptySeq DEF WalkInv, BuffersBalanced
<1> QED
  BY <1>1, <1>2, FailWalk

LEMMA OneBelow ==
  ASSUME NEW a \in Nat, NEW b \in Nat, NEW c \in Nat, NEW n \in Nat, a + 1 = b, b + n = c + 1
  PROVE  a + (n + 1) = c + 1
OBVIOUS

(* A node is entered with its buffer at the level that was asked for.      *)
LEMMA EnterNode ==
  ASSUME WalkInv, call.made, Bad = "NO_ERROR",
         call' = NoCall, stack' = Append(stack, [lba |-> call.lba, node |-> Asked, i |-> 1]),
         held' = held + 1, seen' = [seen EXCEPT ![stage] = Append(@, call.lba)],
         UNCHANGED <<vol, stage, at, chunks, result, empty>>
  PROVE  WalkInv'
<1> DEFINE frame == [lba |-> call.lba, node |-> Asked, i |-> 1]
           n == Len(stack)
<1>1. /\ vol \in Volumes /\ stage \in {"chunk", "root"} /\ stack \in Seq(Frame) /\ held = n
      /\ call \in [lba : Nat, level : Nat, root : BOOLEAN, made : BOOLEAN]
      /\ seen \in [{"chunk", "root"} -> Seq(Nat)] /\ n \in Nat
  BY LenProperties DEF WalkInv, TypeOK, Staged, BuffersBalanced
<1>2. Asked \in Node /\ Asked.level = call.level
  <2>1. Asked \in Node
    BY <1>1, VolumeTypes DEF Asked
  <2>2. Asked.level = call.level
    BY Zenon DEF Bad, NodeError
  <2> QED
    BY <2>1, <2>2
<1>3. frame \in Frame
  BY <1>1, <1>2 DEF Frame
<1>4. /\ stack' \in Seq(Frame) /\ Len(stack') = n + 1 /\ stack'[n + 1] = frame
      /\ \A i \in 1 .. n : stack'[i] = stack[i]
      /\ DOMAIN stack' = 1 .. n + 1 /\ DOMAIN stack = 1 .. n
  BY <1>1, <1>3, AppendProperties, LenProperties
<1>5. seen' \in [{"chunk", "root"} -> Seq(Nat)]
  BY <1>1, AppendProperties
<1>6. TypeOK'
  BY <1>1, <1>4, <1>5 DEF WalkInv, TypeOK, NoCall
<1>7. Levels'
  <2>1. CASE n = 0
    <3>1. stack'[1] = frame /\ DOMAIN stack' = {1}
      BY <1>4, <2>1
    <3> QED
      BY <1>1, <1>2, <3>1 DEF WalkInv, Levels, NoCall, Node
  <2>2. CASE n # 0
    <3>1. stack # <<>> /\ 1 \in 1 .. n /\ n \in 1 .. n
      BY <1>1, <2>2, EmptySeq
    <3>2. call.level + 1 = stack[n].node.level /\ stack[n].node.level + n = stack[1].node.level + 1
          /\ stack[1].node.level <= BTRFS_MAX_LEVEL
      BY <1>4, <3>1 DEF WalkInv, Levels, Top
    <3>3. stack[n].node.level \in Nat /\ stack[1].node.level \in Nat
      BY <1>4, <3>1, FrameFacts DEF WalkInv
    <3>4. frame.node.level + (n + 1) = stack[1].node.level + 1
      <4>1. frame.node.level = call.level /\ call.level \in Nat
        BY <1>1, <1>2
      <4>2. PICK a, b, c, k : a = call.level /\ b = stack[n].node.level /\ c = stack[1].node.level /\ k = n
        OBVIOUS
      <4>3. a \in Nat /\ b \in Nat /\ c \in Nat /\ k \in Nat
        BY <1>1, <3>3, <4>1, <4>2
      <4>4. a + 1 = b /\ b + k = c + 1
        BY <3>2, <4>2
      <4>5. a + (k + 1) = c + 1
        BY <4>3, <4>4, OneBelow
      <4> QED
        BY <4>1, <4>2, <4>5
    <3>5. ASSUME NEW i \in 1 .. n + 1
          PROVE  stack'[i].node.level + i = stack'[1].node.level + 1
      <4>1. CASE i = n + 1
        BY <1>4, <3>1, <3>4, <4>1
      <4>2. CASE i # n + 1
        <5>1. i \in 1 .. n
          BY <1>1, <3>5, <4>2
        <5>2. stack[i].node.level + i = stack[1].node.level + 1
          BY <1>4, <5>1 DEF WalkInv, Levels
        <5> QED
          BY <1>4, <3>1, <5>1, <5>2
      <4> QED
        BY <4>1, <4>2
    <3> QED
      BY <1>4, <3>1, <3>2, <3>5 DEF Levels, NoCall
  <2> QED
    BY <2>1, <2>2
<1>8. Staged' /\ BuffersBalanced'
  BY <1>1, <1>4 DEF WalkInv, Staged, BuffersBalanced, NoCall, Sb
<1> QED
  BY <1>6, <1>7, <1>8 DEF WalkInv

LEMMA ReadNodeWalk == ASSUME WalkInv, ReadNode PROVE WalkInv'
<1>1. vol \in Volumes /\ held \in Nat /\ call.made /\ stage \in {"chunk", "root"}
  BY DEF WalkInv, TypeOK, Staged, ReadNode
<1>2. CASE Fail("IO_ERROR") /\ UNCHANGED held
  BY <1>1, <1>2, FailWalk DEF Errors, Fault
<1>3. CASE Fail("UNALIGNED_SECTOR") /\ held' = held + 1
  BY <1>1, <1>3, FailWalk DEF Errors, Fault
<1>4. CASE Fail(Bad) /\ held' = held + 1
  BY <1>1, <1>4, FailWalk, ErrorRange DEF Errors, Fault
<1>5. CASE /\ call' = NoCall /\ empty' = empty \cup {call.lba}
           /\ UNCHANGED <<vol, stage, at, chunks, stack, held, result, seen>>
  <2>1. TypeOK'
    BY <1>5 DEF WalkInv, TypeOK, NoCall
  <2> QED
    BY <1>1, <1>5, <2>1 DEF WalkInv, Staged, Levels, BuffersBalanced, NoCall, Sb, Top
<1>6. CASE /\ Bad = "NO_ERROR" /\ call' = NoCall
           /\ stack' = Append(stack, [lba |-> call.lba, node |-> Asked, i |-> 1])
           /\ held' = held + 1 /\ seen' = [seen EXCEPT ![stage] = Append(@, call.lba)]
           /\ UNCHANGED <<vol, stage, at, chunks, result, empty>>
  BY <1>1, <1>6, EnterNode
<1> QED
  BY <1>2, <1>3, <1>4, <1>5, <1>6 DEF ReadNode

LEMMA NextItem ==
  ASSUME NEW f \in Frame
  PROVE  [f EXCEPT !.i = @ + 1] \in Frame /\ [f EXCEPT !.i = @ + 1].node = f.node
BY DEF Frame

(* A frame that goes on to its next item.                                  *)
LEMMA AdvanceFrame ==
  ASSUME WalkInv, stack # <<>>, stack' = Advanced
  PROVE  /\ stack' \in Seq(Frame) /\ stack' # <<>> /\ Len(stack') = Len(stack)
         /\ DOMAIN stack' = DOMAIN stack /\ 1 \in DOMAIN stack
         /\ \A i \in DOMAIN stack : stack'[i].node = stack[i].node
         /\ Top'.node = Top.node
<1> DEFINE n == Len(stack)
           frame == [stack[n] EXCEPT !.i = @ + 1]
<1>1. /\ stack \in Seq(Frame) /\ n \in Nat \ {0} /\ DOMAIN stack = 1 .. n /\ stack[n] \in Frame
      /\ \A i \in 1 .. n : stack[i] \in Frame
  BY FrameFacts DEF WalkInv, TypeOK
<1>2. frame \in Frame /\ frame.node = stack[n].node
  BY <1>1, NextItem
<1>3. stack' = [stack EXCEPT ![n] = frame]
  BY DEF Advanced
<1>4. /\ stack' \in Seq(Frame) /\ Len(stack') = n
      /\ \A j \in 1 .. n : stack'[j] = IF j = n THEN frame ELSE stack[j]
  BY <1>1, <1>2, <1>3, ExceptSeq
<1>5. DOMAIN stack' = 1 .. n /\ stack' # <<>>
  BY <1>1, <1>4, LenProperties, EmptySeq
<1>6. \A i \in 1 .. n : stack'[i].node = stack[i].node
  BY <1>2, <1>4
<1> QED
  BY <1>1, <1>4, <1>5, <1>6 DEF Top

LEMMA LeafItemWalk == ASSUME WalkInv, LeafItem PROVE WalkInv'
<1> DEFINE item == Top.node.items[Top.i]
<1>1. /\ vol \in Volumes /\ held \in Nat /\ held' = held /\ stack # <<>> /\ ~call.made
      /\ stage \in {"chunk", "root"} /\ Top.i <= Len(Top.node.items)
  BY DEF WalkInv, TypeOK, LeafItem, InNode
<1>2. CASE Fail(ChunkError(item.chunk)) \/ Fail("IO_ERROR") \/ Fail(StripeError(item.chunk))
           \/ Fail("UNKNOWN_ITEM_TYPE")
  BY <1>1, <1>2, FailWalk, ErrorRange DEF Errors, Fault
<1>3. ASSUME stack' = Advanced, chunks' \in Seq(Chunk),
             UNCHANGED <<vol, stage, at, call, result, seen, empty>>
      PROVE  WalkInv'
  <2>1. TypeOK'
    BY <1>1, <1>3, AdvanceFrame DEF WalkInv, TypeOK
  <2>2. Levels'
    BY <1>1, <1>3, AdvanceFrame DEF WalkInv, Levels
  <2> QED
    BY <1>1, <1>3, <2>1, <2>2, AdvanceFrame DEF WalkInv, Staged, BuffersBalanced, Sb
<1>4. CASE /\ chunks' = AppendChunks(chunks, item.key, item.chunk)
           /\ stack' = Advanced
           /\ UNCHANGED <<vol, stage, at, call, result, seen, empty>>
  <2>1. Top \in Frame /\ Top.node.items \in Seq(Item) /\ Top.i \in Nat
    BY <1>1, FrameFacts DEF WalkInv, Node
  <2>2. Top.i # 0
    BY <1>1, FrameFacts DEF WalkInv, TypeOK, Frame
  <2>3. item \in Item
    BY <1>1, <2>1, <2>2, ElementOfSeq, LenProperties
  <2>4. chunks' \in Seq(Chunk)
    BY <1>4, <2>3, AppendChunksType DEF WalkInv, TypeOK, Item
  <2> QED
    BY <1>3, <1>4, <2>4
<1>5. CASE stack' = Advanced /\ UNCHANGED <<vol, stage, at, chunks, call, result, seen, empty>>
  BY <1>3, <1>5 DEF WalkInv, TypeOK
<1> QED
  BY <1>2, <1>4, <1>5 DEF LeafItem

LEMMA ChildNodeWalk == ASSUME WalkInv, ChildNode PROVE WalkInv'
<1>1. /\ stack # <<>> /\ stage \in {"chunk", "root"} /\ stack' = Advanced
      /\ Top.node.level # 0 /\ Top.i <= Len(Top.node.children)
      /\ call' = Call(Top.node.children[Top.i], Top.node.level - 1, FALSE)
      /\ UNCHANGED <<vol, stage, at, chunks, held, result, seen, empty>>
  BY DEF ChildNode, InNode
<1>2. Top.node \in Node /\ Top.i \in Nat \ {0} /\ Top.node.level \in Nat \ {0}
  BY <1>1, FrameFacts DEF WalkInv, Frame
<1>3. Top.node.children[Top.i] \in Nat
  BY <1>1, <1>2, ElementOfSeq, LenProperties DEF Node
<1>4. call' \in [lba : Nat, level : Nat, root : BOOLEAN, made : BOOLEAN]
      /\ call'.level + 1 = Top.node.level
  BY <1>1, <1>2, <1>3 DEF Call
<1>5. TypeOK'
  BY <1>1, <1>4, AdvanceFrame DEF WalkInv, TypeOK
<1>6. Top.node.level <= BTRFS_MAX_LEVEL
  <2> DEFINE n == Len(stack)
  <2>1. n \in Nat \ {0} /\ n \in DOMAIN stack /\ 1 \in DOMAIN stack
    BY <1>1, FrameFacts DEF WalkInv
  <2>2. stack[n].node.level + n = stack[1].node.level + 1 /\ stack[1].node.level <= BTRFS_MAX_LEVEL
    BY <1>1, <2>1 DEF WalkInv, Levels
  <2>3. stack[1].node.level \in Nat /\ stack[n].node.level \in Nat
    BY <1>1, <2>1, FrameFacts DEF WalkInv
  <2> QED
    BY <2>1, <2>2, <2>3, ConstantsAssumption, SMTT(30) DEF Top
<1>7. Levels'
  <2>1. \A i \in DOMAIN stack' : stack'[i].node.level + i = stack'[1].node.level + 1
    BY <1>1, AdvanceFrame DEF WalkInv, Levels
  <2>2. stack'[1].node.level <= BTRFS_MAX_LEVEL
    BY <1>1, AdvanceFrame DEF WalkInv, Levels
  <2>3. call'.level <= BTRFS_MAX_LEVEL /\ call'.level + 1 = Top'.node.level
    <3>1. Top'.node = Top.node
      BY <1>1, AdvanceFrame
    <3>2. call'.level \in Nat
      BY <1>4
    <3> QED
      BY <1>2, <1>4, <1>6, <3>1, <3>2, ConstantsAssumption
  <2> QED
    BY <2>1, <2>2, <2>3 DEF Levels
<1> QED
  BY <1>1, <1>5, <1>7, AdvanceFrame DEF WalkInv, Staged, BuffersBalanced, Sb

LEMMA NodeDoneWalk == ASSUME WalkInv, NodeDone PROVE WalkInv'
<1> DEFINE n == Len(stack)
<1>1. /\ stack # <<>> /\ ~call.made /\ stage \in {"chunk", "root"}
      /\ stack' = SubSeq(stack, 1, n - 1) /\ held' = held - 1
      /\ UNCHANGED <<vol, stage, at, chunks, call, result, seen, empty>>
  BY DEF NodeDone, InNode
<1>2. stack \in Seq(Frame) /\ n \in Nat \ {0} /\ DOMAIN stack = 1 .. n
      /\ \A i \in 1 .. n : stack[i] \in Frame
  BY <1>1, FrameFacts DEF WalkInv, TypeOK
<1>3. /\ stack' \in Seq(Frame) /\ Len(stack') = n - 1 /\ DOMAIN stack' = 1 .. n - 1
      /\ \A i \in 1 .. n - 1 : stack'[i] = stack[i]
  BY <1>1, <1>2, SubSeqProperties, LenProperties
<1>4. held = n /\ held' = n - 1 /\ held' \in Nat
  BY <1>1, <1>2 DEF WalkInv, BuffersBalanced
<1>5. TypeOK'
  BY <1>1, <1>3, <1>4 DEF WalkInv, TypeOK
<1>6. Levels'
  <2>1. stack' # <<>> => 1 \in 1 .. n - 1
    BY <1>2, <1>3, EmptySeq
  <2>2. \A i \in 1 .. n - 1 : stack'[i].node.level + i = stack'[1].node.level + 1
    <3> SUFFICES ASSUME NEW i \in 1 .. n - 1
                 PROVE  stack'[i].node.level + i = stack'[1].node.level + 1
      OBVIOUS
    <3>1. 1 \in 1 .. n - 1 /\ i \in 1 .. n
      BY <1>2
    <3>2. stack[i].node.level + i = stack[1].node.level + 1
      BY <1>2, <3>1 DEF WalkInv, Levels
    <3> QED
      BY <1>3, <3>1, <3>2
  <2> QED
    BY <1>1, <1>3, <2>1, <2>2 DEF WalkInv, Levels
<1> QED
  BY <1>1, <1>3, <1>4, <1>5, <1>6 DEF WalkInv, Staged, BuffersBalanced, Sb

-----------------------------------------------------------------------------
LEMMA WalkStep == WalkInv /\ [Next]_vars => WalkInv'
<1> SUFFICES ASSUME WalkInv, [Next]_vars PROVE WalkInv'
  OBVIOUS
<1> QED
  BY ReadSuperblockWalk, SysChunkWalk, SysEndWalk, ReadNodeWalk, LeafItemWalk, ChildNodeWalk,
     NodeDoneWalk, ChunkTreeDoneWalk, RootTreeDoneWalk, StutterWalk DEF Next

(* The levels below the root bound the frames.                             *)
LEMMA LevelsBound == WalkInv => LevelsDescend
<1> SUFFICES ASSUME WalkInv PROVE LevelsDescend
  OBVIOUS
<1>1. Len(stack) <= BTRFS_MAX_LEVEL + 1
  <2>1. CASE stack = <<>>
    BY <2>1, EmptySeq, ConstantsAssumption
  <2>2. CASE stack # <<>>
    <3> DEFINE n == Len(stack)
    <3>1. n \in Nat \ {0} /\ n \in DOMAIN stack /\ 1 \in DOMAIN stack
      BY <2>2, FrameFacts DEF WalkInv
    <3>2. stack[n].node.level + n = stack[1].node.level + 1 /\ stack[1].node.level <= BTRFS_MAX_LEVEL
      BY <2>2, <3>1 DEF WalkInv, Levels
    <3>3. stack[1].node.level \in Nat /\ stack[n].node.level \in Nat
      BY <2>2, <3>1, FrameFacts DEF WalkInv
    <3> QED
      BY <3>1, <3>2, <3>3, ConstantsAssumption, SMTT(30)
  <2> QED
    BY <2>1, <2>2
<1> QED
  BY <1>1 DEF WalkInv, Levels, LevelsDescend

(* A step of a mount that goes on keeps the map or appends to it.          *)
LEMMA MapGrows ==
  ASSUME WalkInv, [Next]_vars, stage' # "ended"
  PROVE  chunks' = chunks \/ \E more \in Seq(Chunk) : chunks' = chunks \o more
<1>1. vol \in Volumes
  BY DEF WalkInv, TypeOK
<1>2. CASE SysChunk
  <2>1. SysError = "NO_ERROR" /\ chunks' = AppendChunks(chunks, SysItem.key, SysItem.chunk)
    BY <1>2 DEF SysChunk, Fail
  <2>2. Sb.sys_chunk_array \in Seq(Item) /\ at.item \in Nat \ {0}
    BY <1>1, VolumeTypes DEF Superblock, WalkInv, TypeOK
  <2>3. at.item \in DOMAIN Sb.sys_chunk_array
    <3>1. at.item <= Len(Sb.sys_chunk_array)
      BY <2>1, <2>2, LenProperties DEF SysError
    <3> QED
      BY <2>2, <3>1, LenProperties
  <2>4. SysItem \in Item
    BY <2>2, <2>3, ElementOfSeq, LenProperties DEF SysItem
  <2> QED
    BY <2>1, <2>4, StripeChunksType DEF AppendChunks, StripeChunks, Item
<1>3. CASE LeafItem
  <2> DEFINE item == Top.node.items[Top.i]
  <2>1. chunks' = chunks \/ chunks' = AppendChunks(chunks, item.key, item.chunk)
    BY <1>3 DEF LeafItem, Fail
  <2>2. item \in Item
    <3>1. stack # <<>> /\ Top.i <= Len(Top.node.items)
      BY <1>3 DEF LeafItem, InNode
    <3>2. Top.node.items \in Seq(Item) /\ Top.i \in Nat \ {0}
      BY <3>1, FrameFacts DEF WalkInv, Node, Frame
    <3> QED
      BY <3>1, <3>2, ElementOfSeq, LenProperties
  <2> QED
    BY <2>1, <2>2, StripeChunksType DEF AppendChunks, StripeChunks, Item
<1>4. CASE ReadSuperblock \/ ReadNode
  BY <1>4 DEF ReadSuperblock, ReadNode, Fail
<1>5. CASE SysEnd \/ ChildNode \/ NodeDone \/ ChunkTreeDone \/ RootTreeDone
  BY <1>5 DEF SysEnd, ChildNode, NodeDone, ChunkTreeDone, RootTreeDone, Fail
<1>6. CASE UNCHANGED vars
  BY <1>6 DEF vars
<1> QED
  BY <1>2, <1>3, <1>4, <1>5, <1>6 DEF Next

LEMMA TranslationStep ==
  ASSUME WalkInv, [Next]_vars, stage' # "ended", NEW a, Lookup(chunks, a) # NotFound
  PROVE  Lookup(chunks', a) = Lookup(chunks, a)
<1>1. chunks \in Seq(Chunk)
  BY DEF WalkInv, TypeOK
<1>2. CASE chunks' = chunks
  BY <1>2
<1>3. CASE \E more \in Seq(Chunk) : chunks' = chunks \o more
  BY <1>1, <1>3, LookupStable
<1> QED
  BY <1>2, <1>3, MapGrows

-----------------------------------------------------------------------------
(* What a volume points at, and the assumption under which the comparison  *)
(* of addresses in validate_chunk_tree is enough: a block whose sum holds  *)
(* and that carries an address that is pointed at, as a u32, is the node   *)
(* that the volume keeps there, or a copy of it.                           *)
Pointers ==
  {Sb.chunk_tree_root_lba, Sb.root_tree_root_lba}
  \cup UNION {Range(vol.disk[p].children) : p \in DOMAIN vol.disk}

NodesSigned ==
  \A p \in DOMAIN vol.disk, a \in Pointers :
    LET node == vol.disk[p]
    IN  ~node.zero /\ node.sum /\ node.node_lba = a % Word32 => node = Home(a)

(* Frames hold nodes of the disk, and calls follow its pointers.           *)
FramesRead == \A i \in DOMAIN stack : \E p \in DOMAIN vol.disk : stack[i].node = vol.disk[p]
CallsPoint == call.made => call.lba \in Pointers
RightInv == NodesSigned /\ FramesRead /\ CallsPoint /\ RightNode

LEMMA InitRight == Init /\ NodesSigned => RightInv
BY EmptySeq DEF Init, RightInv, FramesRead, CallsPoint, RightNode, NoCall

LEMMA VolumeStays ==
  ASSUME WalkInv, [Next]_vars
  PROVE  vol' = vol
BY DEF Next, vars, ReadSuperblock, SysChunk, SysEnd, ReadNode, LeafItem, ChildNode, NodeDone,
       ChunkTreeDone, RootTreeDone, Fail

(* The node that passes the checks of a call is the one of its address.    *)
LEMMA CheckedNode ==
  ASSUME WalkInv, RightInv, call.made, Bad = "NO_ERROR"
  PROVE  Asked = Home(call.lba) /\ \E p \in DOMAIN vol.disk : Asked = vol.disk[p]
<1>1. ~Asked.zero /\ Asked.sum /\ Asked.node_lba = call.lba % Word32
  BY Zenon DEF Bad, NodeError
<1>2. ZeroNode.zero
  BY DEF ZeroNode
<1>3. Phys \in DOMAIN vol.disk /\ Asked = vol.disk[Phys]
  BY <1>1, <1>2 DEF Asked, BlockAt
<1>4. call.lba \in Pointers
  BY DEF RightInv, CallsPoint
<1> QED
  BY <1>1, <1>3, <1>4 DEF RightInv, NodesSigned

(* A step keeps the frames, drops the last, or adds the node just checked. *)
LEMMA FramesFollow ==
  ASSUME WalkInv, [Next]_vars
  PROVE  \/ stack' = <<>>
         \/ /\ DOMAIN stack' \subseteq DOMAIN stack
            /\ \A i \in DOMAIN stack' : stack'[i].node = stack[i].node /\ stack'[i].lba = stack[i].lba
         \/ /\ call.made /\ Bad = "NO_ERROR"
            /\ stack' = Append(stack, [lba |-> call.lba, node |-> Asked, i |-> 1])
<1> DEFINE n == Len(stack)
<1>1. stack \in Seq(Frame)
  BY DEF WalkInv, TypeOK
<1>2. ASSUME stack # <<>>, stack' = Advanced
      PROVE  /\ DOMAIN stack' \subseteq DOMAIN stack
             /\ \A i \in DOMAIN stack' : stack'[i].node = stack[i].node /\ stack'[i].lba = stack[i].lba
  <2>1. n \in Nat \ {0} /\ DOMAIN stack = 1 .. n /\ \A i \in 1 .. n : stack[i] \in Frame
    BY <1>2, FrameFacts DEF WalkInv
  <2>2. DOMAIN stack' = DOMAIN stack /\ stack' = [stack EXCEPT ![n] = [stack[n] EXCEPT !.i = @ + 1]]
    BY <1>2, AdvanceFrame DEF Advanced
  <2>3. [stack[n] EXCEPT !.i = @ + 1].lba = stack[n].lba
        /\ [stack[n] EXCEPT !.i = @ + 1].node = stack[n].node
    BY <2>1 DEF Frame
  <2> QED
    BY <2>1, <2>2, <2>3
<1>3. CASE ReadNode
  BY <1>3 DEF ReadNode, Fail
<1>4. CASE LeafItem \/ ChildNode
  BY <1>2, <1>4 DEF LeafItem, ChildNode, Fail, InNode
<1>5. CASE NodeDone
  <2>1. stack # <<>> /\ stack' = SubSeq(stack, 1, n - 1)
    BY <1>5 DEF NodeDone, InNode
  <2>2. n \in Nat \ {0} /\ DOMAIN stack = 1 .. n
    BY <2>1, FrameFacts DEF WalkInv
  <2>3. /\ stack' \in Seq(Frame) /\ Len(stack') = n - 1 /\ DOMAIN stack' = 1 .. n - 1
        /\ \A i \in 1 .. n - 1 : stack'[i] = stack[i]
    BY <1>1, <2>1, <2>2, SubSeqProperties, LenProperties
  <2>4. 1 .. n - 1 \subseteq 1 .. n
    BY <2>2
  <2>5. DOMAIN stack' \subseteq DOMAIN stack /\ \A i \in DOMAIN stack' : stack'[i] = stack[i]
    BY <2>2, <2>3, <2>4
  <2> QED
    BY <2>5, Zenon
<1>6. CASE ReadSuperblock \/ SysChunk \/ SysEnd \/ ChunkTreeDone \/ RootTreeDone \/ UNCHANGED vars
  BY <1>6 DEF ReadSuperblock, SysChunk, SysEnd, ChunkTreeDone, RootTreeDone, Fail, vars
<1> QED
  BY <1>3, <1>4, <1>5, <1>6 DEF Next

(* A new call is for a root, or for a child of a node of the disk.         *)
LEMMA CallsFollow ==
  ASSUME WalkInv, RightInv, [Next]_vars
  PROVE  CallsPoint'
<1>1. Pointers' = Pointers
  BY VolumeStays DEF Pointers, Sb
<1>2. CASE ChildNode
  <2>1. /\ stack # <<>> /\ Top.i <= Len(Top.node.children)
        /\ call' = Call(Top.node.children[Top.i], Top.node.level - 1, FALSE)
    BY <1>2 DEF ChildNode, InNode
  <2>2. Top.node \in Node /\ Top.i \in Nat \ {0} /\ Len(stack) \in DOMAIN stack
    BY <2>1, FrameFacts DEF WalkInv, Frame
  <2>3. PICK p \in DOMAIN vol.disk : Top.node = vol.disk[p]
    BY <2>2 DEF RightInv, FramesRead, Top
  <2>4. Top.i \in DOMAIN Top.node.children
    BY <2>1, <2>2, LenProperties DEF Node
  <2>5. Top.node.children[Top.i] \in Range(vol.disk[p].children)
    BY <2>3, <2>4 DEF Range
  <2>6. call'.lba = Top.node.children[Top.i]
    BY <2>1 DEF Call
  <2> QED
    BY <1>1, <2>3, <2>5, <2>6 DEF CallsPoint, Pointers
<1>3. CASE SysEnd \/ ChunkTreeDone
  <2>1. call'.lba \in {Sb.chunk_tree_root_lba, Sb.root_tree_root_lba}
    BY <1>3 DEF SysEnd, ChunkTreeDone, Call
  <2>2. call'.lba \in Pointers
    BY <2>1, Zenon DEF Pointers
  <2> QED
    BY <1>1, <2>2 DEF CallsPoint
<1>4. CASE ReadSuperblock \/ SysChunk \/ ReadNode \/ LeafItem \/ NodeDone \/ RootTreeDone \/ UNCHANGED vars
  <2>1. call' = call \/ call' = NoCall
    BY <1>4 DEF ReadSuperblock, SysChunk, ReadNode, LeafItem, NodeDone, RootTreeDone, Fail, vars
  <2> QED
    BY <1>1, <2>1 DEF RightInv, CallsPoint, NoCall
<1> QED
  BY <1>2, <1>3, <1>4 DEF Next

LEMMA RightStep == WalkInv /\ RightInv /\ [Next]_vars => RightInv'
<1> SUFFICES ASSUME WalkInv, RightInv, [Next]_vars PROVE RightInv'
  OBVIOUS
<1>1. vol' = vol
  BY VolumeStays
<1>2. \A a : Home(a)' = Home(a)
  BY <1>1 DEF Home, BlockAt
<1>3. NodesSigned'
  BY <1>1, <1>2 DEF RightInv, NodesSigned, Pointers, Sb
<1>4. \A i \in DOMAIN stack' :
        /\ \E p \in DOMAIN vol.disk : stack'[i].node = vol.disk[p]
        /\ stack'[i].node = Home(stack'[i].lba)
  <2>1. CASE stack' = <<>>
    BY <2>1, EmptySeq
  <2>2. CASE /\ DOMAIN stack' \subseteq DOMAIN stack
             /\ \A i \in DOMAIN stack' : stack'[i].node = stack[i].node /\ stack'[i].lba = stack[i].lba
    BY <2>2 DEF RightInv, FramesRead, RightNode
  <2>3. CASE /\ call.made /\ Bad = "NO_ERROR"
             /\ stack' = Append(stack, [lba |-> call.lba, node |-> Asked, i |-> 1])
    <3> DEFINE n == Len(stack)
               frame == [lba |-> call.lba, node |-> Asked, i |-> 1]
    <3>1. stack \in Seq(Frame) /\ vol \in Volumes /\ call.lba \in Nat
      BY DEF WalkInv, TypeOK
    <3>2. frame \in Frame
      BY <3>1, VolumeTypes DEF Asked, Frame
    <3>3. /\ n \in Nat /\ DOMAIN stack = 1 .. n /\ DOMAIN stack' = 1 .. n + 1
          /\ stack'[n + 1] = frame /\ \A i \in 1 .. n : stack'[i] = stack[i]
      BY <2>3, <3>1, <3>2, AppendProperties, LenProperties
    <3>4. frame.node = Home(frame.lba) /\ \E p \in DOMAIN vol.disk : frame.node = vol.disk[p]
      BY <2>3, CheckedNode
    <3>5. ASSUME NEW i \in DOMAIN stack'
          PROVE  /\ \E p \in DOMAIN vol.disk : stack'[i].node = vol.disk[p]
                 /\ stack'[i].node = Home(stack'[i].lba)
      <4>1. CASE i = n + 1
        BY <3>3, <3>4, <4>1
      <4>2. CASE i # n + 1
        BY <3>3, <3>5, <4>2 DEF RightInv, FramesRead, RightNode
      <4> QED
        BY <4>1, <4>2
    <3> QED
      BY <3>5
  <2> QED
    BY <2>1, <2>2, <2>3, FramesFollow
<1> QED
  BY <1>1, <1>2, <1>3, <1>4, CallsFollow DEF RightInv, FramesRead, RightNode

-----------------------------------------------------------------------------
(* Lists of nodes                                                          *)

(* More nodes, more trees that end, and more addresses that read as zeros, *)
(* none of which is in a tree that ended, leave the tiles as they are.     *)
LEMMA TilesStay ==
  ASSUME NEW s \in Seq(Nat), NEW s2 \in Seq(Nat), NEW end, NEW end2, NEW gone, NEW gone2,
         NEW kids, NEW m \in Nat, NEW from, NEW to,
         Tiles(s, end, gone, kids, m, from, to),
         Len(s) <= Len(s2), \A p \in 1 .. Len(s) : s2[p] = s[p],
         DOMAIN end \subseteq 1 .. Len(s), DOMAIN end \subseteq DOMAIN end2,
         \A p \in DOMAIN end : end2[p] = end[p],
         gone \subseteq gone2, \A p \in DOMAIN end : s[p] \in gone2 => s[p] \in gone
  PROVE  Tiles(s2, end2, gone2, kids, m, from, to)
<1>1. PICK n \in Nat, n2 \in Nat : n = Len(s) /\ n2 = Len(s2)
  BY LenProperties
<1>2. PICK cut \in [0 .. m -> 1 .. n + 1] :
        /\ cut[0] = from /\ cut[m] = to
        /\ \A k \in 1 .. m : Over(s, end, gone, kids[k], cut[k - 1], cut[k])
  BY <1>1, Zenon DEF Tiles
<1>3. n <= n2
  BY <1>1
<1>4. 1 .. n + 1 \subseteq 1 .. n2 + 1
  BY <1>1, <1>3
<1>5. cut \in [0 .. m -> 1 .. n2 + 1]
  BY <1>2, <1>4
<1>6. ASSUME NEW k \in 1 .. m
      PROVE  Over(s2, end2, gone2, kids[k], cut[k - 1], cut[k])
  <2>1. Over(s, end, gone, kids[k], cut[k - 1], cut[k])
    BY <1>2, <1>6
  <2>2. CASE kids[k] \in gone
    BY <2>1, <2>2 DEF Over
  <2>3. CASE kids[k] \notin gone
    <3>1. cut[k - 1] \in DOMAIN end /\ s[cut[k - 1]] = kids[k] /\ cut[k] = end[cut[k - 1]] + 1
      BY <2>1, <2>3 DEF Over
    <3>2. kids[k] \notin gone2
      BY <2>3, <3>1
    <3> QED
      BY <3>1, <3>2 DEF Over
  <2> QED
    BY <2>2, <2>3
<1> QED
  BY <1>1, <1>2, <1>5, <1>6 DEF Tiles

LEMMA NoTiles ==
  ASSUME NEW s \in Seq(Nat), NEW end, NEW gone, NEW kids, NEW from \in 1 .. Len(s) + 1
  PROVE  Tiles(s, end, gone, kids, 0, from, from)
<1> DEFINE cut == [k \in 0 .. 0 |-> from]
<1>1. cut \in [0 .. 0 -> 1 .. Len(s) + 1] /\ cut[0] = from
  OBVIOUS
<1>2. \A k \in 1 .. 0 : Over(s, end, gone, kids[k], cut[k - 1], cut[k])
  OBVIOUS
<1> HIDE DEF cut
<1> QED
  BY <1>1, <1>2 DEF Tiles

LEMMA OneTileMore ==
  ASSUME NEW s \in Seq(Nat), NEW end, NEW gone, NEW kids, NEW m \in Nat, NEW from, NEW mid,
         Tiles(s, end, gone, kids, m, from, mid),
         NEW to \in 1 .. Len(s) + 1, Over(s, end, gone, kids[m + 1], mid, to)
  PROVE  Tiles(s, end, gone, kids, m + 1, from, to)
<1>1. PICK cut \in [0 .. m -> 1 .. Len(s) + 1] :
        /\ cut[0] = from /\ cut[m] = mid
        /\ \A k \in 1 .. m : Over(s, end, gone, kids[k], cut[k - 1], cut[k])
  BY Zenon DEF Tiles
<1> DEFINE longer == [k \in 0 .. m + 1 |-> IF k = m + 1 THEN to ELSE cut[k]]
<1>2. longer \in [0 .. m + 1 -> 1 .. Len(s) + 1]
  BY <1>1
<1>3. longer[m + 1] = to /\ \A k \in 0 .. m : longer[k] = cut[k]
  OBVIOUS
<1>4. 0 \in 0 .. m /\ m \in 0 .. m
  OBVIOUS
<1> HIDE DEF longer
<1>5. ASSUME NEW k \in 1 .. m + 1
      PROVE  Over(s, end, gone, kids[k], longer[k - 1], longer[k])
  <2>1. CASE k = m + 1
    <3>1. k - 1 = m
      BY <2>1
    <3>2. longer[k - 1] = mid /\ longer[k] = to
      BY <1>1, <1>3, <1>4, <2>1, <3>1
    <3> QED
      BY <2>1, <3>2
  <2>2. CASE k # m + 1
    <3>1. k \in 1 .. m /\ k - 1 \in 0 .. m /\ k \in 0 .. m
      BY <1>5, <2>2
    <3> QED
      BY <1>1, <1>3, <3>1
  <2> QED
    BY <2>1, <2>2
<1>6. longer[0] = from /\ longer[m + 1] = to
  BY <1>1, <1>3, <1>4
<1>7. m + 1 \in Nat
  OBVIOUS
<1> QED
  BY <1>2, <1>5, <1>6 DEF Tiles

(* The nodes of d frames in a list: pos says where they are, and end where *)
(* the trees of all others end.  Behind the node of a frame are the trees  *)
(* of its children that are done with, up to the next frame.               *)
Upto(s, d, pos, j) == IF j < d THEN pos[j + 1] ELSE Len(s) + 1
Closed(s, d, pos) == 1 .. Len(s) \ {pos[j] : j \in 1 .. d}
Trail(s, gone, d, lba, done, pos, end) ==
  /\ d > 0 => pos[1] = 1
  /\ \A j, k \in 1 .. d : pos[j] = pos[k] => j = k
  /\ \A p \in DOMAIN end : Parsed(s, end, gone, p)
  /\ \A j \in 1 .. d :
       /\ s[pos[j]] = lba[j]
       /\ Tiles(s, end, gone, Kids(lba[j]), done[j], pos[j] + 1, Upto(s, d, pos, j))
OnTrail(s, gone, d, lba, done) ==
  \E pos \in [1 .. d -> 1 .. Len(s)] :
    \E end \in [Closed(s, d, pos) -> 1 .. Len(s)] : Trail(s, gone, d, lba, done, pos, end)

LEMMA KidsType ==
  ASSUME vol \in Volumes, NEW a
  PROVE  Kids(a) \in Seq(Nat) /\ Len(Kids(a)) \in Nat /\ DOMAIN Kids(a) = 1 .. Len(Kids(a))
<1>1. Home(a) \in Node
  <2>1. ZeroNode \in Node
    BY EmptySeq DEF ZeroNode, Node
  <2> QED
    BY <2>1, VolumeTypes DEF Home
<1>2. Kids(a) \in Seq(Nat)
  BY <1>1, EmptySeq DEF Kids, NodeKids, Node
<1> QED
  BY <1>2, LenProperties

(* An address that reads as zeros and is not in the list changes nothing.  *)
LEMMA TrailKeeps ==
  ASSUME vol \in Volumes, NEW s \in Seq(Nat), NEW gone, NEW gone2, NEW d \in Nat,
         NEW lba, NEW done \in [1 .. d -> Nat], OnTrail(s, gone, d, lba, done),
         gone \subseteq gone2, \A p \in 1 .. Len(s) : s[p] \in gone2 => s[p] \in gone
  PROVE  OnTrail(s, gone2, d, lba, done)
<1>a. PICK pos \in [1 .. d -> 1 .. Len(s)] :
        \E end \in [Closed(s, d, pos) -> 1 .. Len(s)] : Trail(s, gone, d, lba, done, pos, end)
  BY DEF OnTrail
<1>1. PICK end \in [Closed(s, d, pos) -> 1 .. Len(s)] : Trail(s, gone, d, lba, done, pos, end)
  BY <1>a
<1>2. DOMAIN end \subseteq 1 .. Len(s) /\ Len(s) \in Nat
  BY <1>1, LenProperties DEF Closed
<1>3. ASSUME NEW kids, NEW m \in Nat, NEW from, NEW to, Tiles(s, end, gone, kids, m, from, to)
      PROVE  Tiles(s, end, gone2, kids, m, from, to)
  <2>1. Len(s) <= Len(s) /\ \A p \in DOMAIN end : s[p] \in gone2 => s[p] \in gone
    BY <1>2
  <2> QED
    BY <1>2, <1>3, <2>1, TilesStay, Zenon
<1>4. \A p \in DOMAIN end : Parsed(s, end, gone2, p)
  BY <1>1, <1>3, KidsType DEF Trail, Parsed
<1>5. Trail(s, gone2, d, lba, done, pos, end)
  BY <1>1, <1>3, <1>4 DEF Trail
<1> QED
  BY <1>1, <1>5 DEF OnTrail

LEMMA OrderKeeps ==
  ASSUME vol \in Volumes, NEW s \in Seq(Nat), NEW gone, NEW gone2, NEW root, InOrder(s, gone, root),
         gone \subseteq gone2, \A p \in 1 .. Len(s) : s[p] \in gone2 => s[p] \in gone
  PROVE  InOrder(s, gone2, root)
<1>1. PICK end \in [1 .. Len(s) -> 1 .. Len(s)] :
        /\ Over(s, end, gone, root, 1, Len(s) + 1)
        /\ \A p \in DOMAIN end : Parsed(s, end, gone, p)
  BY DEF InOrder
<1>2. DOMAIN end \subseteq 1 .. Len(s) /\ Len(s) \in Nat
  BY <1>1, LenProperties
<1>3. ASSUME NEW kids, NEW m \in Nat, NEW from, NEW to, Tiles(s, end, gone, kids, m, from, to)
      PROVE  Tiles(s, end, gone2, kids, m, from, to)
  <2>1. Len(s) <= Len(s) /\ \A p \in DOMAIN end : s[p] \in gone2 => s[p] \in gone
    BY <1>2
  <2> QED
    BY <1>2, <1>3, <2>1, TilesStay, Zenon
<1>4. \A p \in DOMAIN end : Parsed(s, end, gone2, p)
  BY <1>1, <1>3, KidsType DEF Parsed
<1>5. Over(s, end, gone2, root, 1, Len(s) + 1)
  <2>1. CASE root \in gone
    BY <1>1, <2>1 DEF Over
  <2>2. CASE root \notin gone
    BY <1>1, <1>2, <2>2 DEF Over
  <2> QED
    BY <2>1, <2>2
<1> QED
  BY <1>1, <1>4, <1>5 DEF InOrder

(* There is nothing to say of no frames and an empty list.                 *)
LEMMA TrailOfNothing ==
  ASSUME NEW gone, NEW lba, NEW done, NEW none, none = <<>>
  PROVE  OnTrail(none, gone, 0, lba, done)
<1>1. Len(none) = 0
  BY EmptySeq
<1>2. PICK pos : pos = [j \in 1 .. 0 |-> 1]
  OBVIOUS
<1>3. PICK end : end = [p \in Closed(none, 0, pos) |-> 1]
  OBVIOUS
<1>4. 1 .. 0 = {} /\ Closed(none, 0, pos) = {}
  BY <1>1 DEF Closed
<1>5. pos \in [1 .. 0 -> 1 .. Len(none)] /\ end \in [Closed(none, 0, pos) -> 1 .. Len(none)]
      /\ DOMAIN end = {}
  BY <1>2, <1>3, <1>4
<1>6. Trail(none, gone, 0, lba, done, pos, end)
  BY <1>4, <1>5 DEF Trail
<1> QED
  BY <1>5, <1>6 DEF OnTrail

(* A node that is entered is the last of the list.                         *)
Longer(d, f, f2, last) ==
  f2 \in [1 .. d + 1 -> Nat] /\ f2[d + 1] = last /\ \A j \in 1 .. d : f2[j] = f[j]

(* The indices of a sequence that is one longer.                           *)
LEMMA OneMoreIndex ==
  ASSUME NEW d \in Nat
  PROVE  /\ d + 1 \in Nat \ {0} /\ d + 1 > 0 /\ d + 1 \in 1 .. d + 1 /\ d + 1 \notin 1 .. d
         /\ 1 .. d \subseteq 1 .. d + 1
         /\ \A j \in 1 .. d : j \in 1 .. d + 1
         /\ \A j \in 1 .. d + 1 : j = d + 1 \/ j \in 1 .. d
         /\ 1 .. d + 1 = (1 .. d) \cup {d + 1}
OBVIOUS

LEMMA OneIndexOrMore ==
  ASSUME NEW d \in Nat \ {0}
  PROVE  d \in Nat /\ d \in 1 .. d /\ 1 \in 1 .. d /\ d > 0
OBVIOUS

LEMMA TrailEnters ==
  ASSUME vol \in Volumes, NEW s \in Seq(Nat), NEW gone, NEW d \in Nat,
         NEW lba \in [1 .. d -> Nat], NEW done \in [1 .. d -> Nat], OnTrail(s, gone, d, lba, done),
         d # 0 \/ s = <<>>, NEW a \in Nat,
         NEW lba2, NEW done2, Longer(d, lba, lba2, a), Longer(d, done, done2, 0)
  PROVE  OnTrail(Append(s, a), gone, d + 1, lba2, done2)
<1>b. /\ lba2 \in [1 .. d + 1 -> Nat] /\ done2 \in [1 .. d + 1 -> Nat]
      /\ \A j \in 1 .. d : lba2[j] = lba[j] /\ done2[j] = done[j]
      /\ lba2[d + 1] = a /\ done2[d + 1] = 0
  BY DEF Longer
<1>a. PICK pos \in [1 .. d -> 1 .. Len(s)] :
        \E end \in [Closed(s, d, pos) -> 1 .. Len(s)] : Trail(s, gone, d, lba, done, pos, end)
  BY DEF OnTrail
<1>1. PICK end \in [Closed(s, d, pos) -> 1 .. Len(s)] : Trail(s, gone, d, lba, done, pos, end)
  BY <1>a
<1>2. PICK n \in Nat : n = Len(s)
  BY LenProperties
<1>3. PICK s2 : s2 = Append(s, a)
  OBVIOUS
<1>4. s2 \in Seq(Nat) /\ Len(s2) = n + 1 /\ s2[n + 1] = a /\ \A p \in 1 .. n : s2[p] = s[p]
  BY <1>2, <1>3, AppendProperties
<1>5. PICK pos2 : pos2 = [j \in 1 .. d + 1 |-> IF j = d + 1 THEN n + 1 ELSE pos[j]]
  OBVIOUS
<1>6. pos \in [1 .. d -> 1 .. n]
  BY <1>2
<1>7. pos2 \in [1 .. d + 1 -> 1 .. n + 1]
  BY <1>5, <1>6, SMTT(30)
<1>8. pos2[d + 1] = n + 1 /\ \A j \in 1 .. d : pos2[j] = pos[j]
  BY <1>5
<1>9. Closed(s2, d + 1, pos2) = Closed(s, d, pos)
  <2>1. {pos2[j] : j \in 1 .. d + 1} = {pos[j] : j \in 1 .. d} \cup {n + 1}
    <3>1. d + 1 \in 1 .. d + 1 /\ \A j \in 1 .. d : j \in 1 .. d + 1
      BY OneMoreIndex, Zenon
    <3>2. \A j \in 1 .. d + 1 : j = d + 1 \/ j \in 1 .. d
      BY OneMoreIndex, Zenon
    <3> QED
      BY <1>8, <3>1, <3>2, Zenon
  <2>2. 1 .. n + 1 = (1 .. n) \cup {n + 1} /\ n + 1 \notin 1 .. n
    BY OneMoreIndex, Zenon
  <2> QED
    BY <1>2, <1>4, <2>1, <2>2 DEF Closed
<1>10. DOMAIN end \subseteq 1 .. n /\ DOMAIN end = Closed(s, d, pos)
  BY <1>1, <1>2 DEF Closed
<1>11. end \in [Closed(s2, d + 1, pos2) -> 1 .. n + 1]
  <2>1. end \in [Closed(s, d, pos) -> 1 .. n] /\ 1 .. n \subseteq 1 .. n + 1
    BY <1>1, <1>2
  <2> QED
    BY <1>9, <2>1
<1>12. ASSUME NEW kids, NEW m \in Nat, NEW from, NEW to, Tiles(s, end, gone, kids, m, from, to)
       PROVE  Tiles(s2, end, gone, kids, m, from, to)
  <2>1. Len(s) <= Len(s2) /\ \A p \in 1 .. Len(s) : s2[p] = s[p]
    BY <1>2, <1>4
  <2>2. DOMAIN end \subseteq 1 .. Len(s)
    BY <1>2, <1>10
  <2> QED
    BY <1>4, <1>12, <2>1, <2>2, TilesStay
<1>13. ASSUME NEW p \in DOMAIN end
       PROVE  Parsed(s2, end, gone, p)
  <2>1. Parsed(s, end, gone, p) /\ s2[p] = s[p]
    BY <1>1, <1>4, <1>10, <1>13 DEF Trail
  <2> QED
    BY <1>12, <2>1, KidsType DEF Parsed
<1>14. ASSUME NEW j \in 1 .. d + 1
       PROVE  /\ s2[pos2[j]] = lba2[j]
              /\ Tiles(s2, end, gone, Kids(lba2[j]), done2[j], pos2[j] + 1, Upto(s2, d + 1, pos2, j))
  <2>1. CASE j = d + 1
    <3>1. s2[pos2[j]] = lba2[j] /\ done2[j] = 0 /\ pos2[j] + 1 = n + 2
      BY <1>b, <1>4, <1>8, <2>1, SMTT(30)
    <3>2. Upto(s2, d + 1, pos2, j) = n + 2
      BY <1>4, <2>1 DEF Upto
    <3>3. n + 2 \in 1 .. Len(s2) + 1
      BY <1>4
    <3> QED
      BY <1>4, <3>1, <3>2, <3>3, NoTiles
  <2>2. CASE j # d + 1
    <3>1. j \in 1 .. d /\ j < d + 1
      BY <1>14, <2>2
    <3>2. s[pos[j]] = lba[j]
          /\ Tiles(s, end, gone, Kids(lba[j]), done[j], pos[j] + 1, Upto(s, d, pos, j))
      BY <1>1, <3>1 DEF Trail
    <3>3. Upto(s2, d + 1, pos2, j) = Upto(s, d, pos, j)
      <4>1. Upto(s2, d + 1, pos2, j) = pos2[j + 1]
        BY <3>1 DEF Upto
      <4>2. CASE j = d
        BY <1>2, <1>8, <4>1, <4>2 DEF Upto
      <4>3. CASE j # d
        <5>1. j < d /\ j + 1 \in 1 .. d
          BY <3>1, <4>3
        <5> QED
          BY <1>8, <4>1, <5>1 DEF Upto
      <4> QED
        BY <4>2, <4>3
    <3>4. pos[j] \in 1 .. n /\ done[j] \in Nat
      BY <1>6, <3>1
    <3>5. lba2[j] = lba[j] /\ done2[j] = done[j] /\ pos2[j] = pos[j]
      BY <1>b, <1>8, <3>1
    <3> QED
      BY <1>4, <1>12, <3>2, <3>3, <3>4, <3>5
  <2> QED
    BY <2>1, <2>2
<1>15. pos2[1] = 1
  <2>1. CASE d = 0
    <3>1. n = 0
      BY <1>2, <2>1, EmptySeq
    <3> QED
      BY <1>8, <2>1, <3>1
  <2>2. CASE d # 0
    <3>1. d > 0 /\ 1 \in 1 .. d
      BY <2>2
    <3>2. pos[1] = 1
      BY <1>1, <3>1 DEF Trail
    <3> QED
      BY <1>8, <3>1, <3>2, Zenon
  <2> QED
    BY <2>1, <2>2
<1>16. ASSUME NEW j \in 1 .. d + 1, NEW k \in 1 .. d + 1, pos2[j] = pos2[k]
       PROVE  j = k
  <2>1. CASE j \in 1 .. d /\ k \in 1 .. d
    <3>1. pos[j] = pos[k]
      BY <1>8, <1>16, <2>1, Zenon
    <3> QED
      BY <1>1, <2>1, <3>1, Zenon DEF Trail
  <2>2. n + 1 \notin 1 .. n
    OBVIOUS
  <2>3. \A i \in 1 .. d : pos2[i] # n + 1
    BY <1>6, <1>8, <2>2, Zenon
  <2>4. \A i \in 1 .. d + 1 : i = d + 1 \/ i \in 1 .. d
    OBVIOUS
  <2> QED
    BY <1>8, <1>16, <2>1, <2>3, <2>4, Zenon
<1>17. Trail(s2, gone, d + 1, lba2, done2, pos2, end)
  BY <1>13, <1>14, <1>15, <1>16 DEF Trail
<1>18. pos2 \in [1 .. d + 1 -> 1 .. Len(s2)] /\ end \in [Closed(s2, d + 1, pos2) -> 1 .. Len(s2)]
  BY <1>4, <1>7, <1>11
<1> QED
  BY <1>3, <1>17, <1>18 DEF OnTrail

(* A child of the last frame that reads as zeros takes no place.           *)
LEMMA TrailSkips ==
  ASSUME vol \in Volumes, NEW s \in Seq(Nat), NEW gone, NEW d \in Nat \ {0},
         NEW lba \in [1 .. d -> Nat], NEW done \in [1 .. d -> Nat], OnTrail(s, gone, d, lba, done),
         NEW done2 \in [1 .. d -> Nat], \A j \in 1 .. d : j < d => done2[j] = done[j],
         done2[d] = done[d] + 1, Kids(lba[d])[done[d] + 1] \in gone
  PROVE  OnTrail(s, gone, d, lba, done2)
<1>a. PICK pos \in [1 .. d -> 1 .. Len(s)] :
        \E end \in [Closed(s, d, pos) -> 1 .. Len(s)] : Trail(s, gone, d, lba, done, pos, end)
  BY DEF OnTrail
<1>1. PICK end \in [Closed(s, d, pos) -> 1 .. Len(s)] : Trail(s, gone, d, lba, done, pos, end)
  BY <1>a
<1>2. ASSUME NEW j \in 1 .. d
      PROVE  /\ s[pos[j]] = lba[j]
             /\ Tiles(s, end, gone, Kids(lba[j]), done2[j], pos[j] + 1, Upto(s, d, pos, j))
  <2>1. s[pos[j]] = lba[j]
        /\ Tiles(s, end, gone, Kids(lba[j]), done[j], pos[j] + 1, Upto(s, d, pos, j))
    BY <1>1 DEF Trail
  <2>2. CASE j < d
    BY <2>1, <2>2
  <2>3. CASE j = d
    <3>1. Len(s) + 1 \in 1 .. Len(s) + 1 /\ Upto(s, d, pos, j) = Len(s) + 1
      BY <2>3, LenProperties DEF Upto
    <3>2. Over(s, end, gone, Kids(lba[d])[done[d] + 1], Len(s) + 1, Len(s) + 1)
      BY DEF Over
    <3>3. done[d] \in Nat
      OBVIOUS
    <3>4. Tiles(s, end, gone, Kids(lba[d]), done[d], pos[d] + 1, Len(s) + 1)
      BY <2>1, <2>3, <3>1, Zenon
    <3>5. Tiles(s, end, gone, Kids(lba[d]), done[d] + 1, pos[d] + 1, Len(s) + 1)
      BY <3>1, <3>2, <3>3, <3>4, OneTileMore, Zenon
    <3> QED
      BY <2>1, <2>3, <3>1, <3>5, Zenon
  <2> QED
    BY <1>2, <2>2, <2>3
<1>3. Trail(s, gone, d, lba, done2, pos, end)
  BY <1>1, <1>2 DEF Trail
<1> QED
  BY <1>1, <1>3 DEF OnTrail

(* When the children of the last frame are done with, its tree ends with   *)
(* the list.                                                               *)
LastCloses(s, gone, d, pos, end) ==
  \E end2 \in [Closed(s, d, pos) \cup {pos[d]} -> 1 .. Len(s)] :
    /\ end2[pos[d]] = Len(s)
    /\ \A p \in DOMAIN end2 : Parsed(s, end2, gone, p)
    /\ \A kids : \A m \in Nat : \A from, to :
         Tiles(s, end, gone, kids, m, from, to) => Tiles(s, end2, gone, kids, m, from, to)

LEMMA LastEnds ==
  ASSUME vol \in Volumes, NEW s \in Seq(Nat), NEW gone, NEW d \in Nat \ {0},
         NEW lba \in [1 .. d -> Nat], NEW done \in [1 .. d -> Nat],
         NEW pos \in [1 .. d -> 1 .. Len(s)], NEW end \in [Closed(s, d, pos) -> 1 .. Len(s)],
         Trail(s, gone, d, lba, done, pos, end), done[d] = Len(Kids(lba[d]))
  PROVE  LastCloses(s, gone, d, pos, end)
<1> DEFINE q == pos[d]
<1>1. PICK end2 : end2 = [p \in Closed(s, d, pos) \cup {q} |-> IF p = q THEN Len(s) ELSE end[p]]
  OBVIOUS
<1>2. d \in 1 .. d /\ q \in 1 .. Len(s) /\ Len(s) \in Nat /\ q \notin Closed(s, d, pos)
      /\ Closed(s, d, pos) \subseteq 1 .. Len(s)
  BY LenProperties DEF Closed
<1>3. Len(s) \in 1 .. Len(s)
  <2>1. PICK n \in Nat : n = Len(s)
    BY <1>2
  <2>2. q \in 1 .. n
    BY <1>2, <2>1
  <2>3. n \in 1 .. n
    BY <2>2
  <2> QED
    BY <2>1, <2>3
<1>4. DOMAIN end = Closed(s, d, pos) /\ \A p \in DOMAIN end : end[p] \in 1 .. Len(s)
  OBVIOUS
<1>5. end2 \in [Closed(s, d, pos) \cup {q} -> 1 .. Len(s)]
  BY <1>1, <1>3, <1>4
<1>6. DOMAIN end2 = Closed(s, d, pos) \cup {q} /\ end2[q] = Len(s)
      /\ \A p \in DOMAIN end : end2[p] = end[p]
  BY <1>1, <1>2, <1>4
<1>7. ASSUME NEW kids, NEW m \in Nat, NEW from, NEW to, Tiles(s, end, gone, kids, m, from, to)
      PROVE  Tiles(s, end2, gone, kids, m, from, to)
  <2>1. Len(s) <= Len(s) /\ DOMAIN end \subseteq 1 .. Len(s) /\ DOMAIN end \subseteq DOMAIN end2
    BY <1>2, <1>4, <1>6
  <2>2. gone \subseteq gone /\ \A p \in DOMAIN end : s[p] \in gone => s[p] \in gone
    OBVIOUS
  <2> QED
    BY <1>6, <1>7, <2>1, <2>2, TilesStay, Zenon
<1>8. ASSUME NEW p \in DOMAIN end2
      PROVE  Parsed(s, end2, gone, p)
  <2>1. CASE p = q
    <3>1. s[q] = lba[d] /\ Tiles(s, end, gone, Kids(lba[d]), done[d], q + 1, Upto(s, d, pos, d))
      BY <1>2 DEF Trail
    <3>2. Upto(s, d, pos, d) = end2[q] + 1
      BY <1>6 DEF Upto
    <3>3. done[d] \in Nat
      BY <1>2
    <3>4. Tiles(s, end2, gone, Kids(s[p]), Len(Kids(s[p])), p + 1, end2[p] + 1)
      BY <1>7, <2>1, <3>1, <3>2, <3>3, Zenon
    <3> QED
      BY <3>4, Zenon DEF Parsed
  <2>2. CASE p # q
    <3>1. p \in DOMAIN end /\ end2[p] = end[p]
      BY <1>4, <1>6, <1>8, <2>2
    <3>2. Tiles(s, end, gone, Kids(s[p]), Len(Kids(s[p])), p + 1, end[p] + 1)
      BY <3>1, Zenon DEF Trail, Parsed
    <3>3. Len(Kids(s[p])) \in Nat
      BY KidsType
    <3> QED
      BY <1>7, <3>1, <3>2, <3>3, Zenon DEF Parsed
  <2> QED
    BY <2>1, <2>2
<1> QED
  BY <1>5, <1>6, <1>7, <1>8 DEF LastCloses

(* A frame that ends leaves a tree behind, the next of its parent.         *)
LEMMA TrailLeaves ==
  ASSUME vol \in Volumes, NEW s \in Seq(Nat), NEW gone, NEW d \in Nat \ {0},
         NEW lba \in [1 .. d + 1 -> Nat], NEW done \in [1 .. d + 1 -> Nat],
         OnTrail(s, gone, d + 1, lba, done), done[d + 1] = Len(Kids(lba[d + 1])),
         lba[d + 1] \notin gone, Kids(lba[d])[done[d] + 1] = lba[d + 1],
         NEW lba2 \in [1 .. d -> Nat], \A j \in 1 .. d : lba2[j] = lba[j],
         NEW done2 \in [1 .. d -> Nat], \A j \in 1 .. d : j < d => done2[j] = done[j],
         done2[d] = done[d] + 1
  PROVE  OnTrail(s, gone, d, lba2, done2)
<1>a. PICK pos \in [1 .. d + 1 -> 1 .. Len(s)] :
        \E end \in [Closed(s, d + 1, pos) -> 1 .. Len(s)] :
          Trail(s, gone, d + 1, lba, done, pos, end)
  BY DEF OnTrail
<1>1. PICK end \in [Closed(s, d + 1, pos) -> 1 .. Len(s)] :
        Trail(s, gone, d + 1, lba, done, pos, end)
  BY <1>a
<1>2. d + 1 \in Nat \ {0} /\ d + 1 \in 1 .. d + 1 /\ d \in 1 .. d /\ 1 \in 1 .. d
      /\ 1 .. d \subseteq 1 .. d + 1 /\ d + 1 \notin 1 .. d /\ d + 1 > 0 /\ d > 0
      /\ \A j \in 1 .. d + 1 : j = d + 1 \/ j \in 1 .. d
  BY OneMoreIndex, OneIndexOrMore, Zenon
<1>b. LastCloses(s, gone, d + 1, pos, end)
  BY <1>1, <1>2, LastEnds
<1>3. PICK end2 \in [Closed(s, d + 1, pos) \cup {pos[d + 1]} -> 1 .. Len(s)] :
        /\ end2[pos[d + 1]] = Len(s)
        /\ \A p \in DOMAIN end2 : Parsed(s, end2, gone, p)
        /\ \A kids : \A m \in Nat : \A from, to :
             Tiles(s, end, gone, kids, m, from, to) => Tiles(s, end2, gone, kids, m, from, to)
  BY <1>b, Zenon DEF LastCloses
<1>4. PICK pos2 : pos2 = [j \in 1 .. d |-> pos[j]]
  OBVIOUS
<1>5. pos2 \in [1 .. d -> 1 .. Len(s)] /\ \A j \in 1 .. d : pos2[j] = pos[j]
  BY <1>2, <1>4
<1>6. \A j, k \in 1 .. d + 1 : pos[j] = pos[k] => j = k
  BY <1>1, Zenon DEF Trail
<1>7. Closed(s, d, pos2) = Closed(s, d + 1, pos) \cup {pos[d + 1]}
  <2>1. ASSUME NEW x
        PROVE  x \in {pos[j] : j \in 1 .. d + 1} <=> x = pos[d + 1] \/ x \in {pos2[j] : j \in 1 .. d}
    <3>1. x \in {pos[j] : j \in 1 .. d + 1} <=> \E j \in 1 .. d + 1 : x = pos[j]
      OBVIOUS
    <3>2. x \in {pos2[j] : j \in 1 .. d} <=> \E j \in 1 .. d : x = pos2[j]
      OBVIOUS
    <3> QED
      BY <1>2, <1>5, <3>1, <3>2, Zenon
  <2>2. pos[d + 1] \notin {pos2[j] : j \in 1 .. d}
    <3>1. \A j \in 1 .. d : pos2[j] # pos[d + 1]
      BY <1>2, <1>5, <1>6, Zenon
    <3> QED
      BY <3>1
  <2>3. pos[d + 1] \in 1 .. Len(s)
    BY <1>2
  <2> QED
    BY <2>1, <2>2, <2>3, Zenon DEF Closed
<1>8. ASSUME NEW j \in 1 .. d
      PROVE  /\ s[pos2[j]] = lba2[j]
             /\ Tiles(s, end2, gone, Kids(lba2[j]), done2[j], pos2[j] + 1, Upto(s, d, pos2, j))
  <2>1. /\ s[pos[j]] = lba[j]
        /\ Tiles(s, end, gone, Kids(lba[j]), done[j], pos[j] + 1, Upto(s, d + 1, pos, j))
    BY <1>1, <1>2, <1>8, Zenon DEF Trail
  <2>2. done[j] \in Nat /\ j < d + 1
    BY <1>2, SMTT(30)
  <2>3. Tiles(s, end2, gone, Kids(lba[j]), done[j], pos[j] + 1, pos[j + 1])
    <3>1. Upto(s, d + 1, pos, j) = pos[j + 1]
      BY <2>2 DEF Upto
    <3> QED
      BY <1>3, <2>1, <2>2, <3>1, Zenon
  <2>4. CASE j # d
    <3>1. j < d /\ j + 1 \in 1 .. d
      BY <1>8, <2>4
    <3>2. Upto(s, d, pos2, j) = pos[j + 1]
      BY <1>5, <3>1 DEF Upto
    <3> QED
      BY <1>5, <2>1, <2>3, <3>1, <3>2, Zenon
  <2>5. CASE j = d
    <3>1. Upto(s, d, pos2, j) = Len(s) + 1
      BY <2>5 DEF Upto
    <3>2. Over(s, end2, gone, Kids(lba[d])[done[d] + 1], pos[d + 1], Len(s) + 1)
      <4>1. pos[d + 1] \in DOMAIN end2 /\ s[pos[d + 1]] = lba[d + 1]
        BY <1>1, <1>2, <1>3, Zenon DEF Trail
      <4> QED
        BY <1>3, <4>1, Zenon DEF Over
    <3>3. Len(s) + 1 \in 1 .. Len(s) + 1
      BY LenProperties
    <3>4. Tiles(s, end2, gone, Kids(lba[d]), done[d] + 1, pos[d] + 1, Len(s) + 1)
      BY <2>2, <2>3, <2>5, <3>2, <3>3, OneTileMore, Zenon
    <3> QED
      BY <1>2, <1>5, <2>1, <2>5, <3>1, <3>4, Zenon
  <2> QED
    BY <2>4, <2>5
<1>9. pos2[1] = 1
  BY <1>1, <1>2, <1>5, Zenon DEF Trail
<1>10. \A j, k \in 1 .. d : pos2[j] = pos2[k] => j = k
  BY <1>2, <1>5, <1>6, Zenon
<1>11. Trail(s, gone, d, lba2, done2, pos2, end2)
  BY <1>3, <1>8, <1>9, <1>10, Zenon DEF Trail
<1> QED
  BY <1>3, <1>5, <1>7, <1>11, Zenon DEF OnTrail

(* When the root ends, the list is the tree.                               *)
LEMMA TreeEnds ==
  ASSUME vol \in Volumes, NEW s \in Seq(Nat), NEW gone, NEW lba \in [1 .. 1 -> Nat],
         NEW done \in [1 .. 1 -> Nat], OnTrail(s, gone, 1, lba, done),
         done[1] = Len(Kids(lba[1])), lba[1] \notin gone
  PROVE  InOrder(s, gone, lba[1])
<1>a. PICK pos \in [1 .. 1 -> 1 .. Len(s)] :
        \E end \in [Closed(s, 1, pos) -> 1 .. Len(s)] : Trail(s, gone, 1, lba, done, pos, end)
  BY DEF OnTrail
<1>1. PICK end \in [Closed(s, 1, pos) -> 1 .. Len(s)] : Trail(s, gone, 1, lba, done, pos, end)
  BY <1>a
<1>2. 1 \in Nat \ {0} /\ 1 \in 1 .. 1 /\ 1 > 0 /\ 1 .. 1 = {1}
  OBVIOUS
<1>b. LastCloses(s, gone, 1, pos, end)
  BY <1>1, <1>2, LastEnds
<1>3. PICK end2 \in [Closed(s, 1, pos) \cup {pos[1]} -> 1 .. Len(s)] :
        /\ end2[pos[1]] = Len(s)
        /\ \A p \in DOMAIN end2 : Parsed(s, end2, gone, p)
  BY <1>b, Zenon DEF LastCloses
<1>4. pos[1] = 1 /\ s[1] = lba[1]
  BY <1>1, <1>2, Zenon DEF Trail
<1>5. Closed(s, 1, pos) \cup {pos[1]} = 1 .. Len(s)
  <2>1. pos[1] \in 1 .. Len(s)
    BY <1>2
  <2> QED
    BY <1>2, <2>1, Zenon DEF Closed
<1>6. Over(s, end2, gone, lba[1], 1, Len(s) + 1)
  BY <1>3, <1>4, Zenon DEF Over
<1>7. end2 \in [1 .. Len(s) -> 1 .. Len(s)]
  BY <1>3, <1>5
<1> QED
  BY <1>3, <1>6, <1>7, Zenon DEF InOrder

-----------------------------------------------------------------------------
(* What is empty and what was parsed                                       *)

(* As an address resolved, it resolves to the end: to zeros what was       *)
(* answered with an empty block, to something else what was parsed.        *)
ToZeros(a) == Lookup(chunks, a) # NotFound /\ BlockAt(Lookup(chunks, a)).zero
ToNode(a) == Lookup(chunks, a) # NotFound /\ ~BlockAt(Lookup(chunks, a)).zero

Fates ==
  stage # "ended" =>
    /\ \A a \in empty : ToZeros(a)
    /\ \A t \in {"chunk", "root"} : \A p \in DOMAIN seen[t] : ToNode(seen[t][p])

LEMMA MinusOne ==
  ASSUME NEW n \in Nat \ {0, 1}
  PROVE  (-1) % n # 0
  BY SMT

LEMMA Goes ==
  ASSUME WalkInv, [Next]_vars, stage' # "ended"
  PROVE  stage # "ended"
BY DEF WalkInv, TypeOK, Staged, Next, vars, ReadSuperblock, SysChunk, SysEnd, ReadNode, LeafItem,
       ChildNode, NodeDone, ChunkTreeDone, RootTreeDone, Fail, InNode

(* The ghosts change when a node is read, and in no other step.            *)
LEMMA GhostsFollow ==
  ASSUME WalkInv, [Next]_vars, stage' # "ended"
  PROVE  \/ empty' = empty /\ seen' = seen
         \/ /\ call.made /\ Phys % SECTOR_SIZE = 0 /\ chunks' = chunks
            /\ \/ Bad = "EMPTY_TREE" /\ empty' = empty \cup {call.lba} /\ seen' = seen
               \/ /\ Bad = "NO_ERROR" /\ empty' = empty
                  /\ seen' = [seen EXCEPT ![stage] = Append(@, call.lba)]
<1>1. CASE ReadNode
  BY <1>1 DEF ReadNode, Fail
<1>2. CASE ReadSuperblock \/ SysChunk \/ SysEnd
  BY <1>2 DEF ReadSuperblock, SysChunk, SysEnd, Fail
<1>3. CASE LeafItem \/ ChildNode \/ NodeDone \/ ChunkTreeDone \/ RootTreeDone
  BY <1>3 DEF LeafItem, ChildNode, NodeDone, ChunkTreeDone, RootTreeDone, Fail
<1>4. CASE UNCHANGED vars
  BY <1>4 DEF vars
<1> QED
  BY <1>1, <1>2, <1>3, <1>4 DEF Next

LEMMA FatesApart ==
  ASSUME WalkInv, Fates, stage # "ended", NEW t \in {"chunk", "root"}, NEW p \in 1 .. Len(seen[t])
  PROVE  seen[t][p] \notin empty
<1>1. p \in DOMAIN seen[t]
  BY LenProperties DEF WalkInv, TypeOK
<1> QED
  BY <1>1 DEF Fates, ToZeros, ToNode

LEMMA FatesStep == WalkInv /\ Fates /\ [Next]_vars => Fates'
<1> SUFFICES ASSUME WalkInv, Fates, [Next]_vars, stage' # "ended"
             PROVE  /\ \A a \in empty' : ToZeros(a)'
                    /\ \A t \in {"chunk", "root"} :
                         \A p \in DOMAIN seen'[t] : ToNode(seen[t][p])'
  BY DEF Fates
<1>1. /\ \A a \in empty : ToZeros(a)
      /\ \A t \in {"chunk", "root"} : \A p \in DOMAIN seen[t] : ToNode(seen[t][p])
  BY Goes DEF Fates
<1>2. vol' = vol
  BY VolumeStays
<1>3. \A p : BlockAt(p)' = BlockAt(p)
  BY <1>2 DEF BlockAt
<1>4. ASSUME NEW a
      PROVE  (ToZeros(a) => ToZeros(a)') /\ (ToNode(a) => ToNode(a)')
  <2>1. Lookup(chunks, a) # NotFound => Lookup(chunks', a) = Lookup(chunks, a)
    BY TranslationStep
  <2> QED
    BY <1>3, <2>1 DEF ToZeros, ToNode
<1>5. /\ vol \in Volumes /\ call.made => stage \in {"chunk", "root"}
      /\ seen \in [{"chunk", "root"} -> Seq(Nat)] /\ call.lba \in Nat
  BY DEF WalkInv, TypeOK, Staged
<1>6. ASSUME call.made, Phys % SECTOR_SIZE = 0
      PROVE  /\ Bad = "EMPTY_TREE" => ToZeros(call.lba)
             /\ Bad = "NO_ERROR" => ToNode(call.lba)
  <2>1. Phys # NotFound
    BY <1>6, MinusOne, ConstantsAssumption DEF NotFound
  <2>2. (Bad = "EMPTY_TREE" => Asked.zero) /\ (Bad = "NO_ERROR" => ~Asked.zero)
    BY Zenon DEF Bad, NodeError
  <2> QED
    BY <2>1, <2>2 DEF ToZeros, ToNode, Asked, Phys
<1>7. ASSUME NEW a \in empty'
      PROVE  ToZeros(a)'
  BY <1>1, <1>4, <1>6, <1>7, GhostsFollow
<1>8. ASSUME NEW t \in {"chunk", "root"}, NEW p \in DOMAIN seen'[t]
      PROVE  ToNode(seen[t][p])'
  <2>1. PICK a : a = seen'[t][p]
    OBVIOUS
  <2>2. ToNode(a)'
    <3>1. CASE seen' = seen
      BY <1>1, <1>4, <1>8, <2>1, <3>1
    <3>2. CASE /\ call.made /\ Phys % SECTOR_SIZE = 0 /\ Bad = "NO_ERROR"
               /\ seen' = [seen EXCEPT ![stage] = Append(@, call.lba)]
      <4>1. CASE t # stage
        BY <1>1, <1>4, <1>5, <1>8, <2>1, <3>2, <4>1
      <4>2. CASE t = stage
        <5>1. PICK s \in Seq(Nat) : s = seen[t]
          BY <1>5
        <5>2. seen'[t] = Append(s, call.lba)
          BY <1>5, <3>2, <4>2, <5>1
        <5>3. /\ DOMAIN seen'[t] = 1 .. Len(s) + 1 /\ seen'[t][Len(s) + 1] = call.lba
              /\ DOMAIN s = 1 .. Len(s) /\ Len(s) \in Nat
              /\ \A k \in 1 .. Len(s) : seen'[t][k] = s[k]
          BY <1>5, <5>2, AppendProperties, LenProperties
        <5>4. CASE p = Len(s) + 1
          BY <1>4, <1>6, <2>1, <3>2, <5>3, <5>4
        <5>5. CASE p # Len(s) + 1
          <6>1. p \in DOMAIN s
            BY <1>8, <5>3, <5>5
          <6>2. a = seen[t][p]
            BY <2>1, <5>1, <5>3, <6>1
          <6> QED
            BY <1>1, <1>4, <5>1, <6>1, <6>2
        <5> QED
          BY <5>4, <5>5
      <4> QED
        BY <4>1, <4>2
    <3> QED
      BY <3>1, <3>2, GhostsFollow
  <2> QED
    BY <2>1, <2>2 DEF ToNode
<1> QED
  BY <1>7, <1>8
-----------------------------------------------------------------------------
(* Frames and their children                                               *)

(* The children of a frame that are done with; the one that has a frame or *)
(* a call of its own is not.                                               *)
DoneOf(frame, entered) ==
  IF frame.node.level = 0 THEN 0 ELSE IF entered THEN frame.i - 2 ELSE frame.i - 1
Done(j) == DoneOf(stack[j], j < Len(stack) \/ call.made)
Awaits(j, a) ==
  /\ Done(j) + 1 \in 1 .. Len(Kids(stack[j].lba))
  /\ Kids(stack[j].lba)[Done(j) + 1] = a

Lbas == [j \in 1 .. Len(stack) |-> stack[j].lba]
Dones == [j \in 1 .. Len(stack) |-> Done(j)]

Kin ==
  /\ \A j \in 1 .. Len(stack) : Done(j) \in 0 .. Len(Kids(stack[j].lba))
  /\ \A j \in 1 .. Len(stack) : j < Len(stack) => Awaits(j, stack[j + 1].lba)
  /\ call.made /\ stack # <<>> => Awaits(Len(stack), call.lba)

LEMMA StackFacts ==
  ASSUME WalkInv, RightInv
  PROVE  /\ stack \in Seq(Frame) /\ Len(stack) \in Nat /\ DOMAIN stack = 1 .. Len(stack)
         /\ \A j \in 1 .. Len(stack) :
              /\ stack[j] \in Frame /\ stack[j].lba \in Nat /\ stack[j].i \in Nat \ {0}
              /\ stack[j].node.level \in Nat
              /\ Kids(stack[j].lba) = NodeKids(stack[j].node)
              /\ Len(Kids(stack[j].lba)) \in Nat
         /\ stack = <<>> <=> Len(stack) = 0
<1>1. stack \in Seq(Frame) /\ Len(stack) \in Nat /\ DOMAIN stack = 1 .. Len(stack) /\ vol \in Volumes
  BY LenProperties DEF WalkInv, TypeOK
<1>2. ASSUME NEW j \in 1 .. Len(stack)
      PROVE  /\ stack[j] \in Frame /\ stack[j].lba \in Nat /\ stack[j].i \in Nat \ {0}
             /\ stack[j].node.level \in Nat
             /\ Kids(stack[j].lba) = NodeKids(stack[j].node)
             /\ Len(Kids(stack[j].lba)) \in Nat
  <2>1. stack[j] \in Frame
    BY <1>1, ElementOfSeq
  <2>2. stack[j].node = Home(stack[j].lba)
    BY <1>1 DEF RightInv, RightNode
  <2> QED
    BY <1>1, <2>1, <2>2, KidsType DEF Frame, Node, Kids
<1>3. stack = <<>> <=> Len(stack) = 0
  BY <1>1, EmptySeq
<1> QED
  BY <1>1, <1>2, <1>3

LEMMA ListTypes ==
  ASSUME WalkInv, RightInv, Kin
  PROVE  Lbas \in [1 .. Len(stack) -> Nat] /\ Dones \in [1 .. Len(stack) -> Nat]
<1>1. \A j \in 1 .. Len(stack) : stack[j].lba \in Nat /\ Done(j) \in Nat
  BY StackFacts DEF Kin
<1> QED
  BY <1>1 DEF Lbas, Dones

LEMMA KidsStay ==
  ASSUME WalkInv, [Next]_vars, NEW a
  PROVE  Kids(a)' = Kids(a)
<1>1. vol' = vol
  BY VolumeStays
<1>2. Home(a)' = Home(a)
  BY <1>1 DEF Home, BlockAt
<1> QED
  BY <1>2 DEF Kids

(* A frame that is entered has nothing done.                                *)
LEMMA EnterKin ==
  ASSUME WalkInv, RightInv, Kin, [Next]_vars, WalkInv', RightInv',
         call.made, call' = NoCall,
         stack' = Append(stack, [lba |-> call.lba, node |-> Asked, i |-> 1]),
         NEW d, d = Len(stack)
  PROVE  /\ Kin' /\ Len(stack') = d + 1 /\ Lbas'[d + 1] = call.lba /\ Dones'[d + 1] = 0
         /\ \A j \in 1 .. d : Lbas'[j] = Lbas[j] /\ Dones'[j] = Dones[j]
<1>1. PICK frame : frame = [lba |-> call.lba, node |-> Asked, i |-> 1]
  OBVIOUS
<1>2. d \in Nat /\ stack \in Seq(Frame)
  BY StackFacts
<1>3. frame \in Frame
  <2>1. vol \in Volumes /\ call.lba \in Nat
    BY DEF WalkInv, TypeOK
  <2> QED
    BY <1>1, <2>1, VolumeTypes DEF Asked, Frame
<1>4. /\ Len(stack') = d + 1 /\ stack'[d + 1] = frame
      /\ \A j \in 1 .. d : stack'[j] = stack[j]
  BY <1>1, <1>2, <1>3, AppendProperties
<1>5. 1 .. d \subseteq 1 .. d + 1 /\ d + 1 \in 1 .. d + 1 /\ \A j \in 1 .. d + 1 : j \in 1 .. d \/ j = d + 1
  BY <1>2
<1>6. \A j \in 1 .. d : Done(j)' = Done(j)
  <2>1. ASSUME NEW j \in 1 .. d
        PROVE  Done(j)' = Done(j)
    <3>1. (j < Len(stack'))
      BY <1>2, <1>4
    <3>2. Done(j)' = DoneOf(stack'[j], TRUE)
      BY <3>1 DEF Done
    <3>3. Done(j) = DoneOf(stack[j], TRUE)
      BY DEF Done
    <3> QED
      BY <1>4, <3>2, <3>3
  <2> QED
    BY <2>1
<1>7. Done(d + 1)' = 0
  <2>1. ~(d + 1 < Len(stack')) /\ ~call'.made
    BY <1>2, <1>4 DEF NoCall
  <2>2. Done(d + 1)' = DoneOf(frame, FALSE)
    BY <1>4, <2>1 DEF Done
  <2> QED
    BY <1>1, <2>2 DEF DoneOf
<1>8. /\ Lbas'[d + 1] = call.lba /\ Dones'[d + 1] = 0
      /\ \A j \in 1 .. d : Lbas'[j] = Lbas[j] /\ Dones'[j] = Dones[j]
  BY <1>1, <1>4, <1>5, <1>6, <1>7 DEF Lbas, Dones
<1>9. \A j \in 1 .. d : \A a : Awaits(j, a)' <=> Awaits(j, a)
  BY <1>4, <1>6, KidsStay DEF Awaits
<1>10. Kin'
  <2>1. ASSUME NEW j \in 1 .. d + 1
        PROVE  Done(j)' \in 0 .. Len(Kids(stack[j].lba)')
    <3>1. CASE j \in 1 .. d
      BY <1>4, <1>6, <3>1, KidsStay DEF Kin
    <3>2. CASE j = d + 1
      <4>1. Kids(frame.lba)' = Kids(frame.lba) /\ Len(Kids(frame.lba)) \in Nat
        BY KidsStay, KidsType DEF WalkInv, TypeOK
      <4> QED
        BY <1>4, <1>7, <3>2, <4>1
    <3> QED
      BY <1>5, <3>1, <3>2
  <2>2. ASSUME NEW j \in 1 .. d + 1, j < d + 1
        PROVE  Awaits(j, stack[j + 1].lba)'
    <3>1. j \in 1 .. d
      BY <1>2, <2>2
    <3>2. CASE j = d
      <4>1. stack # <<>>
        BY <1>2, <3>1, StackFacts
      <4>2. Awaits(d, call.lba)
        BY <4>1 DEF Kin
      <4>3. stack'[j + 1].lba = call.lba
        BY <1>1, <1>4, <3>2
      <4>4. PICK a : a = call.lba
        OBVIOUS
      <4>5. Awaits(j, a)'
        BY <1>9, <3>1, <3>2, <4>2, <4>4
      <4> QED
        BY <4>3, <4>4, <4>5 DEF Awaits
    <3>3. CASE j # d
      <4>1. j < d /\ j + 1 \in 1 .. d
        BY <1>2, <3>1, <3>3
      <4>2. PICK a : a = stack[j + 1].lba
        OBVIOUS
      <4>3. Awaits(j, a)'
        BY <1>9, <3>1, <4>1, <4>2 DEF Kin
      <4>4. stack'[j + 1].lba = a
        BY <1>4, <4>1, <4>2
      <4> QED
        BY <4>3, <4>4 DEF Awaits
    <3> QED
      BY <3>2, <3>3
  <2> QED
    BY <1>4, <2>1, <2>2 DEF Kin, NoCall
<1> QED
  BY <1>4, <1>8, <1>10

(* A child that read as zeros is done with.                                *)
LEMMA SkipKin ==
  ASSUME WalkInv, RightInv, Kin, [Next]_vars, call.made, call' = NoCall, stack' = stack,
         NEW d, d = Len(stack), stack # <<>>
  PROVE  /\ Kin' /\ Lbas' = Lbas /\ d \in Nat \ {0}
         /\ \A j \in 1 .. d : j < d => Dones'[j] = Dones[j]
         /\ Dones'[d] = Dones[d] + 1 /\ Kids(Lbas[d])[Dones[d] + 1] = call.lba
<1>1. /\ d \in Nat \ {0} /\ d \in 1 .. d
      /\ \A j \in 1 .. d : stack[j].i \in Nat \ {0} /\ Len(Kids(stack[j].lba)) \in Nat
  BY StackFacts
<1>2. ~call'.made /\ Len(stack') = d
  BY DEF NoCall
<1>3. stack[d].node.level # 0
  <2>1. call.level + 1 = stack[d].node.level /\ call.level \in Nat
    BY DEF WalkInv, TypeOK, Levels, Top
  <2> QED
    BY <2>1
<1>4. Lbas' = Lbas
  BY DEF Lbas
<1>5. \A j \in 1 .. d : j < d => Done(j)' = Done(j)
  BY <1>2 DEF Done
<1>6. Done(d)' = Done(d) + 1
  <2>1. Done(d)' = stack[d].i - 1 /\ Done(d) = stack[d].i - 2
    BY <1>1, <1>2, <1>3 DEF Done, DoneOf
  <2> QED
    BY <1>1, <2>1
<1>7. Awaits(d, call.lba)
  BY DEF Kin
<1>8. Kin'
  <2>1. ASSUME NEW j \in 1 .. d
        PROVE  Done(j)' \in 0 .. Len(Kids(stack[j].lba)')
    <3>1. CASE j < d
      BY <1>5, <2>1, <3>1, KidsStay DEF Kin
    <3>2. CASE j = d
      <4>1. PICK n \in Nat : n = Len(Kids(stack[d].lba))
        BY <1>1
      <4>2. PICK k \in 0 .. n : k = Done(d)
        BY <1>1, <4>1 DEF Kin
      <4>3. k + 1 \in 1 .. n
        BY <1>7, <4>1, <4>2 DEF Awaits
      <4>4. k + 1 \in 0 .. n
        BY <4>3
      <4>5. Kids(stack[d].lba)' = Kids(stack[d].lba)
        BY KidsStay
      <4> QED
        BY <1>6, <3>2, <4>1, <4>2, <4>4, <4>5, KidsStay
    <3> QED
      BY <1>1, <2>1, <3>1, <3>2
  <2>2. ASSUME NEW j \in 1 .. d, j < d
        PROVE  Awaits(j, stack[j + 1].lba)'
    <3>1. Awaits(j, stack[j + 1].lba) /\ Done(j)' = Done(j)
      BY <1>5, <2>2 DEF Kin
    <3> QED
      BY <3>1, KidsStay DEF Awaits
  <2> QED
    BY <1>2, <2>1, <2>2 DEF Kin
<1> QED
  BY <1>1, <1>2, <1>4, <1>5, <1>6, <1>7, <1>8 DEF Lbas, Dones, Awaits

LEMMA AdvancedStack ==
  ASSUME WalkInv, RightInv, stack # <<>>, stack' = Advanced, NEW d, d = Len(stack)
  PROVE  /\ d \in Nat \ {0} /\ Len(stack') = d
         /\ \A j \in 1 .. d : stack'[j].lba = stack[j].lba /\ stack'[j].node = stack[j].node
         /\ \A j \in 1 .. d : j < d => stack'[j].i = stack[j].i
         /\ stack'[d].i = stack[d].i + 1
<1>1. d \in Nat \ {0} /\ d \in 1 .. d /\ stack \in Seq(Frame) /\ \A j \in 1 .. d : stack[j] \in Frame
  BY StackFacts
<1>2. PICK frame : frame = [stack[d] EXCEPT !.i = @ + 1]
  OBVIOUS
<1>3. frame \in Frame /\ frame.lba = stack[d].lba /\ frame.node = stack[d].node
      /\ frame.i = stack[d].i + 1
  BY <1>1, <1>2 DEF Frame
<1>4. stack' = [stack EXCEPT ![d] = frame]
  BY <1>2 DEF Advanced
<1>5. /\ stack' \in Seq(Frame) /\ Len(stack') = d
      /\ \A j \in 1 .. d : stack'[j] = IF j = d THEN frame ELSE stack[j]
  BY <1>1, <1>3, <1>4, ExceptSeq
<1> QED
  BY <1>1, <1>3, <1>5

(* The items of a leaf are no children.                                    *)
LEMMA LeafKin ==
  ASSUME WalkInv, RightInv, Kin, [Next]_vars, stack # <<>>, ~call.made, call' = call,
         stack' = Advanced, Top.node.level = 0
  PROVE  Kin' /\ Lbas' = Lbas /\ Dones' = Dones
<1>1. PICK d : d = Len(stack)
  OBVIOUS
<1>2. /\ d \in Nat \ {0} /\ Len(stack') = d
      /\ \A j \in 1 .. d : stack'[j].lba = stack[j].lba /\ stack'[j].node = stack[j].node
      /\ \A j \in 1 .. d : j < d => stack'[j].i = stack[j].i
  BY <1>1, AdvancedStack
<1>3. Lbas' = Lbas
  BY <1>1, <1>2 DEF Lbas
<1>4. \A j \in 1 .. d : Done(j)' = Done(j)
  <2>1. ASSUME NEW j \in 1 .. d
        PROVE  Done(j)' = Done(j)
    <3>1. CASE j < d
      BY <1>1, <1>2, <3>1 DEF Done, DoneOf
    <3>2. CASE j = d
      BY <1>1, <1>2, <3>2 DEF Done, DoneOf, Top
    <3> QED
      BY <1>2, <2>1, <3>1, <3>2
  <2> QED
    BY <2>1
<1>5. Dones' = Dones
  BY <1>1, <1>2, <1>4 DEF Dones
<1>6. Kin'
  <2>1. \A j \in 1 .. d : Done(j)' \in 0 .. Len(Kids(stack[j].lba)')
    BY <1>1, <1>2, <1>4, KidsStay DEF Kin
  <2>2. ASSUME NEW j \in 1 .. d, j < d
        PROVE  Awaits(j, stack[j + 1].lba)'
    <3>1. Awaits(j, stack[j + 1].lba) /\ Done(j)' = Done(j) /\ j + 1 \in 1 .. d
      BY <1>1, <1>2, <1>4, <2>2 DEF Kin
    <3>2. stack'[j].lba = stack[j].lba /\ stack'[j + 1].lba = stack[j + 1].lba
      BY <1>2, <3>1
    <3> QED
      BY <3>1, <3>2, KidsStay DEF Awaits
  <2> QED
    BY <1>2, <2>1, <2>2 DEF Kin
<1> QED
  BY <1>3, <1>5, <1>6

(* A call is for the first child that is not done with.                    *)
LEMMA ChildKin ==
  ASSUME WalkInv, RightInv, Kin, [Next]_vars, stack # <<>>, ~call.made,
         stack' = Advanced, Top.node.level # 0, Top.i <= Len(Top.node.children),
         call' = Call(Top.node.children[Top.i], Top.node.level - 1, FALSE)
  PROVE  Kin' /\ Lbas' = Lbas /\ Dones' = Dones
<1>1. PICK d : d = Len(stack)
  OBVIOUS
<1>2. /\ d \in Nat \ {0} /\ Len(stack') = d
      /\ \A j \in 1 .. d : stack'[j].lba = stack[j].lba /\ stack'[j].node = stack[j].node
      /\ \A j \in 1 .. d : j < d => stack'[j].i = stack[j].i
      /\ stack'[d].i = stack[d].i + 1
  BY <1>1, AdvancedStack
<1>3. Lbas' = Lbas
  BY <1>1, <1>2 DEF Lbas
<1>4. call'.made /\ call'.lba = Top.node.children[Top.i]
  BY DEF Call
<1>5. d \in 1 .. d /\ stack[d].i \in Nat \ {0} /\ Kids(stack[d].lba) = NodeKids(stack[d].node)
      /\ Len(Kids(stack[d].lba)) \in Nat
  BY <1>1, <1>2, StackFacts
<1>6. Done(d)' = stack[d].i - 1 /\ Done(d) = stack[d].i - 1
  <2>1. Done(d)' = stack[d].i + 1 - 2 /\ Done(d) = stack[d].i - 1
    BY <1>1, <1>2, <1>4, <1>5 DEF Done, DoneOf, Top
  <2> QED
    BY <1>5, <2>1
<1>7. \A j \in 1 .. d : Done(j)' = Done(j)
  <2>1. ASSUME NEW j \in 1 .. d
        PROVE  Done(j)' = Done(j)
    <3>1. CASE j < d
      BY <1>1, <1>2, <3>1 DEF Done, DoneOf
    <3>2. CASE j = d
      BY <1>6, <3>2
    <3> QED
      BY <1>2, <2>1, <3>1, <3>2
  <2> QED
    BY <2>1
<1>8. Dones' = Dones
  BY <1>1, <1>2, <1>7 DEF Dones
<1>9. Kin'
  <2>1. \A j \in 1 .. d : Done(j)' \in 0 .. Len(Kids(stack[j].lba)')
    BY <1>1, <1>2, <1>7, KidsStay DEF Kin
  <2>2. ASSUME NEW j \in 1 .. d, j < d
        PROVE  Awaits(j, stack[j + 1].lba)'
    <3>1. Awaits(j, stack[j + 1].lba) /\ Done(j)' = Done(j) /\ j + 1 \in 1 .. d
      BY <1>1, <1>2, <1>7, <2>2 DEF Kin
    <3>2. stack'[j].lba = stack[j].lba /\ stack'[j + 1].lba = stack[j + 1].lba
      BY <1>2, <3>1
    <3> QED
      BY <3>1, <3>2, KidsStay DEF Awaits
  <2>3. Awaits(d, call.lba)'
    <3>1. Kids(stack[d].lba) = Top.node.children /\ Top = stack[d]
      BY <1>1, <1>5 DEF NodeKids, Top
    <3>2. Done(d)' + 1 = Top.i
      BY <1>5, <1>6, <3>1
    <3>3. Top.i \in 1 .. Len(Kids(stack[d].lba))
      BY <1>5, <3>1
    <3>4. Kids(stack[d].lba)' = Kids(stack[d].lba)
      <4>1. PICK a : a = stack[d].lba
        OBVIOUS
      <4>2. stack'[d].lba = a
        BY <1>2, <1>5, <4>1
      <4> QED
        BY <4>1, <4>2, KidsStay
    <3> QED
      BY <1>4, <3>1, <3>2, <3>3, <3>4 DEF Awaits
  <2> QED
    BY <1>2, <2>1, <2>2, <2>3 DEF Kin
<1> QED
  BY <1>3, <1>8, <1>9

(* A frame is left when its children are done with, and is itself the next *)
(* child of its parent.                                                    *)
LEMMA LeaveKin ==
  ASSUME WalkInv, RightInv, Kin, [Next]_vars, NodeDone, NEW d, d = Len(stack)
  PROVE  /\ Kin' /\ d \in Nat \ {0} /\ Len(stack') = d - 1
         /\ Dones[d] = Len(Kids(Lbas[d]))
         /\ \A j \in 1 .. d - 1 : Lbas'[j] = Lbas[j] /\ (j < d - 1 => Dones'[j] = Dones[j])
         /\ d # 1 => /\ Dones'[d - 1] = Dones[d - 1] + 1
                     /\ Kids(Lbas[d - 1])[Dones[d - 1] + 1] = Lbas[d]
<1>1. /\ stack # <<>> /\ ~call.made /\ Top.i > NodeItems(Top.node)
      /\ stack' = SubSeq(stack, 1, d - 1) /\ call' = call
  BY DEF NodeDone, InNode
<1>2. /\ d \in Nat \ {0} /\ d \in 1 .. d /\ stack \in Seq(Frame)
      /\ \A j \in 1 .. d : /\ stack[j].i \in Nat \ {0} /\ stack[j].node.level \in Nat
                           /\ Kids(stack[j].lba) = NodeKids(stack[j].node)
                           /\ Len(Kids(stack[j].lba)) \in Nat
  BY <1>1, StackFacts
<1>3. Len(stack') = d - 1 /\ \A j \in 1 .. d - 1 : stack'[j] = stack[j]
  BY <1>1, <1>2, SubSeqProperties, LenProperties
<1>4. Done(d) = Len(Kids(stack[d].lba))
  <2>1. PICK n \in Nat : n = Len(Kids(stack[d].lba))
    BY <1>2
  <2>2. Done(d) \in 0 .. n
    BY <1>2, <2>1 DEF Kin
  <2>3. CASE stack[d].node.level = 0
    <3>1. Done(d) = 0 /\ Kids(stack[d].lba) = <<>>
      BY <1>2, <2>3 DEF Done, DoneOf, NodeKids
    <3> QED
      BY <3>1, EmptySeq
  <2>4. CASE stack[d].node.level # 0
    <3>1. Done(d) = stack[d].i - 1
      BY <1>1, <1>2, <2>4 DEF Done, DoneOf
    <3>2. Kids(stack[d].lba) = stack[d].node.children
      BY <1>2, <2>4 DEF NodeKids
    <3>3. stack[d].i > n
      BY <1>1, <2>1, <2>4, <3>2 DEF NodeItems, Top
    <3>4. Done(d) = n
      BY <1>2, <2>2, <3>1, <3>3
    <3> QED
      BY <2>1, <3>4
  <2> QED
    BY <2>3, <2>4
<1>5. \A j \in 1 .. d - 1 : j \in 1 .. d /\ (j < d - 1 => j + 1 \in 1 .. d - 1)
  BY <1>2
<1>6. \A j \in 1 .. d - 1 : j < d - 1 => Done(j)' = Done(j)
  <2>1. ASSUME NEW j \in 1 .. d - 1, j < d - 1
        PROVE  Done(j)' = Done(j)
    <3>1. j < Len(stack) /\ j < Len(stack')
      BY <1>2, <1>3, <2>1
    <3> QED
      BY <1>3, <2>1, <3>1 DEF Done
  <2> QED
    BY <2>1
<1>7. d # 1 => /\ d - 1 \in 1 .. d - 1 /\ d - 1 \in 1 .. d /\ d - 1 < d /\ d - 1 + 1 = d
  BY <1>2
<1>8. ASSUME d # 1
      PROVE  Done(d - 1)' = Done(d - 1) + 1 /\ Awaits(d - 1, stack[d].lba)
  <2>1. stack[d - 1].node.level # 0
    <3>1. /\ stack[d].node.level + d = stack[1].node.level + 1
          /\ stack[d - 1].node.level + (d - 1) = stack[1].node.level + 1
      BY <1>2, <1>7, <1>8, LenProperties DEF WalkInv, Levels
    <3>2. PICK a \in Nat, b \in Nat, c \in Nat :
            a = stack[d].node.level /\ b = stack[d - 1].node.level /\ c = stack[1].node.level
      <4>1. 1 \in 1 .. d
        BY <1>2
      <4> QED
        BY <1>2, <1>7, <1>8, <4>1
    <3>3. a + d = c + 1 /\ b + (d - 1) = c + 1
      BY <3>1, <3>2
    <3>4. b = a + 1
      BY <1>2, <3>3
    <3> QED
      BY <3>2, <3>4
  <2>2. Done(d - 1)' = stack[d - 1].i - 1
    <3>1. ~(d - 1 < Len(stack')) /\ ~call'.made /\ stack'[d - 1] = stack[d - 1]
      BY <1>1, <1>2, <1>3, <1>7, <1>8
    <3> QED
      BY <2>1, <3>1 DEF Done, DoneOf
  <2>3. Done(d - 1) = stack[d - 1].i - 2
    BY <1>7, <1>8, <2>1 DEF Done, DoneOf
  <2>4. Done(d - 1)' = Done(d - 1) + 1
    BY <1>2, <1>7, <1>8, <2>2, <2>3
  <2>5. Awaits(d - 1, stack[d - 1 + 1].lba)
    BY <1>7, <1>8 DEF Kin
  <2> QED
    BY <1>7, <1>8, <2>4, <2>5
<1>9. Kin'
  <2>1. ASSUME NEW j \in 1 .. d - 1
        PROVE  Done(j)' \in 0 .. Len(Kids(stack[j].lba)')
    <3>1. CASE j < d - 1
      BY <1>3, <1>5, <1>6, <2>1, <3>1, KidsStay DEF Kin
    <3>2. CASE j = d - 1
      <4>a. d # 1
        <5>1. d \in Nat \ {0}
          BY <1>2
        <5> QED
          BY <2>1, <3>2, <5>1
      <4>1. d # 1 /\ stack'[j].lba = stack[j].lba
        BY <1>3, <2>1, <4>a, Zenon
      <4>2. PICK n \in Nat : n = Len(Kids(stack[j].lba))
        BY <1>2, <1>5, <2>1
      <4>3. Done(j) \in 0 .. n /\ Done(j) + 1 \in 1 .. n
        BY <1>5, <1>8, <2>1, <3>2, <4>1, <4>2 DEF Kin, Awaits
      <4>4. PICK k \in 0 .. n : k = Done(j)
        BY <4>3
      <4>5. k + 1 \in 0 .. n
        BY <4>3, <4>4
      <4>6. Done(j)' = k + 1
        BY <1>8, <3>2, <4>1, <4>4
      <4> QED
        BY <4>1, <4>2, <4>5, <4>6, KidsStay
    <3>3. j < d - 1 \/ j = d - 1
      <4>1. d \in Nat \ {0}
        BY <1>2
      <4> QED
        BY <2>1, <4>1
    <3> QED
      BY <3>1, <3>2, <3>3, Zenon
  <2>2. ASSUME NEW j \in 1 .. d - 1, j < d - 1
        PROVE  Awaits(j, stack[j + 1].lba)'
    <3>1. j \in 1 .. d /\ j < d /\ j + 1 \in 1 .. d - 1
      BY <1>2, <1>5, <2>2
    <3>2. Awaits(j, stack[j + 1].lba) /\ Done(j)' = Done(j)
      BY <1>6, <2>2, <3>1 DEF Kin
    <3>3. stack'[j].lba = stack[j].lba /\ stack'[j + 1].lba = stack[j + 1].lba
      BY <1>3, <2>2, <3>1
    <3> QED
      BY <3>2, <3>3, KidsStay DEF Awaits
  <2> QED
    BY <1>1, <1>3, <2>1, <2>2 DEF Kin
<1>10. Dones[d] = Len(Kids(Lbas[d])) /\ Lbas[d] = stack[d].lba
  BY <1>2, <1>4 DEF Dones, Lbas
<1>11. \A j \in 1 .. d - 1 : Lbas'[j] = Lbas[j] /\ (j < d - 1 => Dones'[j] = Dones[j])
  BY <1>3, <1>5, <1>6 DEF Dones, Lbas
<1>12. ASSUME d # 1
       PROVE  /\ Dones'[d - 1] = Dones[d - 1] + 1
              /\ Kids(Lbas[d - 1])[Dones[d - 1] + 1] = Lbas[d]
  <2>1. Dones'[d - 1] = Done(d - 1)' /\ Dones[d - 1] = Done(d - 1) /\ Lbas[d - 1] = stack[d - 1].lba
    BY <1>3, <1>7, <1>12 DEF Dones, Lbas
  <2> QED
    BY <1>8, <1>10, <1>12, <2>1 DEF Awaits
<1> QED
  BY <1>2, <1>3, <1>9, <1>10, <1>11, <1>12

LEMMA NoFramesKin ==
  ASSUME stack' = <<>>
  PROVE  Kin'
BY EmptySeq DEF Kin

-----------------------------------------------------------------------------
(* The lists                                                               *)

RootOf(t) == IF t = "chunk" THEN Sb.chunk_tree_root_lba ELSE Sb.root_tree_root_lba

(* The list of the tree that is walked: nothing before its root is read,   *)
(* the nodes of the frames and trees that ended, or the whole tree.        *)
Walked ==
  stage \in {"chunk", "root"} =>
    /\ stack = <<>> /\ call.made => seen[stage] = <<>> /\ call.lba = RootOf(stage)
    /\ stack = <<>> /\ ~call.made => InOrder(seen[stage], empty, RootOf(stage))
    /\ stack # <<>> => /\ stack[1].lba = RootOf(stage)
                       /\ OnTrail(seen[stage], empty, Len(stack), Lbas, Dones)

(* The trees before and after it.                                          *)
Others ==
  /\ stage \in {"read", "sys"} => seen["chunk"] = <<>>
  /\ stage \in {"read", "sys", "chunk"} => seen["root"] = <<>>
  /\ stage = "root" => InOrder(seen["chunk"], empty, RootOf("chunk"))

ListInv == Fates /\ Kin /\ Walked /\ Others

LEMMA OrderOfNothing ==
  ASSUME NEW gone, NEW root \in gone, NEW none, none = <<>>
  PROVE  InOrder(none, gone, root)
<1>1. Len(none) = 0 /\ 1 .. 0 = {}
  BY EmptySeq
<1>2. PICK end : end = [p \in 1 .. 0 |-> 1]
  OBVIOUS
<1>3. end \in [1 .. Len(none) -> 1 .. Len(none)] /\ DOMAIN end = {}
  BY <1>1, <1>2
<1>4. Over(none, end, gone, root, 1, Len(none) + 1)
  BY <1>1 DEF Over
<1> QED
  BY <1>3, <1>4 DEF InOrder

LEMMA ListsStay ==
  ASSUME WalkInv, [Next]_vars
  PROVE  /\ \A t : RootOf(t)' = RootOf(t)
         /\ \A s, gone, root : InOrder(s, gone, root)' <=> InOrder(s, gone, root)
         /\ \A s, gone, d, lba, done :
              OnTrail(s, gone, d, lba, done)' <=> OnTrail(s, gone, d, lba, done)
<1>1. \A a : Kids(a)' = Kids(a)
  BY KidsStay
<1>2. \A s, end, gone, p : Parsed(s, end, gone, p)' <=> Parsed(s, end, gone, p)
  BY <1>1 DEF Parsed
<1>3. \A s, gone, root : InOrder(s, gone, root)' <=> InOrder(s, gone, root)
  BY <1>2, Zenon DEF InOrder
<1>4. \A s, gone, d, lba, done, pos, end :
        Trail(s, gone, d, lba, done, pos, end)' <=> Trail(s, gone, d, lba, done, pos, end)
  BY <1>1, <1>2 DEF Trail
<1>5. \A s, gone, d, lba, done :
        OnTrail(s, gone, d, lba, done)' <=> OnTrail(s, gone, d, lba, done)
  <2> SUFFICES ASSUME NEW s, NEW gone, NEW d, NEW lba, NEW done
               PROVE  OnTrail(s, gone, d, lba, done)' <=> OnTrail(s, gone, d, lba, done)
    OBVIOUS
  <2>1. \A pos, end : Trail(s, gone, d, lba, done, pos, end)'
                     <=> Trail(s, gone, d, lba, done, pos, end)
    BY <1>4, Zenon
  <2> QED
    BY <2>1, Zenon DEF OnTrail
<1>6. \A t : RootOf(t)' = RootOf(t)
  BY VolumeStays DEF RootOf, Sb
<1> QED
  BY <1>3, <1>5, <1>6

LEMMA InitList == Init => ListInv
<1> SUFFICES ASSUME Init PROVE ListInv
  OBVIOUS
<1>1. Len(<<>>) = 0 /\ DOMAIN <<>> = {} /\ 1 .. 0 = {}
  BY EmptySeq
<1> QED
  BY <1>1 DEF Init, ListInv, Fates, Kin, Walked, Others, NoCall

(* A mount that ended has no frames, and nothing else is said of it.       *)
LEMMA EndedList ==
  ASSUME stage' = "ended", stack' = <<>>
  PROVE  Kin' /\ Walked' /\ Others'
BY NoFramesKin DEF Walked, Others

(* The types of what a list is made of.                                    *)
LEMMA ListFacts ==
  ASSUME WalkInv
  PROVE  /\ vol \in Volumes /\ seen["chunk"] \in Seq(Nat) /\ seen["root"] \in Seq(Nat)
         /\ call.lba \in Nat /\ (stage \in {"chunk", "root"} => seen[stage] \in Seq(Nat))
         /\ stack \in Seq(Frame) /\ stage \in {"read", "sys", "chunk", "root", "ended"}
BY DEF WalkInv, TypeOK

(* A node that is empty.                                                   *)
LEMMA EmptyList ==
  ASSUME WalkInv, RightInv, ListInv, [Next]_vars, WalkInv', Fates',
         call.made, call' = NoCall, stack' = stack, stage' = stage, seen' = seen,
         empty' = empty \cup {call.lba}
  PROVE  Kin' /\ Walked' /\ Others'
<1>1. stage \in {"chunk", "root"} /\ stage' # "ended" /\ ~call'.made
  BY DEF WalkInv, Staged, NoCall
<1>2. PICK gone, gone2 : gone = empty /\ gone2 = empty' /\ gone2 = gone \cup {call.lba}
  OBVIOUS
<1>3. \A t \in {"chunk", "root"} : \A p \in 1 .. Len(seen[t]) : seen[t][p] \notin gone2
  <2>1. \A t \in {"chunk", "root"} : \A p \in 1 .. Len(seen'[t]) : seen'[t][p] \notin empty'
    <3>1. ASSUME NEW t \in {"chunk", "root"}, NEW p \in 1 .. Len(seen'[t])
          PROVE  seen'[t][p] \notin empty'
      <4>1. p \in DOMAIN seen'[t]
        BY <3>1, LenProperties DEF WalkInv, TypeOK
      <4> QED
        BY <1>1, <4>1 DEF Fates, ToZeros, ToNode
    <3> QED
      BY <3>1
  <2> QED
    BY <1>2, <2>1
<1>4. Others'
  <2>1. stage = "chunk" => seen["root"] = <<>>
    BY DEF ListInv, Others
  <2>2. stage = "root" => InOrder(seen["chunk"], gone2, RootOf("chunk"))
    <3>1. stage = "root" => InOrder(seen["chunk"], gone, RootOf("chunk"))
      BY <1>2 DEF ListInv, Others
    <3> QED
      BY <1>2, <1>3, <3>1, ListFacts, OrderKeeps
  <2>3. PICK s, r : s = seen["chunk"] /\ r = RootOf("chunk")
    OBVIOUS
  <2>4. stage = "root" => InOrder(s, gone2, r)'
    BY <2>2, <2>3, ListsStay
  <2>5. seen'["chunk"] = s /\ RootOf("chunk")' = r /\ empty' = gone2
    BY <1>2, <2>3, ListsStay
  <2>6. stage = "root" => InOrder(seen["chunk"], empty, RootOf("chunk"))'
    BY <2>4, <2>5 DEF InOrder
  <2> QED
    BY <1>1, <2>1, <2>6 DEF Others
<1>5. CASE stack = <<>>
  <2>1. seen[stage] = <<>> /\ call.lba = RootOf(stage)
    BY <1>1, <1>5 DEF ListInv, Walked
  <2>2. PICK s, r : s = seen[stage] /\ r = RootOf(stage)
    OBVIOUS
  <2>3. InOrder(s, gone2, r)
    BY <1>2, <2>1, <2>2, OrderOfNothing
  <2>4. InOrder(s, gone2, r)' /\ seen'[stage'] = s /\ RootOf(stage)' = r
    <3>1. RootOf(stage)' = RootOf(stage)
      BY VolumeStays DEF RootOf, Sb
    <3> QED
      BY <2>2, <2>3, <3>1, ListsStay
  <2>5. InOrder(seen[stage], empty, RootOf(stage))'
    BY <1>2, <2>4 DEF InOrder
  <2> QED
    BY <1>1, <1>4, <1>5, <2>5, NoFramesKin DEF Walked
<1>6. CASE stack # <<>>
  <2>1. PICK d : d = Len(stack)
    OBVIOUS
  <2>2. /\ Kin' /\ Lbas' = Lbas /\ d \in Nat \ {0}
        /\ \A j \in 1 .. d : j < d => Dones'[j] = Dones[j]
        /\ Dones'[d] = Dones[d] + 1 /\ Kids(Lbas[d])[Dones[d] + 1] = call.lba
    BY <1>6, <2>1, SkipKin DEF ListInv
  <2>3. PICK s, lba, done, done2 : s = seen[stage] /\ lba = Lbas /\ done = Dones /\ done2 = Dones'
    OBVIOUS
  <2>4. lba \in [1 .. d -> Nat] /\ done \in [1 .. d -> Nat] /\ s \in Seq(Nat)
    BY <1>1, <2>1, <2>3, ListTypes, ListFacts DEF ListInv
  <2>5. done2 \in [1 .. d -> Nat]
    <3>1. done2 = [j \in 1 .. d |-> Done(j)']
      BY <2>1, <2>3 DEF Dones
    <3>2. \A j \in 1 .. d : done2[j] \in Nat
      <4>1. ASSUME NEW j \in 1 .. d
            PROVE  done2[j] \in Nat
        <5>1. CASE j < d
          BY <2>2, <2>3, <2>4, <4>1, <5>1
        <5>2. CASE j = d
          BY <2>2, <2>3, <2>4, <4>1, <5>2
        <5> QED
          BY <2>2, <4>1, <5>1, <5>2
      <4> QED
        BY <4>1
    <3> QED
      BY <3>1, <3>2
  <2>6. stack[1].lba = RootOf(stage) /\ OnTrail(s, gone, d, lba, done)
    BY <1>1, <1>2, <1>6, <2>1, <2>3 DEF ListInv, Walked
  <2>7. OnTrail(s, gone2, d, lba, done)
    <3>1. \A p \in 1 .. Len(s) : s[p] \in gone2 => s[p] \in gone
      BY <1>1, <1>3, <2>3
    <3>2. d \in Nat /\ gone \subseteq gone2
      BY <1>2, <2>2
    <3> QED
      BY <2>4, <2>6, <3>1, <3>2, ListFacts, TrailKeeps
  <2>8. OnTrail(s, gone2, d, lba, done2)
    <3>1. Kids(lba[d])[done[d] + 1] \in gone2
      BY <1>2, <2>2, <2>3
    <3>2. (\A j \in 1 .. d : j < d => done2[j] = done[j]) /\ done2[d] = done[d] + 1
      BY <2>2, <2>3
    <3> QED
      BY <2>2, <2>4, <2>5, <2>7, <3>1, <3>2, ListFacts, TrailSkips
  <2>9. OnTrail(s, gone2, d, lba, done2)'
    BY <2>8, ListsStay
  <2>10. seen'[stage'] = s /\ empty' = gone2 /\ Len(stack') = d /\ Lbas' = lba /\ Dones' = done2
         /\ stack'[1].lba = RootOf(stage)'
    <3>1. RootOf(stage)' = RootOf(stage)
      BY VolumeStays DEF RootOf, Sb
    <3> QED
      BY <1>2, <2>1, <2>2, <2>3, <2>6, <3>1
  <2>11. OnTrail(seen[stage], empty, Len(stack), Lbas, Dones)'
    BY <2>9, <2>10
  <2> QED
    BY <1>1, <1>4, <1>6, <2>2, <2>10, <2>11 DEF Walked
<1> QED
  BY <1>5, <1>6

(* A node that is entered.                                                 *)
LEMMA EnterList ==
  ASSUME WalkInv, RightInv, ListInv, [Next]_vars, WalkInv', RightInv',
         call.made, call' = NoCall, stage' = stage, empty' = empty,
         stack' = Append(stack, [lba |-> call.lba, node |-> Asked, i |-> 1]),
         seen' = [seen EXCEPT ![stage] = Append(@, call.lba)]
  PROVE  Kin' /\ Walked' /\ Others'
<1>1. stage \in {"chunk", "root"} /\ seen \in [{"chunk", "root"} -> Seq(Nat)]
  BY DEF WalkInv, TypeOK, Staged
<1>2. PICK d, s, a, gone, lba, done, lba2, done2 :
        /\ d = Len(stack) /\ s = seen[stage] /\ a = call.lba /\ gone = empty
        /\ lba = Lbas /\ done = Dones /\ lba2 = Lbas' /\ done2 = Dones'
  OBVIOUS
<1>3. /\ Kin' /\ Len(stack') = d + 1 /\ lba2[d + 1] = a /\ done2[d + 1] = 0
      /\ \A j \in 1 .. d : lba2[j] = lba[j] /\ done2[j] = done[j]
  BY <1>2, EnterKin DEF ListInv
<1>4. lba \in [1 .. d -> Nat] /\ done \in [1 .. d -> Nat] /\ s \in Seq(Nat) /\ a \in Nat /\ d \in Nat
  BY <1>1, <1>2, ListTypes, ListFacts, StackFacts DEF ListInv
<1>5. lba2 \in [1 .. d + 1 -> Nat] /\ done2 \in [1 .. d + 1 -> Nat]
  <2>1. \A j \in 1 .. d + 1 : j \in 1 .. d \/ j = d + 1
    BY <1>4
  <2>2. \A j \in 1 .. d + 1 : lba2[j] \in Nat /\ done2[j] \in Nat
    <3>1. \A j \in 1 .. d : lba[j] \in Nat /\ done[j] \in Nat
      BY <1>4
    <3> QED
      <4>1. lba2[d + 1] \in Nat /\ done2[d + 1] \in Nat
        BY <1>3, <1>4
      <4>2. \A j \in 1 .. d : lba2[j] \in Nat /\ done2[j] \in Nat
        BY <1>3, <3>1, Zenon
      <4> QED
        BY <2>1, <4>1, <4>2, Zenon
  <2>3. lba2 = [j \in 1 .. d + 1 |-> stack'[j].lba] /\ done2 = [j \in 1 .. d + 1 |-> Done(j)']
    BY <1>2, <1>3 DEF Lbas, Dones
  <2> QED
    BY <2>2, <2>3
<1>6. OnTrail(s, gone, d, lba, done) /\ (d = 0 => s = <<>>)
  <2>1. CASE stack = <<>>
    <3>1. s = <<>> /\ d = 0
      BY <1>1, <1>2, <2>1, StackFacts DEF ListInv, Walked
    <3> QED
      BY <3>1, TrailOfNothing
  <2>2. CASE stack # <<>>
    <3>1. d # 0
      BY <1>2, <2>2, StackFacts
    <3> QED
      BY <1>1, <1>2, <2>2, <3>1 DEF ListInv, Walked
  <2> QED
    BY <2>1, <2>2
<1>7. PICK s2 : s2 = Append(s, a)
  OBVIOUS
<1>8. OnTrail(s2, gone, d + 1, lba2, done2)
  <2>1. vol \in Volumes
    BY ListFacts
  <2>2. Longer(d, lba, lba2, a) /\ Longer(d, done, done2, 0) /\ (d # 0 \/ s = <<>>)
    BY <1>3, <1>5, <1>6 DEF Longer
  <2>3. OnTrail(Append(s, a), gone, d + 1, lba2, done2)
    BY <1>4, <1>6, <2>1, <2>2, TrailEnters, Zenon
  <2> QED
    BY <1>7, <2>3
<1>9. seen'[stage'] = s2 /\ (stage = "root" => seen'["chunk"] = seen["chunk"])
      /\ (stage = "chunk" => seen'["root"] = seen["root"])
  BY <1>1, <1>2, <1>7
<1>10. OnTrail(seen[stage], empty, Len(stack), Lbas, Dones)'
  <2>1. OnTrail(s2, gone, d + 1, lba2, done2)'
    BY <1>8, ListsStay
  <2> QED
    BY <1>2, <1>3, <1>9, <2>1
<1>11. stack' # <<>> /\ stack'[1].lba = RootOf(stage)'
  <2>1. RootOf(stage)' = RootOf(stage)
    BY VolumeStays DEF RootOf, Sb
  <2>2. stack' \in Seq(Frame)
    BY DEF WalkInv, TypeOK
  <2>3. stack' # <<>>
    <3>1. Len(stack') # 0
      BY <1>3, <1>4
    <3> QED
      BY <3>1, EmptySeq
  <2>4. lba2[1] = RootOf(stage)
    <3>1. CASE stack = <<>>
      <4>1. d = 0 /\ a = RootOf(stage)
        BY <1>1, <1>2, <3>1, StackFacts DEF ListInv, Walked
      <4> QED
        BY <1>3, <4>1
    <3>2. CASE stack # <<>>
      <4>1. 1 \in 1 .. d /\ stack[1].lba = RootOf(stage)
        BY <1>1, <1>2, <1>4, <3>2, StackFacts DEF ListInv, Walked
      <4>2. lba[1] = stack[1].lba
        BY <1>2, <4>1 DEF Lbas
      <4> QED
        BY <1>3, <4>1, <4>2
    <3> QED
      BY <3>1, <3>2
  <2>5. 1 \in 1 .. d + 1
    BY <1>4
  <2>6. stack'[1].lba = lba2[1]
    BY <1>2, <1>3, <2>5 DEF Lbas
  <2> QED
    BY <2>1, <2>3, <2>4, <2>6
<1>12. Walked'
  BY <1>10, <1>11 DEF Walked
<1>13. Others'
  <2>1. PICK t, r : t = seen["chunk"] /\ r = RootOf("chunk")
    OBVIOUS
  <2>2. stage = "root" => InOrder(t, gone, r)'
    BY <1>2, <2>1, ListsStay DEF ListInv, Others
  <2>3. stage = "root" => InOrder(seen["chunk"], empty, RootOf("chunk"))'
    BY <1>2, <1>9, <2>1, <2>2, ListsStay DEF InOrder
  <2> QED
    BY <1>1, <1>9, <2>3 DEF ListInv, Others
<1> QED
  BY <1>3, <1>12, <1>13

(* What is said of the other trees stays when no list changes.             *)
LEMMA OthersStay ==
  ASSUME WalkInv, ListInv, [Next]_vars, stage' = stage, seen' = seen, empty' = empty
  PROVE  Others'
<1>1. PICK s, gone, r : s = seen["chunk"] /\ gone = empty /\ r = RootOf("chunk")
  OBVIOUS
<1>2. stage = "root" => InOrder(s, gone, r)'
  BY <1>1, ListsStay DEF ListInv, Others
<1>3. stage = "root" => InOrder(seen["chunk"], empty, RootOf("chunk"))'
  BY <1>1, <1>2, ListsStay DEF InOrder
<1> QED
  BY <1>3 DEF ListInv, Others

(* A frame that goes on, whether it calls or not.                          *)
LEMMA GoOnList ==
  ASSUME WalkInv, RightInv, ListInv, [Next]_vars, stack # <<>>, stack' = Advanced,
         stage' = stage, seen' = seen, empty' = empty,
         Kin', Lbas' = Lbas, Dones' = Dones
  PROVE  Walked' /\ Others'
<1>1. PICK d, s, gone, lba, done :
        d = Len(stack) /\ s = seen[stage] /\ gone = empty /\ lba = Lbas /\ done = Dones
  OBVIOUS
<1>2. stage \in {"chunk", "root"} => OnTrail(s, gone, d, lba, done) /\ stack[1].lba = RootOf(stage)
  BY <1>1 DEF ListInv, Walked
<1>3. /\ d \in Nat \ {0} /\ Len(stack') = d
      /\ \A j \in 1 .. d : stack'[j].lba = stack[j].lba
  BY <1>1, AdvancedStack
<1>4. stack' # <<>> /\ 1 \in 1 .. d
  BY <1>3, EmptySeq
<1>5. RootOf(stage)' = RootOf(stage)
  BY VolumeStays DEF RootOf, Sb
<1>6. stage \in {"chunk", "root"} => OnTrail(s, gone, d, lba, done)'
  BY <1>2, ListsStay
<1>7. stage \in {"chunk", "root"} => OnTrail(seen[stage], empty, Len(stack), Lbas, Dones)'
  BY <1>1, <1>3, <1>6
<1>8. stage \in {"chunk", "root"} => stack'[1].lba = RootOf(stage)'
  BY <1>2, <1>3, <1>4, <1>5
<1> QED
  BY <1>4, <1>7, <1>8, OthersStay DEF Walked

(* A node that is done with: its frame goes, and of the root the list is   *)
(* the tree.                                                               *)
LEMMA LeaveList ==
  ASSUME WalkInv, RightInv, ListInv, [Next]_vars, NodeDone
  PROVE  Kin' /\ Walked' /\ Others'
<1>1. /\ stack # <<>> /\ ~call.made /\ stage \in {"chunk", "root"} /\ call' = call
      /\ stage' = stage /\ seen' = seen /\ empty' = empty /\ stack' = SubSeq(stack, 1, Len(stack) - 1)
  BY DEF NodeDone, InNode
<1>2. PICK d, s, gone, lba, done, lba2, done2 :
        /\ d = Len(stack) /\ s = seen[stage] /\ gone = empty /\ lba = Lbas /\ done = Dones
        /\ lba2 = Lbas' /\ done2 = Dones'
  OBVIOUS
<1>3. /\ Kin' /\ d \in Nat \ {0} /\ Len(stack') = d - 1 /\ done[d] = Len(Kids(lba[d]))
      /\ \A j \in 1 .. d - 1 : lba2[j] = lba[j] /\ (j < d - 1 => done2[j] = done[j])
      /\ d # 1 => /\ done2[d - 1] = done[d - 1] + 1
                  /\ Kids(lba[d - 1])[done[d - 1] + 1] = lba[d]
  BY <1>2, LeaveKin DEF ListInv
<1>4. /\ lba \in [1 .. d -> Nat] /\ done \in [1 .. d -> Nat] /\ s \in Seq(Nat)
      /\ OnTrail(s, gone, d, lba, done) /\ stack[1].lba = RootOf(stage) /\ vol \in Volumes
  BY <1>1, <1>2, ListTypes, ListFacts DEF ListInv, Walked
<1>5. d \in 1 .. d /\ 1 \in 1 .. d /\ lba[d] = stack[d].lba /\ lba[1] = stack[1].lba
  BY <1>2, <1>3 DEF Lbas
<1>6. lba[d] \notin gone
  <2>1. PICK pos \in [1 .. d -> 1 .. Len(s)] :
          \E end \in [Closed(s, d, pos) -> 1 .. Len(s)] : Trail(s, gone, d, lba, done, pos, end)
    BY <1>4 DEF OnTrail
  <2>2. s[pos[d]] = lba[d] /\ pos[d] \in 1 .. Len(s)
    BY <1>5, <2>1 DEF Trail
  <2>3. stage # "ended"
    BY <1>1
  <2> QED
    BY <1>1, <1>2, <2>2, <2>3, FatesApart DEF ListInv
<1>7. RootOf(stage)' = RootOf(stage)
  BY <1>1, VolumeStays DEF RootOf, Sb
<1>8. stack' \in Seq(Frame)
  BY <1>1, <1>2, <1>3, SubSeqProperties, LenProperties, ListFacts
<1>9. CASE d = 1
  <2>1. stack' = <<>>
    BY <1>3, <1>8, <1>9, EmptySeq
  <2>2. InOrder(s, gone, lba[1])
    BY <1>3, <1>4, <1>6, <1>9, TreeEnds
  <2>3. PICK r : r = lba[1]
    OBVIOUS
  <2>4. InOrder(s, gone, r)' /\ RootOf(stage)' = r
    BY <1>4, <1>5, <1>7, <2>2, <2>3, ListsStay
  <2>5. InOrder(seen[stage], empty, RootOf(stage))'
    BY <1>1, <1>2, <2>4
  <2> QED
    BY <1>1, <1>3, <2>1, <2>5, OthersStay DEF Walked
<1>10. CASE d # 1
  <2>1. PICK e \in Nat \ {0} : e = d - 1 /\ d = e + 1
    BY <1>3, <1>10
  <2>2. 1 \in 1 .. e /\ e \in 1 .. e
    BY <2>1
  <2>3. lba2 \in [1 .. e -> Nat] /\ done2 \in [1 .. e -> Nat]
    <3>1. lba2 = [j \in 1 .. e |-> stack'[j].lba] /\ done2 = [j \in 1 .. e |-> Done(j)']
      BY <1>2, <1>3, <2>1 DEF Lbas, Dones
    <3>2. \A j \in 1 .. e : j \in 1 .. d /\ (j < e \/ j = e)
      BY <2>1
    <3>3. \A j \in 1 .. e : lba2[j] \in Nat /\ done2[j] \in Nat
      <4>1. ASSUME NEW j \in 1 .. e
            PROVE  lba2[j] \in Nat /\ done2[j] \in Nat
        <5>1. lba[j] \in Nat /\ done[j] \in Nat /\ lba2[j] = lba[j]
          BY <1>3, <1>4, <2>1, <3>2
        <5>2. CASE j < e
          BY <1>3, <2>1, <5>1, <5>2
        <5>3. CASE j = e
          BY <1>3, <1>10, <2>1, <5>1, <5>3
        <5> QED
          BY <3>2, <5>2, <5>3
      <4> QED
        BY <4>1
    <3> QED
      BY <3>1, <3>3
  <2>4. OnTrail(s, gone, e, lba2, done2)
    <3>1. /\ lba \in [1 .. e + 1 -> Nat] /\ done \in [1 .. e + 1 -> Nat]
          /\ OnTrail(s, gone, e + 1, lba, done) /\ lba[e + 1] \notin gone
          /\ done[e + 1] = Len(Kids(lba[e + 1]))
      BY <1>3, <1>4, <1>6, <2>1
    <3>2. /\ Kids(lba[e])[done[e] + 1] = lba[e + 1] /\ done2[e] = done[e] + 1
          /\ \A j \in 1 .. e : lba2[j] = lba[j]
          /\ \A j \in 1 .. e : j < e => done2[j] = done[j]
      BY <1>3, <1>10, <2>1
    <3> QED
      BY <1>4, <2>3, <3>1, <3>2, TrailLeaves, Zenon
  <2>5. OnTrail(s, gone, e, lba2, done2)'
    BY <2>4, ListsStay
  <2>6. OnTrail(seen[stage], empty, Len(stack), Lbas, Dones)'
    BY <1>1, <1>2, <1>3, <2>1, <2>5
  <2>7. stack' # <<>> /\ stack'[1].lba = RootOf(stage)'
    <3>1. stack' # <<>>
      BY <1>3, <2>1, EmptySeq
    <3>2. lba2[1] = stack'[1].lba /\ lba2[1] = lba[1]
      BY <1>2, <1>3, <2>1, <2>2 DEF Lbas
    <3> QED
      BY <1>4, <1>5, <1>7, <3>1, <3>2
  <2> QED
    BY <1>1, <1>3, <2>6, <2>7, OthersStay DEF Walked
<1> QED
  BY <1>9, <1>10

(* The calls for the roots.                                                *)
LEMMA RootCallList ==
  ASSUME WalkInv, RightInv, ListInv, [Next]_vars, SysEnd \/ ChunkTreeDone
  PROVE  Kin' /\ Walked' /\ Others'
<1>1. stack' = <<>> /\ seen' = seen /\ empty' = empty /\ call'.made
  BY DEF SysEnd, ChunkTreeDone, Call, WalkInv, Staged
<1>2. \A t : RootOf(t)' = RootOf(t)
  BY ListsStay
<1>3. CASE SysEnd
  <2>1. stage = "sys" /\ stage' = "chunk" /\ call'.lba = RootOf("chunk")
    BY <1>3 DEF SysEnd, Call, RootOf
  <2>2. seen["chunk"] = <<>> /\ seen["root"] = <<>>
    BY <2>1 DEF ListInv, Others
  <2>3. RootOf(stage)' = RootOf("chunk")
    BY <2>1, VolumeStays DEF RootOf, Sb
  <2> QED
    BY <1>1, <2>1, <2>2, <2>3, NoFramesKin DEF Walked, Others
<1>4. CASE ChunkTreeDone
  <2>1. stage = "chunk" /\ stage' = "root" /\ call'.lba = RootOf("root") /\ stack = <<>> /\ ~call.made
    BY <1>4 DEF ChunkTreeDone, Call, RootOf
  <2>2. seen["root"] = <<>> /\ InOrder(seen["chunk"], empty, RootOf("chunk"))
    BY <2>1 DEF ListInv, Others, Walked
  <2>3. RootOf(stage)' = RootOf("root")
    BY <2>1, VolumeStays DEF RootOf, Sb
  <2>4. PICK s, gone, r : s = seen["chunk"] /\ gone = empty /\ r = RootOf("chunk")
    OBVIOUS
  <2>5. InOrder(s, gone, r)'
    BY <2>2, <2>4, ListsStay
  <2>6. InOrder(seen["chunk"], empty, RootOf("chunk"))'
    BY <1>1, <1>2, <2>4, <2>5
  <2> QED
    BY <1>1, <2>1, <2>2, <2>3, <2>6, NoFramesKin DEF Walked, Others
<1> QED
  BY <1>3, <1>4

LEMMA ListStep ==
  WalkInv /\ RightInv /\ ListInv /\ [Next]_vars /\ WalkInv' /\ RightInv' => ListInv'
<1> SUFFICES ASSUME WalkInv, RightInv, ListInv, [Next]_vars, WalkInv', RightInv'
             PROVE  ListInv'
  OBVIOUS
<1>1. Fates'
  BY FatesStep DEF ListInv
<1>2. CASE \E error : Fail(error)
  BY <1>1, <1>2, EndedList DEF Fail, ListInv
<1>3. CASE ReadNode
  <2>1. CASE call' = NoCall /\ stack' = stack /\ stage' = stage /\ seen' = seen
             /\ empty' = empty \cup {call.lba}
    BY <1>1, <1>3, <2>1, EmptyList DEF ReadNode, ListInv
  <2>2. CASE /\ call' = NoCall /\ stage' = stage /\ empty' = empty
             /\ stack' = Append(stack, [lba |-> call.lba, node |-> Asked, i |-> 1])
             /\ seen' = [seen EXCEPT ![stage] = Append(@, call.lba)]
    BY <1>1, <1>3, <2>2, EnterList DEF ReadNode, ListInv
  <2> QED
    BY <1>2, <1>3, <2>1, <2>2 DEF ReadNode
<1>4. CASE LeafItem
  <2>1. CASE stack' = Advanced /\ UNCHANGED <<stage, call, seen, empty>>
    <3>1. stack # <<>> /\ ~call.made /\ Top.node.level = 0
      BY <1>4 DEF LeafItem, InNode
    <3>2. Kin' /\ Lbas' = Lbas /\ Dones' = Dones
      BY <2>1, <3>1, LeafKin DEF ListInv
    <3> QED
      BY <1>1, <2>1, <3>1, <3>2, GoOnList DEF ListInv
  <2> QED
    BY <1>2, <1>4, <2>1 DEF LeafItem
<1>5. CASE ChildNode
  <2>1. /\ stack # <<>> /\ ~call.made /\ Top.node.level # 0 /\ Top.i <= Len(Top.node.children)
        /\ call' = Call(Top.node.children[Top.i], Top.node.level - 1, FALSE)
        /\ stack' = Advanced /\ stage' = stage /\ seen' = seen /\ empty' = empty
    BY <1>5 DEF ChildNode, InNode
  <2>2. Kin' /\ Lbas' = Lbas /\ Dones' = Dones
    BY <2>1, ChildKin DEF ListInv
  <2> QED
    BY <1>1, <2>1, <2>2, GoOnList DEF ListInv
<1>6. CASE NodeDone
  BY <1>1, <1>6, LeaveList DEF ListInv
<1>7. CASE SysEnd \/ ChunkTreeDone
  BY <1>1, <1>7, RootCallList DEF ListInv
<1>8. CASE RootTreeDone
  BY <1>2, <1>8 DEF RootTreeDone
<1>9. CASE /\ stage \in {"read", "sys"} /\ stage' \in {"read", "sys"}
           /\ UNCHANGED <<call, stack, seen, empty>>
  <2>1. stack' = <<>>
    BY <1>9 DEF WalkInv, Staged
  <2> QED
    BY <1>1, <1>9, <2>1, NoFramesKin DEF ListInv, Walked, Others
<1>10. CASE ReadSuperblock
  BY <1>2, <1>9, <1>10 DEF ReadSuperblock
<1>11. CASE SysChunk
  BY <1>2, <1>9, <1>11 DEF SysChunk
<1>12. CASE UNCHANGED vars
  <2>1. UNCHANGED <<stage, call, stack, seen, empty, vol>>
    BY <1>12 DEF vars
  <2>2. \A a : Kids(a)' = Kids(a)
    BY KidsStay
  <2>3. \A j : Done(j)' = Done(j)
    BY <2>1 DEF Done
  <2>4. Lbas' = Lbas /\ Dones' = Dones
    BY <2>1, <2>3 DEF Lbas, Dones
  <2>5. Kin'
    <3>1. \A j \in 1 .. Len(stack) : Done(j)' \in 0 .. Len(Kids(stack[j].lba)')
      BY <2>1, <2>2, <2>3 DEF ListInv, Kin
    <3>2. \A j, a : Awaits(j, a)' <=> Awaits(j, a)
      BY <2>1, <2>2, <2>3 DEF Awaits
    <3> QED
      BY <2>1, <3>1, <3>2 DEF ListInv, Kin
  <2>6. Walked'
    <3>1. PICK d, s, gone, lba, done, r :
            /\ d = Len(stack) /\ s = seen[stage] /\ gone = empty /\ lba = Lbas /\ done = Dones
            /\ r = RootOf(stage)
      OBVIOUS
    <3>2. RootOf(stage)' = r
      BY <2>1, <3>1 DEF RootOf, Sb
    <3>3. InOrder(s, gone, r)' <=> InOrder(s, gone, r)
      BY ListsStay
    <3>4. OnTrail(s, gone, d, lba, done)' <=> OnTrail(s, gone, d, lba, done)
      BY ListsStay
    <3>5. InOrder(seen[stage], empty, RootOf(stage)) => InOrder(seen[stage], empty, RootOf(stage))'
      BY <2>1, <3>1, <3>2, <3>3
    <3>6. OnTrail(seen[stage], empty, Len(stack), Lbas, Dones)
          => OnTrail(seen[stage], empty, Len(stack), Lbas, Dones)'
      BY <2>1, <2>4, <3>1, <3>4
    <3> QED
      BY <2>1, <3>1, <3>2, <3>5, <3>6 DEF ListInv, Walked
  <2> QED
    BY <1>1, <2>1, <2>5, <2>6, OthersStay DEF ListInv
<1> QED
  BY <1>3, <1>4, <1>5, <1>6, <1>7, <1>8, <1>10, <1>11, <1>12 DEF Next

-----------------------------------------------------------------------------
(* Where an empty answer comes from                                        *)

(* The chunk items of a volume, and the assumption under which an empty    *)
(* answer says something: from inside of its range, none leads from an     *)
(* address that is pointed at to zeros, unless the volume has zeros there. *)
ChunkItems ==
  Range(Sb.sys_chunk_array) \cup UNION {Range(vol.disk[p].items) : p \in DOMAIN vol.disk}

ChunksLead ==
  \A item \in ChunkItems, a \in Pointers :
    LET low == item.key.offset
    IN  item.key.item_type = "CHUNK_ITEM" /\ low <= a /\ a < low + item.chunk.length =>
          \A i \in DOMAIN item.chunk.stripes :
            BlockAt(item.chunk.stripes[i].offset + (a - low)).zero => Home(a).zero

(* A range of the map is a stripe of a chunk item.                         *)
StripeOf(range, item, i) ==
  /\ range.low_range = item.key.offset /\ range.up_range = item.key.offset + item.chunk.length
  /\ range.phys_offset = item.chunk.stripes[i].offset
Ranges ==
  \A k \in DOMAIN chunks : \E item \in ChunkItems :
    /\ item.key.item_type = "CHUNK_ITEM"
    /\ \E i \in DOMAIN item.chunk.stripes : StripeOf(chunks[k], item, i)

EmptyInv == ChunksLead /\ Ranges /\ empty \subseteq Pointers

LEMMA InitEmpty == Init /\ ChunksLead => EmptyInv
BY EmptySeq DEF Init, EmptyInv, Ranges

LEMMA RangesAppended ==
  ASSUME WalkInv, Ranges, NEW item \in ChunkItems, item \in Item,
         item.key.item_type = "CHUNK_ITEM",
         chunks' = AppendChunks(chunks, item.key, item.chunk), ChunkItems' = ChunkItems
  PROVE  Ranges'
<1>1. PICK more : more = StripeChunks(item.key, item.chunk)
  OBVIOUS
<1>2. more \in Seq(Chunk) /\ chunks \in Seq(Chunk) /\ chunks' = chunks \o more
  BY <1>1, StripeChunksType DEF AppendChunks, StripeChunks, WalkInv, TypeOK, Item
<1>3. PICK n \in Nat, m \in Nat : n = Len(chunks) /\ m = Len(more)
  BY <1>2, LenProperties
<1>4. /\ DOMAIN chunks' = 1 .. n + m /\ DOMAIN chunks = 1 .. n /\ DOMAIN more = 1 .. m
      /\ \A k \in 1 .. n : chunks'[k] = chunks[k]
      /\ \A k \in n + 1 .. n + m : chunks'[k] = more[k - n]
  BY <1>2, <1>3, ConcatProperties, LenProperties
<1>5. ASSUME NEW i \in DOMAIN more
      PROVE  i \in DOMAIN item.chunk.stripes /\ StripeOf(more[i], item, i)
  BY <1>1 DEF StripeChunks, StripeOf
<1>6. ASSUME NEW k \in DOMAIN chunks'
      PROVE  \E it \in ChunkItems :
               /\ it.key.item_type = "CHUNK_ITEM"
               /\ \E i \in DOMAIN it.chunk.stripes : StripeOf(chunks'[k], it, i)
  <2>1. CASE k \in 1 .. n
    BY <1>4, <2>1 DEF Ranges
  <2>2. CASE k \notin 1 .. n
    <3>1. k - n \in 1 .. m /\ k \in n + 1 .. n + m
      BY <1>4, <1>6, <2>2
    <3> QED
      BY <1>4, <1>5, <3>1
  <2> QED
    BY <2>1, <2>2
<1>7. \A k, it, i : StripeOf(chunks[k], it, i)' <=> StripeOf(chunks'[k], it, i)
  BY DEF StripeOf
<1> QED
  BY <1>6, <1>7 DEF Ranges

LEMMA EmptyStep == WalkInv /\ RightInv /\ EmptyInv /\ [Next]_vars => EmptyInv'
<1> SUFFICES ASSUME WalkInv, RightInv, EmptyInv, [Next]_vars PROVE EmptyInv'
  OBVIOUS
<1>1. vol' = vol
  BY VolumeStays
<1>2. ChunkItems' = ChunkItems /\ Pointers' = Pointers /\ (\A a : Home(a)' = Home(a))
      /\ (\A p : BlockAt(p)' = BlockAt(p))
  BY <1>1 DEF ChunkItems, Pointers, Sb, Home, BlockAt
<1>3. ChunksLead'
  BY <1>2 DEF EmptyInv, ChunksLead
<1>4. empty' \subseteq Pointers
  <2>1. empty' = empty \/ (call.made /\ empty' = empty \cup {call.lba})
    BY DEF Next, vars, ReadSuperblock, SysChunk, SysEnd, ReadNode, LeafItem, ChildNode, NodeDone,
           ChunkTreeDone, RootTreeDone, Fail
  <2> QED
    BY <2>1 DEF EmptyInv, RightInv, CallsPoint
<1>5. Ranges'
  <2>1. CASE chunks' = chunks
    BY <1>2, <2>1 DEF EmptyInv, Ranges, StripeOf
  <2>2. CASE chunks' = <<>>
    BY <2>2, EmptySeq DEF Ranges
  <2>3. CASE SysChunk /\ SysError = "NO_ERROR"
             /\ chunks' = AppendChunks(chunks, SysItem.key, SysItem.chunk)
    <3>1. Sb.sys_chunk_array \in Seq(Item) /\ at.item \in Nat \ {0}
      BY VolumeTypes DEF Superblock, WalkInv, TypeOK
    <3>2. at.item \in DOMAIN Sb.sys_chunk_array
      <4>1. at.item <= Len(Sb.sys_chunk_array)
        BY <2>3, <3>1, LenProperties DEF SysError
      <4> QED
        BY <3>1, <4>1, LenProperties
    <3>3. SysItem \in Item /\ SysItem \in ChunkItems
      BY <3>1, <3>2, ElementOfSeq, LenProperties DEF SysItem, ChunkItems, Range
    <3>4. SysItem.key.item_type = "CHUNK_ITEM"
      BY <2>3, Zenon DEF SysError
    <3> QED
      BY <1>2, <2>3, <3>3, <3>4, RangesAppended DEF EmptyInv
  <2>4. CASE LeafItem
    <3>1. PICK item : item = Top.node.items[Top.i]
      OBVIOUS
    <3>2. \/ chunks' = chunks \/ chunks' = <<>>
          \/ item.key.item_type = "CHUNK_ITEM" /\ chunks' = AppendChunks(chunks, item.key, item.chunk)
      BY <2>4, <3>1 DEF LeafItem, Fail
    <3>3. item \in Item /\ item \in ChunkItems
      <4>1. stack # <<>> /\ Top.i <= Len(Top.node.items)
        BY <2>4 DEF LeafItem, InNode
      <4>2. Top.node.items \in Seq(Item) /\ Top.i \in Nat \ {0} /\ Len(stack) \in DOMAIN stack
        BY <4>1, FrameFacts DEF WalkInv, Node, Frame
      <4>3. Top.i \in DOMAIN Top.node.items
        BY <4>1, <4>2, LenProperties
      <4>4. PICK p \in DOMAIN vol.disk : Top.node = vol.disk[p]
        BY <4>2 DEF RightInv, FramesRead, Top
      <4>5. item \in Range(vol.disk[p].items)
        BY <3>1, <4>3, <4>4 DEF Range
      <4> QED
        BY <3>1, <4>2, <4>3, <4>4, <4>5, ElementOfSeq, LenProperties DEF ChunkItems
    <3> QED
      BY <1>2, <2>1, <2>2, <3>2, <3>3, RangesAppended DEF EmptyInv
  <2> QED
    BY <2>1, <2>2, <2>3, <2>4
       DEF Next, vars, ReadSuperblock, SysChunk, SysEnd, ReadNode, ChildNode, NodeDone,
           ChunkTreeDone, RootTreeDone, Fail
<1> QED
  BY <1>2, <1>3, <1>4, <1>5 DEF EmptyInv

(* An address that is answered with zeros and is not at the end of a range *)
(* is zeros.                                                               *)
LEMMA EmptyIsEmpty ==
  ASSUME WalkInv, EmptyInv, Fates, stage # "ended", NEW a \in empty
  PROVE  Home(a).zero \/ \E k \in DOMAIN chunks : chunks[k].up_range = a
<1>1. chunks \in Seq(Chunk) /\ a \in Nat /\ a \in Pointers
  BY DEF WalkInv, TypeOK, EmptyInv
<1>2. Lookup(chunks, a) # NotFound /\ BlockAt(Lookup(chunks, a)).zero
  BY DEF Fates, ToZeros
<1>3. PICK k : First(chunks, a, k)
  BY <1>1, <1>2, FirstExists DEF Lookup
<1>4. k \in DOMAIN chunks /\ chunks[k].low_range <= a /\ a <= chunks[k].up_range
  BY <1>3 DEF First, Holds
<1>5. Lookup(chunks, a) = chunks[k].phys_offset + (a - chunks[k].low_range)
  BY <1>1, <1>3, LookupFirst
<1>6. PICK item \in ChunkItems :
        /\ item.key.item_type = "CHUNK_ITEM"
        /\ \E i \in DOMAIN item.chunk.stripes : StripeOf(chunks[k], item, i)
  BY <1>4 DEF EmptyInv, Ranges
<1>7. PICK i \in DOMAIN item.chunk.stripes : StripeOf(chunks[k], item, i)
  BY <1>6
<1>8. CASE chunks[k].up_range = a
  BY <1>4, <1>8
<1>9. CASE chunks[k].up_range # a
  <2>1. chunks[k] \in Chunk
    BY <1>1, <1>4, ElementOfSeq, LenProperties
  <2>2. a < chunks[k].up_range
    BY <1>1, <1>4, <1>9, <2>1 DEF Chunk
  <2>3. /\ item.key.offset <= a /\ a < item.key.offset + item.chunk.length
        /\ Lookup(chunks, a) = item.chunk.stripes[i].offset + (a - item.key.offset)
    BY <1>4, <1>5, <1>7, <2>2 DEF StripeOf
  <2> QED
    BY <1>1, <1>2, <1>6, <1>7, <2>3 DEF EmptyInv, ChunksLead
<1> QED
  BY <1>8, <1>9

LEMMA NothingMissedByLists ==
  WalkInv /\ ListInv /\ EmptyInv => NothingMissed
<1> SUFFICES ASSUME WalkInv, ListInv, EmptyInv, stage = "root", ~call.made, stack = <<>>
             PROVE  /\ InOrder(seen["chunk"], empty, Sb.chunk_tree_root_lba)
                    /\ InOrder(seen["root"], empty, Sb.root_tree_root_lba)
                    /\ \A a \in empty :
                         Home(a).zero \/ \E i \in DOMAIN chunks : chunks[i].up_range = a
  BY DEF NothingMissed
<1>1. InOrder(seen["chunk"], empty, RootOf("chunk")) /\ InOrder(seen["root"], empty, RootOf("root"))
  BY DEF ListInv, Walked, Others
<1>2. RootOf("chunk") = Sb.chunk_tree_root_lba /\ RootOf("root") = Sb.root_tree_root_lba
  BY DEF RootOf
<1> QED
  BY <1>1, <1>2, EmptyIsEmpty DEF ListInv

-----------------------------------------------------------------------------
(* The variables of a mount keep their types, on every volume.             *)
THEOREM TypeTheorem == Spec => []TypeOK
<1>1. WalkInv => TypeOK
  BY DEF WalkInv
<1> QED
  BY <1>1, InitWalk, WalkStep, PTL DEF Spec

(* However the nodes of a volume point at each other, parse_btree recurses *)
(* no deeper than the levels that the superblock check allows.             *)
THEOREM LevelsTheorem == Spec => []LevelsDescend
BY InitWalk, WalkStep, LevelsBound, PTL DEF Spec

(* As long as a mount has not failed every node buffer belongs to one      *)
(* frame, and none is left when both trees were walked.                    *)
THEOREM BuffersTheorem == Spec => []BuffersBalanced
<1>1. WalkInv => BuffersBalanced
  BY DEF WalkInv
<1> QED
  BY <1>1, InitWalk, WalkStep, PTL DEF Spec

(* Walking the chunk tree with the map that it extends never changes where *)
(* an address leads that was resolved before.                              *)
THEOREM TranslationTheorem == Spec => TranslationStable
<1>1. WalkInv /\ [Next]_vars =>
        [stage' # "ended" =>
           \A a \in Logical :
             Lookup(chunks, a) # NotFound => Lookup(chunks', a) = Lookup(chunks, a)]_vars
  <2> SUFFICES ASSUME WalkInv, [Next]_vars, stage' # "ended",
                      NEW a \in Logical, Lookup(chunks, a) # NotFound
               PROVE  Lookup(chunks', a) = Lookup(chunks, a)
    OBVIOUS
  <2> QED
    BY TranslationStep
<1> QED
  BY <1>1, InitWalk, WalkStep, PTL DEF Spec, TranslationStable

(* On a volume whose nodes carry their own addresses, a node that is       *)
(* parsed is the one stored under the address that was asked for, also     *)
(* where the chunk map leads to the block behind the end of a chunk.       *)
THEOREM RightNodeTheorem == Spec /\ NodesSigned => []RightNode
<1>1. RightInv => RightNode
  BY DEF RightInv
<1> QED
  BY <1>1, InitWalk, WalkStep, InitRight, RightStep, PTL DEF Spec

(* On such a volume whose chunk items lead nowhere to zeros that are not   *)
(* its own, a mount that walked both trees parsed each whole and in order; *)
(* what it left out read as zeros, and where the volume has a node there   *)
(* its address is at the upper end of a chunk.                             *)
THEOREM NothingMissedTheorem == Spec /\ NodesSigned /\ ChunksLead => []NothingMissed
<1> DEFINE AllInv == WalkInv /\ RightInv /\ ListInv /\ EmptyInv
<1>1. Init /\ NodesSigned /\ ChunksLead => AllInv
  BY InitWalk, InitRight, InitList, InitEmpty
<1>2. AllInv /\ [Next]_vars => AllInv'
  BY WalkStep, RightStep, ListStep, EmptyStep
<1>3. AllInv => NothingMissed
  BY NothingMissedByLists
<1> QED
  BY <1>1, <1>2, <1>3, PTL DEF Spec

=============================================================================
