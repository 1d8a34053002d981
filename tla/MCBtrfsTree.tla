----------------------------- MODULE MCBtrfsTree -----------------------------
(* Volumes for TLC.  A system chunk at 8..15 holds the chunk tree; the     *)
(* chunk tree maps 16..19, twice, and 20..23; the root tree is in both.    *)
EXTENDS BtrfsTree, TLC

MCLogical == 0 .. 26

MCStripe(offset) == [dev_id |-> 1, offset |-> offset]
ChunkOf(length, offsets) ==
  [length |-> length, stripe_len |-> 4, sector_size |-> 2,
   stripes |-> [i \in DOMAIN offsets |-> MCStripe(offsets[i])]]
KeyOf(type, offset) == [obj_id |-> 256, item_type |-> type, offset |-> offset]
NoChunk == ChunkOf(4, <<0>>)
ChunkAt(offset, length, offsets) ==
  [key |-> KeyOf("CHUNK_ITEM", offset), chunk |-> ChunkOf(length, offsets)]
Other(type) == [key |-> KeyOf(type, 0), chunk |-> NoChunk]

Leaf(lba, items) ==
  [zero |-> FALSE, sum |-> TRUE, fs_uuid |-> 1, node_lba |-> lba, level |-> 0,
   items |-> items, children |-> <<>>]
Inner(lba, level, children) ==
  [Leaf(lba, <<>>) EXCEPT !.level = level, !.children = children]

MCSys == <<ChunkAt(8, 8, <<4>>)>>
MCSuper ==
  [fault |-> "none", fs_uuid |-> 1, sector_size |-> 2, node_size |-> 2, stripe_size |-> 4,
   root_tree_root_lba |-> 18, chunk_tree_root_lba |-> 8, log_tree_root_lba |-> 0,
   root_tree_level |-> 1, chunk_root_level |-> 1, log_root_level |-> 0,
   sys_chunk_array |-> MCSys, sys_chunk_array_size |-> 6]

MCHome == 8 :> 4 @@ 10 :> 6 @@ 12 :> 8 @@ 16 :> 20 @@ 18 :> 22 @@ 20 :> 40 @@ 22 :> 42

(* Logical 8, 10, 12: the chunk tree; 18, 16, 22: the root tree.           *)
MCDisk ==
  4 :> Inner(8, 1, <<10, 12>>)
  @@ 6 :> Leaf(10, <<Other("DEV_ITEM"), ChunkAt(16, 4, <<20, 28>>)>>)
  @@ 8 :> Leaf(12, <<ChunkAt(20, 4, <<40>>)>>)
  @@ 20 :> Leaf(16, <<Other("ROOT_ITEM"), Other("DIR_ITEM")>>)
  @@ 28 :> Leaf(16, <<Other("ROOT_ITEM"), Other("DIR_ITEM")>>)
  @@ 22 :> Inner(18, 1, <<16, 22>>)
  @@ 30 :> Inner(18, 1, <<16, 22>>)
  @@ 42 :> Leaf(22, <<Other("ROOT_REF")>>)

(* A node of the chunk that is there twice.                                *)
Twice(lba, node) == MCHome[lba] :> node @@ MCHome[lba] + 8 :> node

Volume(super, disk) == [super |-> super, disk |-> disk, home |-> MCHome]
WithSuper(super) == Volume(super, MCDisk)
WithDisk(disk) == Volume(MCSuper, disk @@ MCDisk)
WithSys(items, size) ==
  WithSuper([MCSuper EXCEPT !.sys_chunk_array = items, !.sys_chunk_array_size = size])
WithItem(item) == WithDisk(8 :> Leaf(12, <<item>>))

Supers ==
  {[MCSuper EXCEPT !.fault = f] : f \in Fault}
  \cup {[MCSuper EXCEPT !.sector_size = n] : n \in {0, 1, 4}}
  \cup {[MCSuper EXCEPT !.node_size = 3], [MCSuper EXCEPT !.root_tree_level = 3],
        [MCSuper EXCEPT !.chunk_tree_root_lba = 9], [MCSuper EXCEPT !.chunk_tree_root_lba = 2],
        [MCSuper EXCEPT !.fs_uuid = 2], [MCSuper EXCEPT !.chunk_root_level = 2]}

SysArrays ==
  {WithSys(<<>>, 0), WithSys(MCSys, 0), WithSys(MCSys, 7), WithSys(MCSys, 5), WithSys(MCSys, 31),
   WithSys(MCSys \o <<ChunkAt(16, 4, <<20, 28>>)>>, 13), WithSys(<<ChunkAt(9, 8, <<4>>)>>, 6),
   WithSys(<<ChunkAt(8, 6, <<4>>)>>, 6), WithSys(<<ChunkAt(8, 8, <<>>)>>, 5),
   WithSys(<<[MCSys[1] EXCEPT !.key.obj_id = 1]>>, 6), WithSys(<<Other("DEV_ITEM")>>, 6),
   WithSys(<<[MCSys[1] EXCEPT !.chunk.stripe_len = 0]>>, 6)}

(* Node 20 begins a chunk, and 20 is also the upper end of the chunk       *)
(* before: what follows that chunk on the disk, at 24, is nothing, another *)
(* node, or a copy.                                                        *)
EdgeDisk == Twice(18, Inner(18, 1, <<16, 20>>)) @@ 40 :> Leaf(20, <<Other("ROOT_REF")>>)
Edges ==
  {WithDisk(EdgeDisk), WithDisk(24 :> Leaf(22, <<Other("ROOT_REF")>>) @@ EdgeDisk),
   WithDisk(24 :> Leaf(20, <<Other("ROOT_REF")>>) @@ EdgeDisk)}

(* A pointer back to the root and to an unmapped address, an item type     *)
(* that is not known, a node of zeros, a node that does not add up, chunk  *)
(* items that are refused, one that overlaps another, a deeper tree.       *)
Trees ==
  {WithDisk(4 :> Inner(8, 1, <<10, 8>>)), WithDisk(4 :> Inner(8, 1, <<10, 2>>)),
   WithDisk(4 :> Inner(8, 1, <<>>)), WithDisk(4 :> ZeroNode),
   WithDisk(6 :> [MCDisk[6] EXCEPT !.sum = FALSE]), WithDisk(6 :> [MCDisk[6] EXCEPT !.fs_uuid = 3]),
   WithDisk(42 :> ZeroNode), WithDisk(20 :> Leaf(16, <<Other("UNKNOWN")>>)),
   WithItem(ChunkAt(20, 4, <<40, 41>>)), WithItem(ChunkAt(20, 3, <<40>>)),
   WithItem(ChunkAt(10, 4, <<40>>)), WithItem([ChunkAt(20, 4, <<40>>) EXCEPT !.chunk.sector_size = 4]),
   Volume([MCSuper EXCEPT !.root_tree_level = 2],
          Twice(16, Inner(16, 2, <<18>>)) @@ Twice(18, Inner(18, 1, <<22>>)) @@ MCDisk),
   Volume([MCSuper EXCEPT !.root_tree_level = 2, !.root_tree_root_lba = 16],
          Twice(16, Inner(16, 2, <<18, 22>>)) @@ Twice(18, Inner(18, 1, <<22, 14>>))
          @@ 42 :> Inner(22, 1, <<>>) @@ MCDisk)}

MCVolumes == {WithSuper(s) : s \in Supers} \cup SysArrays \cup Edges \cup Trees

=============================================================================
