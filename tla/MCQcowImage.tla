---------------------------- MODULE MCQcowImage ----------------------------
(***************************************************************************)
(* Instances of QcowImage for TLC: images of clusters of four words and    *)
(* sectors of two, laid out as qemu-img lays them out.  Cluster 0 is the   *)
(* header, 1 the refcount table, 2 the first refcount block, 3 the L1      *)
(* table; the refcount of a host cluster is in the block that covers it.   *)
(***************************************************************************)
EXTENDS QcowImage, TLC

W(n) == [n |-> n, copied |-> FALSE]
Link(n) == [n |-> n, copied |-> TRUE]

Image(size, words) ==
  [eof |-> size,
   disk |-> [x \in 0 .. size - 1 |-> IF x \in DOMAIN words THEN words[x] ELSE Zero]]

Header == (0 :> W(999)) @@ (1 :> W(998)) @@ (4 :> W(8))
FirstBlock == (8 :> W(1)) @@ (9 :> W(1)) @@ (10 :> W(1)) @@ (11 :> W(1))
SecondBlock == (5 :> W(16)) @@ (16 :> W(1)) @@ (17 :> W(1)) @@ (18 :> W(1))
Data == (24 :> W(991)) @@ (25 :> W(992)) @@ (26 :> W(993)) @@ (27 :> W(994))

(* No guest cluster yet.                                                   *)
FreshImage == Image(16, Header @@ FirstBlock)
(* The same, the file ending with the last L1 entry.                       *)
ShortImage == Image(14, Header @@ FirstBlock)
(* Guest cluster 0 at host cluster 6, its L2 table at host cluster 5.      *)
UsedImage == Image(28, Header @@ FirstBlock @@ SecondBlock @@ Data
                       @@ (12 :> W(20)) @@ (20 :> Link(24)))
(* Guest cluster 7 is the only one, and 7 is beyond the host clusters.     *)
SparseImage == Image(28, Header @@ FirstBlock @@ SecondBlock @@ Data
                         @@ (13 :> W(20)) @@ (23 :> Link(24)))
(* Guest cluster 6 at host cluster 6, shared with a snapshot.              *)
SharedImage == Image(28, Header @@ FirstBlock @@ (18 :> W(2)) @@ SecondBlock @@ Data
                         @@ (13 :> W(20)) @@ (22 :> Link(24)))

(* Guest cluster 1 reads as zeros by the flag of its entry.                *)
DiscardedImage == Image(28, Header @@ FirstBlock @@ SecondBlock @@ Data
                         @@ (12 :> W(20)) @@ (20 :> Link(24)) @@ (21 :> W(1)))
(* The same of guest cluster 7, which no refcount covers.                  *)
ZeroFlagImage == Image(24, Header @@ FirstBlock @@ SecondBlock
                           @@ (13 :> W(20)) @@ (23 :> W(1)))
(* Guest cluster 0 at the end of the file, which holds its first word only *)
(* and is so no multiple of a sector.                                      *)
RaggedImage == Image(25, Header @@ FirstBlock @@ Data @@ (12 :> W(20)) @@ (20 :> Link(24)))

Plain == {FreshImage, UsedImage}
Dense == {FreshImage, ShortImage, RaggedImage, UsedImage, SharedImage, DiscardedImage}
All == Dense \cup {SparseImage}
OnlyZeroFlag == {ZeroFlagImage}
OnlyShared == {SharedImage}
OnlySparse == {SparseImage}

NoFaults == {}

Write(off, len) == [off |-> off, len |-> len]
(* In cluster 0, across 0 and 1, across 4 and 5, which have another L2     *)
(* table, in 6, in 7, beyond the disk, beyond the refcount table.          *)
Writes == {Write(1, 2), Write(3, 2), Write(19, 2), Write(25, 1), Write(28, 4),
           Write(31, 2), Write(64, 1)}
FewWrites == {Write(5, 2), Write(19, 2), Write(25, 1), Write(28, 4)}
PartWrites == FewWrites \ {Write(28, 4)}

=============================================================================
