--------------------------- MODULE MCQcowCompressed ---------------------------
(* Images for TLC.  Compressed clusters begin at any unit.                 *)
EXTENDS QcowCompressed, TLC

MCSize == "a" :> 1 @@ "b" :> 3 @@ "c" :> 4 @@ "e" :> 6
LargeSize == "a" :> 1 @@ "b" :> 3 @@ "d" :> 5
MCGuests == {1, 2}

Entry(pos, sectors) == [pos |-> pos, additional_sectors |-> sectors, compressed |-> TRUE]

(* A file of n units with each value at its position.                      *)
Image(n, first, second, v1, v2, refs) ==
  LET put(f, e, v) == Overwritten(f, e.pos, Deflated(v))
  IN  [file |-> put(put(Zeros(n), first, v1), second, v2),
       entry |-> <<first, second>>, ref |-> refs]

Once == <<1, 1>>

(* Behind each cluster there is room for the largest region that writing   *)
(* gives it; in either order, next to each other or not.                   *)
Spaced ==
  {Image(20, Entry(1, 0), Entry(10, 1), "a", "b", Once),
   Image(20, Entry(1, 1), Entry(9, 0), "b", "a", Once),
   Image(18, Entry(10, 0), Entry(2, 0), "b", "b", Once)}

(* The second cluster is nothing that inflate reads.                       *)
Damaged ==
  {[img EXCEPT !.file = Overwritten(@, img.entry[2].pos, <<Zero>>)] : img \in Spaced}

(* The file ends with the last unit of the second cluster.                 *)
Ends == {Image(12, Entry(1, 0), Entry(9, 0), "a", "b", Once)}

(* The host cluster is shared; the file ends inside a sector, or before    *)
(* what is to be copied.                                                   *)
Shared == {Image(19, Entry(1, 0), Entry(9, 1), "b", "b", <<2, 1>>)}
Beyond == {[img EXCEPT !.entry[1].pos = 30] : img \in Shared}

(* One after the other, as the writers of compressed images lay them out.  *)
Packed == {Image(12, Entry(0, 0), Entry(3, 0), "b", "b", Once)}

(* Nothing is counted for a cluster: at the beginning of a cluster or not, *)
(* with and without a bit of the sectors in the offset.                    *)
Uncounted ==
  {Image(20, Entry(1, 0), Entry(8, 0), "a", "b", <<0, 0>>),
   Image(12, Entry(0, 1), Entry(7, 0), "a", "b", <<0, 1>>)}

(* A plain cluster, aligned or not, shared or not.                         *)
PlainFirst(pos, refs) ==
  [Image(12, Entry(pos, 0), Entry(5, 0), "a", "b", refs) EXCEPT !.entry[1].compressed = FALSE]
WithPlain == {PlainFirst(8, Once), PlainFirst(0, <<2, 2>>), PlainFirst(1, Once)}

MCImages == Spaced \cup Damaged \cup Ends \cup Shared \cup Beyond \cup Packed \cup Uncounted \cup WithPlain

=============================================================================
