------------------------------ MODULE MCHuffman ------------------------------
(***************************************************************************)
(* Instances of Huffman for TLC.  Literal alphabets of seven symbols with  *)
(* two to seven in use; runs are shorter than in the code, so that every   *)
(* kind of item occurs, and two items in a row for one run.                *)
(***************************************************************************)
EXTENDS Huffman

Literals == {f \in [1 .. 7 -> {0, 1, 3}] : Cardinality({i \in 1 .. 7 : f[i] > 0}) > 1}
FewLiterals == {<<2, 1, 1>>}

(* A match is never as near as it is long, so the first three codes of a   *)
(* distance are not in use.  A block without matches has no distance.      *)
Distances == {<<0, 0>>, <<0, 0, 0, 1, 1>>, <<0, 0, 0, 1, 0, 0, 2, 1, 1, 1>>, <<0, 0, 0, 0, 0, 0, 1, 1, 1, 1>>}
NoDistances == {<<0, 0>>}

=============================================================================
