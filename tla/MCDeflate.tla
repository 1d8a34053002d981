------------------------------ MODULE MCDeflate ------------------------------
(***************************************************************************)
(* Instance of Deflate for TLC: two-letter data of up to two blocks, long  *)
(* enough for two matches with different distance codes in one block.      *)
(***************************************************************************)
EXTENDS Deflate

Words(n) == [1 .. n -> {"a", "b"}]
Buffers == Words(3) \cup {<<"a", "a", "b">> \o w : w \in Words(11)}

=============================================================================
