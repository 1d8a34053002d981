---------------------------- MODULE MCZstdTables ----------------------------
(***************************************************************************)
(* Instances of ZstdTables for TLC: FSE tables of 32 states, the smallest  *)
(* that a stream may ask for, and Huffman tables of up to 16 states.       *)
(***************************************************************************)
EXTENDS ZstdTables

(* Two to four symbols with codes of one to four bits, in and out of the   *)
(* order of their lengths, with and without symbols that do not occur; the *)
(* last two leave a rest that is no power of two.                          *)
Weights == {<<1>>, <<2>>, <<0, 2>>, <<1, 1>>, <<1, 2>>, <<2, 0, 1>>, <<1, 2, 1>>, <<3, 1, 1>>,
            <<2, 1, 3>>, <<3, 1>>, <<1, 1, 3>>}
OneMore == {1}

=============================================================================
