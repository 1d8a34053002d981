------------------------------- MODULE MCZstd -------------------------------
(***************************************************************************)
(* An instance of Zstd for TLC: for every field two tables and a repeated  *)
(* symbol that decode to different values.                                 *)
(***************************************************************************)
EXTENDS Zstd

PredefinedValues == [ll |-> {0, 1}, ol |-> {1, 4}, ml |-> {3}]
DescribedValues == [ll |-> {0}, ol |-> {2, 3, 5}, ml |-> {3}]
RleValues == [ll |-> {2}, ol |-> {1}, ml |-> {4}]

=============================================================================
