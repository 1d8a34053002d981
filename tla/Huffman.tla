------------------------------- MODULE Huffman -------------------------------
(***************************************************************************)
(* The tables of a dynamic block of zlib_deflate and zlib_inflate          *)
(* (xcomp.h), from one side to the other: generate_hf_tree builds the      *)
(* literal tree and then the distance tree, rle_encoding packs the code    *)
(* lengths of both, decode_lengths unpacks them, generate_codes builds the *)
(* codes again, and the codes that hf_encode_block writes are decoded.     *)
(*                                                                         *)
(* Symbols and indices count from 0, as in the code.  The packed lengths   *)
(* travel as values: their own code is a third tree of the same kind.      *)
(***************************************************************************)
EXTENDS Integers, Sequences, SequencesExt, FiniteSetsExt, Functions

CONSTANTS
  LiteralFrequencies,   \* how often the symbols of a block may occur:
  DistanceFrequencies,  \* sequences that give symbol s at position s + 1
  MaxRun,               \* the longest run of a length that 16 stands for
  ShortZeros, MaxZeros  \* the longest runs of zeros for 17 and for 18

ASSUME HuffmanAssumption ==
  /\ MaxRun \in 3 .. 6 /\ ShortZeros \in 3 .. 10 /\ MaxZeros \in ShortZeros + 1 .. 138
  /\ \A f \in LiteralFrequencies \cup DistanceFrequencies : f \in Seq(Nat)
  /\ \A f \in LiteralFrequencies : Cardinality({i \in DOMAIN f : f[i] > 0}) > 1

VARIABLES
  stage,          \* "merge", "rle", "lengths", "symbols" or "astray"
  frequencies,    \* of the two alphabets
  tree,           \* the tree that is built, "literals" or "distances"
  hf_nodes,       \* its nodes without a parent, by frequency and then by symbol
  parent,         \* of every node; 0 for none
  hf_trees,       \* the code lengths of the trees that are built
  previous_code,  \* the last length that rle_encoding put down
  coded,          \* the number of lengths it went through
  rle_encoded,    \* what it wrote: [value, repeat]
  item, lengths,  \* the items that decode_lengths read, and the lengths of both trees
  sent, got       \* the symbol encoded last, and what it was decoded to

writer == <<frequencies, tree, hf_nodes, parent, hf_trees, previous_code, coded, rle_encoded>>
reader == <<item, lengths, sent, got>>
vars == <<stage, frequencies, tree, hf_nodes, parent, hf_trees, previous_code, coded,
          rle_encoded, item, lengths, sent, got>>

Trees == {"literals", "distances"}
NoSymbol == -1

-----------------------------------------------------------------------------
(* hf_tree -> size: up to the last symbol that occurs.                     *)
TreeSize(f) == Max({0} \cup {i \in DOMAIN f : f[i] > 0})

Before(a, b) == a.freq < b.freq \/ (a.freq = b.freq /\ a.symbol < b.symbol)

(* update_hf_nodes.                                                        *)
UpdateNodes(nodes, new) ==
  InsertAt(nodes, Min({Len(nodes) + 1} \cup {i \in DOMAIN nodes : Before(new, nodes[i])}), new)

Leaves(f) ==
  FoldLeft(LAMBDA nodes, i : IF f[i] > 0 THEN UpdateNodes(nodes, [symbol |-> i - 1, freq |-> f[i]])
                             ELSE nodes,
           <<>>, [i \in 1 .. Len(f) |-> i])

Orphans(f) == [n \in 0 .. TreeSize(f) - 1 |-> 0]

(* The lengths: the number of parents above each symbol.                   *)
Depths(up, size) ==
  LET depth[n \in DOMAIN up] == IF up[n] = 0 THEN 0 ELSE 1 + depth[up[n]]
  IN  [i \in 1 .. size |-> depth[i - 1]]

(* One turn of the loop that joins the two rarest nodes.                   *)
Merge ==
  /\ stage = "merge" /\ Len(hf_nodes) > 1
  /\ LET left == hf_nodes[1]
         right == hf_nodes[2]
         new == [symbol |-> Cardinality(DOMAIN parent), freq |-> left.freq + right.freq]
     IN  /\ hf_nodes' = UpdateNodes(SubSeq(hf_nodes, 3, Len(hf_nodes)), new)
         /\ parent' = [n \in DOMAIN parent \cup {new.symbol} |->
                         IF n \in {left.symbol, right.symbol} THEN new.symbol
                         ELSE IF n = new.symbol THEN 0 ELSE parent[n]]
  /\ UNCHANGED <<stage, frequencies, tree, hf_trees, previous_code, coded, rle_encoded, reader>>

(* The tree has its root; the distance tree is next, or rle_encoding,      *)
(* which puts the first length down.                                       *)
TreeBuilt ==
  /\ stage = "merge" /\ Len(hf_nodes) <= 1
  /\ LET depths == Depths(parent, TreeSize(frequencies[tree]))
         first == hf_trees.literals[1]
     IN  /\ hf_trees' = [hf_trees EXCEPT ![tree] = depths]
         /\ IF tree = "literals"
            THEN /\ tree' = "distances"
                 /\ hf_nodes' = Leaves(frequencies.distances)
                 /\ parent' = Orphans(frequencies.distances)
                 /\ UNCHANGED <<stage, previous_code, coded, rle_encoded>>
            ELSE /\ stage' = "rle" /\ coded' = 1 /\ previous_code' = first
                 /\ rle_encoded' = <<[value |-> first, repeat |-> 0]>>
                 /\ UNCHANGED <<tree, hf_nodes, parent>>
  /\ UNCHANGED <<frequencies, reader>>

-----------------------------------------------------------------------------
(* The equal lengths of s from position i on, the first one included.      *)
RunFrom(s, i) ==
  Max({n \in 1 .. Len(s) - i + 1 : \A j \in i .. i + n - 1 : s[j] = s[i]})

(* Variant: after a run of zeros the length before it is still previous.   *)
PreviousAfterKept(length, run) == IF length = 0 /\ run >= 3 THEN previous_code ELSE length

(* previous_code after a run: of 3 or more zeros, of a repeated length, or *)
(* of one or two lengths that are put down as they are.                    *)
PreviousAfter(length, run) == IF length = 0 /\ run >= 3 THEN 0 ELSE length

Items(length, run) ==
  IF run < 3 THEN [k \in 1 .. run |-> [value |-> length, repeat |-> 0]]
  ELSE IF length # 0 THEN <<[value |-> 16, repeat |-> run]>>
  ELSE <<[value |-> IF run > ShortZeros THEN 18 ELSE 17, repeat |-> run]>>

(* The lengths from i on that one turn of its two loops takes: as many     *)
(* zeros as there are, or as many copies of the previous length.           *)
Taken(s, i) ==
  IF s[i] = 0 THEN Min({MaxZeros, RunFrom(s, i)})
  ELSE IF s[i] = previous_code THEN Min({MaxRun, RunFrom(s, i)}) ELSE 1

(* A turn of the loop over the literals or over the distances: no run goes *)
(* from one to the other, but previous_code does.                          *)
Pack ==
  /\ stage = "rle"
  /\ \E t \in Trees :
       LET before == IF t = "literals" THEN 0 ELSE Len(hf_trees.literals)
           s == hf_trees[t]
           i == coded - before + 1
       IN  /\ i \in DOMAIN s
           /\ LET run == Taken(s, i)
              IN  /\ rle_encoded' = rle_encoded \o Items(s[i], run)
                  /\ previous_code' = PreviousAfter(s[i], run)
                  /\ coded' = coded + run
  /\ UNCHANGED <<stage, frequencies, tree, hf_nodes, parent, hf_trees, reader>>

Packed ==
  /\ stage = "rle" /\ coded = Len(hf_trees.literals) + Len(hf_trees.distances)
  /\ stage' = "lengths"
  /\ UNCHANGED <<writer, reader>>

-----------------------------------------------------------------------------
(* The sizes that the header of the block announces.                       *)
Announced == [literals |-> Len(hf_trees.literals),
              distances |-> Max({1, Len(hf_trees.distances)})]

Index == Len(lengths.literals) + Len(lengths.distances)

(* n lengths at index: first those of the literals, then the distances.    *)
Filled(n, length) ==
  LET more == Min({n, Announced.literals - Len(lengths.literals)})
      copies(k) == [j \in 1 .. k |-> length]
  IN  [literals |-> lengths.literals \o copies(more),
       distances |-> lengths.distances \o copies(n - more)]

(* What 16 copies: the length before index in the same tree.               *)
HasLastLength ==
  lengths[IF Len(lengths.literals) < Announced.literals THEN "literals" ELSE "distances"] # <<>>
LastLength ==
  Last(lengths[IF Len(lengths.literals) < Announced.literals THEN "literals" ELSE "distances"])

(* A turn of decode_lengths.                                               *)
Unpack ==
  /\ stage = "lengths" /\ Index < Announced.literals + Announced.distances
  /\ item < Len(rle_encoded)
  /\ LET e == rle_encoded[item + 1]
     IN  IF e.value = 16 /\ ~HasLastLength
         THEN stage' = "astray" /\ UNCHANGED lengths
         ELSE /\ lengths' = CASE e.value < 16 -> Filled(1, e.value)
                              [] e.value = 16 -> Filled(e.repeat, LastLength)
                              [] OTHER -> Filled(e.repeat, 0)
              /\ UNCHANGED stage
  /\ item' = item + 1
  /\ UNCHANGED <<writer, sent, got>>

(* Lengths are missing: the bits of the data are taken for them.           *)
Overrun ==
  /\ stage = "lengths" /\ Index < Announced.literals + Announced.distances
  /\ item = Len(rle_encoded)
  /\ stage' = "astray"
  /\ UNCHANGED <<writer, reader>>

Unpacked ==
  /\ stage = "lengths" /\ Index >= Announced.literals + Announced.distances
  /\ stage' = "symbols"
  /\ UNCHANGED <<writer, reader>>

-----------------------------------------------------------------------------
(* bl_cnts of build_hf_table and bl_count of generate_codes, the second in *)
(* 8 bits.                                                                 *)
CountOf(ls, n) == IF n = 0 THEN 0 ELSE Cardinality({i \in DOMAIN ls : ls[i] = n})

(* Variant: the symbols that do not occur are counted.                     *)
ByteCountWithZeros(ls, n) == Cardinality({i \in DOMAIN ls : ls[i] = n}) % 256

ByteCountOf(ls, n) == CountOf(ls, n) % 256

(* The least code of length n.                                             *)
MinCode(count(_), n) ==
  FoldLeft(LAMBDA code, l : 2 * (code + count(l - 1)), 0, [l \in 1 .. n |-> l])

(* hf_tree -> table, and the bits of a code in the order they are written. *)
CodeOf(ls, s) ==
  LET n == ls[s + 1]
      count(l) == CountOf(ls, l)
  IN  MinCode(count, n) + Cardinality({i \in 1 .. s : ls[i] = n})
BitsOf(ls, s) ==
  LET n == ls[s + 1]
  IN  [b \in 1 .. n |-> (CodeOf(ls, s) \div 2^(n - b)) % 2]

(* values of generate_codes: the symbols of length n, in order.            *)
ValuesOf(ls, n) == SelectSeq([i \in 1 .. Len(ls) |-> i - 1], LAMBDA s : ls[s + 1] = n)

(* decode_hf on bits: the first length whose greatest code lies above.     *)
DecodeHf(ls, bits) ==
  LET count(l) == ByteCountOf(ls, l)
      code(n) == FoldLeft(LAMBDA c, b : 2 * c + b, 0, SubSeq(bits, 1, n))
      found == {n \in DOMAIN bits : code(n) < MinCode(count, n) + CountOf(ls, n)}
  IN  IF found = {} THEN NoSymbol
      ELSE LET n == Min(found)
               at == code(n) - MinCode(count, n) + 1
           IN  IF at \in DOMAIN ValuesOf(ls, n) THEN ValuesOf(ls, n)[at] ELSE NoSymbol

(* A symbol of the block: written by hf_encode_block with the writer's     *)
(* table, read by decode_compressed_block with the reader's.               *)
Symbol ==
  /\ stage = "symbols" /\ sent = NoSymbol
  /\ \E t \in Trees :
       \E i \in {j \in DOMAIN frequencies[t] : frequencies[t][j] > 0} :
         /\ sent' = i - 1
         /\ got' = DecodeHf(lengths[t], BitsOf(hf_trees[t], i - 1))
  /\ UNCHANGED <<stage, writer, item, lengths>>

-----------------------------------------------------------------------------
Init ==
  /\ stage = "merge" /\ tree = "literals"
  /\ frequencies \in [literals : LiteralFrequencies, distances : DistanceFrequencies]
  /\ hf_nodes = Leaves(frequencies.literals) /\ parent = Orphans(frequencies.literals)
  /\ hf_trees = [literals |-> <<>>, distances |-> <<>>]
  /\ previous_code = 0 /\ coded = 0 /\ rle_encoded = <<>>
  /\ item = 0 /\ lengths = [literals |-> <<>>, distances |-> <<>>]
  /\ sent = NoSymbol /\ got = NoSymbol

Next == Merge \/ TreeBuilt \/ Pack \/ Packed \/ Unpack \/ Overrun \/ Unpacked \/ Symbol

Spec == Init /\ [][Next]_vars

-----------------------------------------------------------------------------
(* The tables that zlib_inflate builds have the code lengths of the tables *)
(* that the data were encoded with, whatever runs the two trees have.      *)
LengthsSurvive == stage = "symbols" => lengths = hf_trees

(* A symbol of the block decodes to itself: no code is the beginning of    *)
(* another one, and both sides number the codes in the same way.           *)
CodesDecode == got = sent

(* The header of the block announces the lengths that follow it: HLIT +    *)
(* 257 of the literals and HDIST + 1 of the distances.  It does not for a  *)
(* block without matches.                                                  *)
AnnouncedLengthsFollow == stage # "astray"

=============================================================================
