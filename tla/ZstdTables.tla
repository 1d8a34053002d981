----------------------------- MODULE ZstdTables -----------------------------
(***************************************************************************)
(* The entropy tables of zstd_inflate (xcomp.h) and the literals decoded   *)
(* with them.  The bits of a stream are drawn when they are read.          *)
(*                                                                         *)
(* A behaviour reads one FSE table: read_probabilities value by value,     *)
(* then fse_build_table; or one Huffman table: build_huff_table from the   *)
(* weights that read_weights found, then huff_decode_stream on the one or  *)
(* four streams of a literals section, which an encoder that follows the   *)
(* code order of the format wrote.                                         *)
(***************************************************************************)
EXTENDS Integers, Sequences, SequencesExt, FiniteSetsExt, Functions

CONSTANTS
  TableLog,       \* of the FSE table, at least 5 as read from a stream
  MaxSymbol,      \* the largest symbol an FSE table may have
  WeightVectors,  \* the weights a stream may give
  MaxLiterals,    \* bound on the literals that are encoded
  Claims          \* by how much a header with four streams may claim too many

ASSUME TablesAssumption ==
  /\ TableLog \in 5 .. 15 /\ MaxSymbol \in 0 .. 255 /\ MaxLiterals \in Nat
  /\ Claims \subseteq Nat
  /\ \A w \in WeightVectors : w \in Seq(0 .. 15) /\ \E i \in DOMAIN w : w[i] > 0

VARIABLES
  stage,        \* "probabilities", "spread", "weights", "open", "decode", or the outcome
  dry,          \* the stream ended: bitstream_read_bits returns 0 from now on
  remaining, zero_repeat,
  frequencies,  \* the probabilities_cnt values read
  fse_table,
  weights, hf_literals, max_nb_bits,
  streams,      \* the literals of each stream of the section
  regenerated,  \* the number of literals that its header claims
  at,           \* the stream that is decoded
  pos,          \* the bits of it that were read, virtual ones included
  hf_state, literals

fse == <<dry, remaining, zero_repeat, frequencies, fse_table>>
huff == <<weights, hf_literals, max_nb_bits, streams, regenerated, at, pos, hf_state, literals>>
vars == <<stage, dry, remaining, zero_repeat, frequencies, fse_table, weights, hf_literals,
          max_nb_bits, streams, regenerated, at, pos, hf_state, literals>>

-----------------------------------------------------------------------------
(* highest_bit, of a positive number.                                      *)
HighestBit(v) == CHOOSE n \in 1 .. 32 : 2^(n - 1) <= v /\ v < 2^n

Size == 2^TableLog
Magnitude(f) == IF f = -1 THEN 1 ELSE f
Spent(f) == FoldLeft(LAMBDA sum, x : sum + Magnitude(x), 0, f)

(* Variant: a value of full length is not reduced.                         *)
ValueUnreduced(left, bits) ==
  LET n == HighestBit(left)
      low == (2^n - 1) - left
      small == bits % 2^(n - 1)
  IN  IF small < low THEN small ELSE bits

(* The value that nb_bits bits stand for while left is remaining: small    *)
(* ones take one bit less, and the last bit is unread.                     *)
Value(left, bits) ==
  LET n == HighestBit(left)
      top == 2^(n - 1) - 1
      low == (2^n - 1) - left
      small == bits % 2^(n - 1)
  IN  IF small < low THEN small ELSE IF bits > top THEN bits - low ELSE bits

Zeros(n) == [i \in 1 .. n |-> 0]

(* The tests after the loop of read_probabilities.                         *)
AfterProbabilities(f) ==
  IF Len(f) > MaxSymbol + 1 THEN "MAX_SYMBOL_VALUE_TOO_SMALL"
  ELSE IF Spent(f) # Size THEN "CORRUPTED_DATA" ELSE "spread"

(* One turn of its loop that ends with a value, after n more zeros.        *)
(* Nothing tests n against the length of frequencies.                      *)
PutValue(n, bits) ==
  LET value == (IF dry' THEN 0 ELSE Value(remaining, bits)) - 1
      f == frequencies \o Zeros(n) \o <<value>>
  IN  IF value < -1 \/ remaining <= 1
      THEN stage' = "wild free" /\ UNCHANGED <<remaining, frequencies, zero_repeat>>
      ELSE /\ frequencies' = f
           /\ remaining' = remaining - Magnitude(value)
           /\ zero_repeat' = (value = 0)
           /\ stage' = IF Len(f) > MaxSymbol + 1 \/ Spent(f) >= Size
                       THEN AfterProbabilities(f) ELSE "probabilities"

ReadProbability ==
  /\ stage = "probabilities"
  /\ \E end \in {dry, TRUE}, bits \in 0 .. 2^HighestBit(remaining) - 1,
        repeat \in IF zero_repeat /\ ~dry THEN 0 .. 2 ELSE {0} :
       dry' = end /\ PutValue(repeat, bits)
  /\ UNCHANGED <<fse_table, huff>>

(* A repeat of 3 is followed by another; the run is bounded here only.     *)
RepeatZeros ==
  /\ stage = "probabilities" /\ zero_repeat /\ ~dry
  /\ Len(frequencies) <= MaxSymbol
  /\ frequencies' = frequencies \o Zeros(3)
  /\ UNCHANGED <<stage, dry, remaining, zero_repeat, fse_table, huff>>

-----------------------------------------------------------------------------
(* fse_build_table.  Symbols of probability -1 take one state each from    *)
(* the bottom of the table up; the others are spread over the rest.        *)
Negatives(f) == Cardinality({i \in DOMAIN f : f[i] = -1})
NegativeSymbol(f, s) ==
  CHOOSE i \in DOMAIN f :
    f[i] = -1 /\ Cardinality({j \in 1 .. i : f[j] = -1}) = Size - s

Step == Size \div 2 + Size \div 8 + 3

(* tab_pos after a symbol was put there.                                   *)
Advance(p, low) ==
  LET after(k) == (p + k * Step) % Size
  IN  after(Min({k \in 1 .. Size : after(k) < low}))

Spread(f) == FlattenSeq([i \in DOMAIN f |-> IF f[i] > 0 THEN [j \in 1 .. f[i] |-> i] ELSE <<>>])

(* Variant: the states of single width begin after those of double width.  *)
BaselineUnshifted(count, n) ==
  LET slices == IF 2^(HighestBit(count) - 1) = count THEN count ELSE 2^HighestBit(count)
      double == slices - count
      width == Size \div slices
      single == count - double
  IN  IF n < double
      THEN [baseline |-> single * width + n * width * 2, nb_bits |-> HighestBit(width)]
      ELSE [baseline |-> n * width, nb_bits |-> HighestBit(width) - 1]

(* calc_baseline_and_numbits of the n-th state of a symbol with count      *)
(* states.  (count is at least 1 and at most Size, so width is not 0.)     *)
Baseline(count, n) ==
  LET slices == IF 2^(HighestBit(count) - 1) = count THEN count ELSE 2^HighestBit(count)
      double == slices - count
      width == Size \div slices
      single == count - double
  IN  IF n < double
      THEN [baseline |-> single * width + n * width * 2, nb_bits |-> HighestBit(width)]
      ELSE [baseline |-> (n - double) * width, nb_bits |-> HighestBit(width) - 1]

(* The symbol of every state, and the tab_pos that the last one leaves.    *)
Filled(f, low) ==
  FoldLeft(LAMBDA acc, i : [tab_pos |-> Advance(acc.tab_pos, low),
                            symbol  |-> [acc.symbol EXCEPT ![acc.tab_pos] = i]],
           [tab_pos |-> 0,
            symbol |-> [s \in 0 .. Size - 1 |-> IF s >= low THEN NegativeSymbol(f, s) ELSE 0]],
           Spread(f))

Entry(f, low, symbol, s) ==
  LET n == Cardinality({t \in 0 .. s - 1 : symbol[t] = symbol[s]})
      b == IF s >= low THEN [baseline |-> 0, nb_bits |-> TableLog]
           ELSE Baseline(f[symbol[s]], n)
  IN  [symbol |-> symbol[s], baseline |-> b.baseline, nb_bits |-> b.nb_bits]

BuildTable ==
  /\ stage = "spread"
  /\ LET low == Size - Negatives(frequencies)
         filled == Filled(frequencies, low)
     IN  IF filled.tab_pos # 0
         THEN stage' = "CORRUPTED_DATA" /\ UNCHANGED fse_table
         ELSE /\ stage' = "built"
              /\ fse_table' = [s \in 0 .. Size - 1 |-> Entry(frequencies, low, filled.symbol, s)]
  /\ UNCHANGED <<dry, remaining, zero_repeat, frequencies, huff>>

-----------------------------------------------------------------------------
(* build_huff_table.  The last weight is inferred; a state is an index.    *)
Sum(s) == FoldLeft(LAMBDA sum, x : sum + x, 0, s)
States(w) == IF w = 0 THEN 0 ELSE 2^(w - 1)
Taken(w) == Sum([i \in DOMAIN w |-> States(w[i])])
MaxBits(w) == HighestBit(Taken(w))
AllWeights(w) == Append(w, HighestBit(2^MaxBits(w) - Taken(w)))

(* Variant: an entry goes before the ones that are longer.                 *)
BehindShorter(table, nb_bits, symbol) ==
  LET stop == {j \in DOMAIN table : table[j].nb_bits > nb_bits}
  IN  IF stop = {} THEN Len(table) ELSE Min(stop) - 1

(* How many entries an entry goes behind: those that are at least as long  *)
(* and have a smaller symbol, up to the first that is not.                 *)
Behind(table, nb_bits, symbol) ==
  LET stop == {j \in DOMAIN table :
                 ~(table[j].nb_bits >= nb_bits /\ table[j].symbol < symbol)}
  IN  IF stop = {} THEN Len(table) ELSE Min(stop) - 1

Entries(w, bits, i) ==
  [s \in 1 .. States(w[i]) |-> [symbol |-> i, nb_bits |-> bits + 1 - w[i]]]

HuffTable(w, bits) ==
  FoldLeft(LAMBDA table, i :
             IF w[i] = 0 THEN table
             ELSE LET j == Behind(table, bits + 1 - w[i], i)
                  IN  SubSeq(table, 1, j) \o Entries(w, bits, i)
                        \o SubSeq(table, j + 1, Len(table)),
           <<>>, [i \in DOMAIN w |-> i])

BuildHuffTable ==
  /\ stage = "weights"
  /\ LET bits == MaxBits(weights)
         table == HuffTable(AllWeights(weights), bits)
     IN  /\ max_nb_bits' = bits
         /\ IF Len(table) = 2^bits
            THEN stage' = "open" /\ hf_literals' = table
            ELSE stage' = "CORRUPTED_DATA" /\ hf_literals' = <<>>
  /\ UNCHANGED <<fse, weights, streams, regenerated, at, pos, hf_state, literals>>

(* The streams as the format writes them: the codes of one length follow   *)
(* each other in the order of their symbols, the longest codes come first. *)
CodeStart(w, i) ==
  Sum([k \in DOMAIN w |-> IF (w[k] > 0 /\ (w[k] < w[i] \/ (w[k] = w[i] /\ k < i)))
                          THEN States(w[k]) ELSE 0])
Code(w, bits, i) ==
  LET n == bits + 1 - w[i]
      code == CodeStart(w, i) \div States(w[i])
  IN  [b \in 1 .. n |-> (code \div 2^(n - b)) % 2]
Complete(w) == Taken(AllWeights(w)) = 2^MaxBits(w)

Bits ==
  LET w == AllWeights(weights)
  IN  FlattenSeq([i \in DOMAIN streams[at] |-> Code(w, max_nb_bits, streams[at][i])])

(* reversed_bitstream_read_bits: behind the first byte the bits are 0.     *)
ReadBits(p, n) ==
  Sum([b \in 1 .. n |-> IF p + b <= Len(Bits) THEN Bits[p + b] * 2^(n - b) ELSE 0])

OpenStream ==
  /\ stage = "open"
  /\ stage' = "decode"
  /\ hf_state' = ReadBits(0, max_nb_bits) /\ pos' = max_nb_bits
  /\ UNCHANGED <<fse, weights, hf_literals, max_nb_bits, streams, regenerated, at, literals>>

(* bit_pos > -max_nb_bits, and a literal is missing.                       *)
MoreLiterals == pos - Len(Bits) < max_nb_bits /\ Len(literals) < regenerated

DecodeLiteral ==
  /\ stage = "decode" /\ MoreLiterals
  /\ LET entry == hf_literals[hf_state + 1]
     IN  /\ literals' = Append(literals, entry.symbol)
         /\ hf_state' = ((hf_state * 2^entry.nb_bits) % 2^max_nb_bits)
                          + ReadBits(pos, entry.nb_bits)
         /\ pos' = pos + entry.nb_bits
  /\ UNCHANGED <<stage, fse, weights, hf_literals, max_nb_bits, streams, regenerated, at>>

(* huff_decode_stream refuses a stream of which a whole byte was not read, *)
(* decode_literals one of four that did not end with the last literal.     *)
StreamRefused ==
  \/ Len(Bits) - pos >= 8
  \/ (Len(streams) = 4 /\ pos - Len(Bits) # max_nb_bits)

CloseStream ==
  /\ stage = "decode" /\ ~MoreLiterals
  /\ stage' = CASE StreamRefused                                       -> "CORRUPTED_DATA"
                [] at < Len(streams) /\ ~StreamRefused                 -> "open"
                [] at = 4 /\ Len(literals) # regenerated                -> "CORRUPTED_DATA"
                [] OTHER                                               -> "built"
  /\ at' = IF stage' = "open" THEN at + 1 ELSE at
  /\ pos' = IF stage' = "open" THEN 0 ELSE pos
  /\ hf_literals' = IF stage' = "CORRUPTED_DATA" \/ (stage' = "built" /\ Len(literals) # regenerated)
                    THEN <<>> ELSE hf_literals
  /\ UNCHANGED <<fse, weights, max_nb_bits, streams, regenerated, hf_state, literals>>

-----------------------------------------------------------------------------
Total == Sum([i \in DOMAIN streams |-> Len(streams[i])])
Symbols(w) == {i \in DOMAIN AllWeights(w) : AllWeights(w)[i] > 0}
Literals(w) == SeqOf(Symbols(w), MaxLiterals)
AtMostOne(w) == SeqOf(Symbols(w), 1)
Sections(w) ==
  IF Complete(w)
  THEN {<<l>> : l \in Literals(w)}
         \cup {<<a, b, c, d>> : a, b, c, d \in AtMostOne(w)}
  ELSE {<< <<>> >>}

InitFse ==
  /\ stage = "probabilities"
  /\ weights = <<>> /\ streams = <<>> /\ regenerated = 0

InitHuff ==
  /\ stage = "weights"
  /\ weights \in WeightVectors
  /\ streams \in Sections(weights)
  /\ regenerated \in {Total + n : n \in IF Len(streams) = 4 THEN Claims \cup {0} ELSE {0}}

(* remaining begins one above the number of states.                        *)
Init ==
  /\ dry = FALSE /\ remaining = Size + 1 /\ zero_repeat = FALSE
  /\ frequencies = <<>> /\ fse_table = <<>>
  /\ hf_literals = <<>> /\ max_nb_bits = 0 /\ at = 1 /\ pos = 0 /\ hf_state = 0 /\ literals = <<>>
  /\ InitFse \/ InitHuff

Next ==
  \/ ReadProbability \/ RepeatZeros \/ BuildTable
  \/ BuildHuffTable \/ OpenStream \/ DecodeLiteral \/ CloseStream

Spec == Init /\ [][Next]_vars

-----------------------------------------------------------------------------
Outcomes == {"built", "CORRUPTED_DATA", "MAX_SYMBOL_VALUE_TOO_SMALL"}
FseFlow == weights = <<>>
Moves(s) == fse_table[s].baseline .. fse_table[s].baseline + 2^fse_table[s].nb_bits - 1

(* Types: what is accepted has a table, and hf_state is a state of it.     *)
TypeOK ==
  /\ stage \in {"probabilities", "spread", "weights", "open", "decode"} \cup Outcomes
  /\ \A i \in DOMAIN frequencies : frequencies[i] \in -1 .. Size
  /\ stage = "built" /\ FseFlow =>
       fse_table \in [0 .. Size - 1 ->
                        [symbol : 1 .. MaxSymbol + 1, baseline : 0 .. Size - 1, nb_bits : 0 .. TableLog]]
  /\ stage = "decode" => hf_state + 1 \in DOMAIN hf_literals

(* read_probabilities never spends more than the table has states, so that *)
(* its error branch, which frees the caller's variable instead of the      *)
(* buffer, is out of reach, and what it accepts is exactly spent.          *)
SpendsExactly ==
  FseFlow => /\ remaining >= 1 /\ stage # "wild free"
             /\ Spent(frequencies) = Size + 1 - remaining
             /\ stage \in {"spread", "built"} => remaining = 1

(* fse_build_table builds every distribution that read_probabilities       *)
(* accepts, and from the table an encoder can write any symbol that has a  *)
(* probability before any state: exactly one state of the symbol leads     *)
(* there, by as many bits as are read.                                     *)
EveryMoveOnce ==
  /\ TypeOK
  /\ FseFlow /\ stage = "CORRUPTED_DATA" => Spent(frequencies) # Size
  /\ FseFlow /\ stage = "built" =>
       \A i \in {i \in DOMAIN frequencies : frequencies[i] # 0} :
         LET states == {s \in 0 .. Size - 1 : fse_table[s].symbol = i}
         IN  /\ UNION {Moves(s) : s \in states} = 0 .. Size - 1
             /\ \A s, t \in states : s # t => Moves(s) \cap Moves(t) = {}

(* The literals of a section are those that were encoded, a section that   *)
(* claims others is refused, and no other is.                              *)
LiteralsExact ==
  /\ ~FseFlow /\ stage = "built" => literals = FlattenSeq(streams) /\ regenerated = Total
  /\ ~FseFlow /\ stage = "CORRUPTED_DATA" => regenerated # Total \/ ~Complete(weights)

=============================================================================
