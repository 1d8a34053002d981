------------------------------ MODULE ZstdProofs ------------------------------
(***************************************************************************)
(* Theorems about Zstd, for every value of its constants: what it decodes  *)
(* is what ZstdFormat allows, the tables are those that the format means,  *)
(* and nothing is refused that keeps to the format.                        *)
(***************************************************************************)
EXTENDS Zstd, SequenceTheorems, WellFoundedInduction, TLAPS

-----------------------------------------------------------------------------
(* The copy of a match.                                                    *)

(* A remainder is below its divisor, and completes the product with the    *)
(* quotient.                                                               *)
LEMMA RemainderRange ==
  ASSUME NEW a \in Nat, NEW b \in Nat \ {0}
  PROVE  a % b \in 0 .. b - 1 /\ a \div b \in Nat /\ a = b * (a \div b) + (a % b)
  BY SMT

(* A product of naturals is a natural.                                     *)
LEMMA ProductNat ==
  ASSUME NEW a \in Nat, NEW b \in Nat
  PROVE  a * b \in Nat
  BY SMT

(* Multiplication respects the order.                                      *)
LEMMA ProductMonotone ==
  ASSUME NEW b \in Nat \ {0}, NEW p \in Int, NEW q \in Int
  PROVE  (p <= q => b * p <= b * q) /\ (b * p < b * q => p < q)
  BY SMT

(* Quotients in order leave no equal sums with remainders.                 *)
LEMMA QuotientOrder ==
  ASSUME NEW b \in Nat \ {0}, NEW p \in Int, NEW q \in Int, p < q,
         NEW r \in 0 .. b - 1, NEW s \in 0 .. b - 1
  PROVE  b * p + r # b * q + s
<1>1. b * (p + 1) <= b * q
  BY ProductMonotone
<1>2. b * (p + 1) = b * p + b
  BY SMT
<1>3. PICK x \in Int, y \in Int : x = b * p /\ y = b * q
  BY SMT
<1>4. x + b <= y
  BY <1>1, <1>2, <1>3
<1>5. x + r # y + s
  BY <1>3, <1>4
<1> QED
  BY <1>3, <1>5

(* The divisor added to a number does not change its remainder.            *)
LEMMA RemainderPeriod ==
  ASSUME NEW m \in Nat, NEW b \in Nat \ {0}
  PROVE  (m + b) % b = m % b
<1>1. PICK q \in Nat, r \in 0 .. b - 1 : m = b * q + r /\ m % b = r
  BY RemainderRange, Zenon
<1>2. PICK p \in Nat, s \in 0 .. b - 1 : m + b = b * p + s /\ (m + b) % b = s
  <2>1. m + b \in Nat
    OBVIOUS
  <2> QED
    BY <2>1, RemainderRange, Zenon
<1>3. b * (q + 1) = b * q + b
  BY SMT
<1>4. b * (q + 1) + r = b * p + s
  <2>1. PICK x \in Int : x = b * q
    BY SMT
  <2>2. PICK y \in Int : y = b * p
    BY SMT
  <2>3. x + b + r = y + s
    BY <1>1, <1>2, <2>1, <2>2
  <2> QED
    BY <1>3, <2>1, <2>2, <2>3
<1>5. q + 1 = p
  BY <1>4, QuotientOrder
<1>6. r = s
  <2>1. PICK y \in Int : y = b * p
    BY SMT
  <2>2. y + r = y + s
    BY <1>4, <1>5, <2>1
  <2> QED
    BY <2>2
<1> QED
  BY <1>1, <1>2, <1>6

(* A set of naturals that is not empty has a least member.                 *)
LEMMA Least ==
  ASSUME NEW T \in SUBSET Nat, T # {}
  PROVE  \E x \in T : \A y \in T : x <= y
<1>1. PICK x \in T : \A y \in T : ~(<<y, x>> \in OpToRel(<, Nat))
  BY WFMin, NatLessThanWellFounded
<1>2. \A y \in T : ~(y < x)
  BY <1>1 DEF OpToRel
<1> QED
  BY <1>2

(* The copy byte by byte, over its own output: its recursion has a         *)
(* solution, buffer \o Repeat, and no other.                               *)
CopyOf(buffer, offset, n, d) ==
  d = [i \in 1 .. Len(buffer) + n |-> IF i <= Len(buffer) THEN buffer[i] ELSE d[i - offset]]

LEMMA RepeatCopies ==
  ASSUME NEW S, NEW b \in Seq(S), NEW o \in 1 .. Len(b), NEW n \in Nat
  PROVE  /\ Format!Repeat(b, o, n) \in Seq(S) /\ b \o Format!Repeat(b, o, n) \in Seq(S)
         /\ CopyOf(b, o, n, b \o Format!Repeat(b, o, n))
<1> DEFINE l == Len(b)
           at(i) == l - o + 1 + ((i - 1) % o)
           r == Format!Repeat(b, o, n)
           g == b \o r
<1>1. l \in Nat /\ b \in [1 .. l -> S] /\ o \in Nat \ {0}
  BY LenProperties
<1>2. \A i \in 1 .. n : at(i) \in 1 .. l
  <2> SUFFICES ASSUME NEW i \in 1 .. n PROVE at(i) \in 1 .. l
    OBVIOUS
  <2>1. i - 1 \in Nat
    OBVIOUS
  <2>2. (i - 1) % o \in 0 .. o - 1
    BY <1>1, <2>1, RemainderRange
  <2>3. PICK k : k = (i - 1) % o
    OBVIOUS
  <2>4. k \in 0 .. o - 1
    BY <2>2, <2>3
  <2>5. l - o + 1 + k \in 1 .. l
    BY <1>1, <2>4
  <2> QED
    BY <2>3, <2>5, Zenon
<1>3. r = [i \in 1 .. n |-> b[at(i)]]
  BY DEF Format!Repeat
<1>4. r \in Seq(S) /\ Len(r) = n /\ \A i \in 1 .. n : r[i] = b[at(i)]
  <2> HIDE DEF at, r, l
  <2>1. \A i \in 1 .. n : b[at(i)] \in S
    BY <1>1, <1>2
  <2>2. r \in Seq(S)
    BY <1>3, <2>1, IsASeq
  <2>3. DOMAIN r = 1 .. n /\ DOMAIN r = 1 .. Len(r) /\ Len(r) \in Nat
    BY <1>3, <2>2, LenProperties
  <2> QED
    BY <1>3, <2>2, <2>3
<1>5. g \in Seq(S) /\ Len(g) = l + n /\ g \in [1 .. l + n -> S]
      /\ \A i \in 1 .. l + n : g[i] = IF i <= l THEN b[i] ELSE r[i - l]
  <2> HIDE DEF at, r
  <2>1. g \in Seq(S) /\ Len(g) = l + n
        /\ \A i \in 1 .. l + n : g[i] = IF i <= l THEN b[i] ELSE r[i - l]
    BY <1>4, ConcatProperties
  <2>2. g \in [1 .. Len(g) -> S]
    BY <2>1, LenProperties
  <2> QED
    BY <2>1, <2>2
<1>6. ASSUME NEW i \in 1 .. l + n, ~(i <= l) PROVE g[i] = g[i - o]
  <2>1. i - l \in 1 .. n /\ i - o \in 1 .. l + n /\ i - l - 1 \in Nat
    BY <1>1, <1>6
  <2>2. g[i] = b[at(i - l)]
    BY <1>4, <1>5, <1>6, <2>1
  <2>3. CASE i - o <= l
    <3>1. i - l - 1 \in Nat /\ i - l - 1 < o
      BY <1>1, <2>1, <2>3
    <3>2. (i - l - 1) % o = i - l - 1
      BY <1>1, <3>1
    <3>3. at(i - l) = i - o
      BY <1>1, <3>2
    <3>4. g[i - o] = b[i - o]
      BY <1>5, <2>1, <2>3
    <3> QED
      BY <2>2, <3>3, <3>4
  <2>4. CASE ~(i - o <= l)
    <3>1. i - o - l \in 1 .. n /\ (i - o) - l - 1 \in Nat
      BY <1>1, <1>6, <2>4
    <3>2. g[i - o] = b[at((i - o) - l)]
      BY <1>4, <1>5, <2>1, <2>4, <3>1
    <3>3. ((((i - o) - l) - 1) + o) % o = (((i - o) - l) - 1) % o
      BY <1>1, <3>1, RemainderPeriod
    <3>4. (((i - o) - l) - 1) + o = (i - l) - 1
      BY <1>1
    <3>5. at(i - l) = at((i - o) - l)
      BY <3>3, <3>4
    <3> QED
      BY <2>2, <3>2, <3>5
  <2> QED
    BY <2>3, <2>4
<1>7. g = [i \in 1 .. l + n |-> IF i <= l THEN b[i] ELSE g[i - o]]
  <2> HIDE DEF g
  <2>1. \A i \in 1 .. l + n : g[i] = IF i <= l THEN b[i] ELSE g[i - o]
    BY <1>5, <1>6
  <2> QED
    BY <1>5, <2>1
<1> QED
  BY <1>4, <1>5, <1>7 DEF CopyOf

LEMMA CopyUnique ==
  ASSUME NEW S, NEW b \in Seq(S), NEW o \in 1 .. Len(b), NEW n \in Nat,
         NEW d, CopyOf(b, o, n, d), NEW g, CopyOf(b, o, n, g)
  PROVE  d = g
<1> DEFINE l == Len(b)
<1>1. l \in Nat /\ o \in Nat \ {0}
  BY LenProperties
<1>2. \A i \in 1 .. l + n : /\ d[i] = IF i <= l THEN b[i] ELSE d[i - o]
                           /\ g[i] = IF i <= l THEN b[i] ELSE g[i - o]
  BY DEF CopyOf
<1> DEFINE T == {i \in 1 .. l + n : d[i] # g[i]}
<1>3. ASSUME T # {} PROVE FALSE
  <2>1. T \in SUBSET Nat
    OBVIOUS
  <2>2. PICK i \in T : \A j \in T : i <= j
    BY <1>3, <2>1, Least
  <2>3. ~(i <= l)
    BY <1>2, <2>2
  <2>4. d[i - o] # g[i - o]
    BY <1>2, <2>2, <2>3
  <2>5. i - o \in 1 .. l + n /\ i - o < i
    BY <1>1, <2>2, <2>3
  <2> QED
    BY <1>1, <2>2, <2>4, <2>5
<1>4. \A i \in 1 .. l + n : d[i] = g[i]
  BY <1>3
<1> QED
  BY <1>4 DEF CopyOf

(* sequence_execution copies a match as the format repeats it, whether the *)
(* match ends before what it writes or overlaps it.                        *)
THEOREM CopyTheorem ==
  ASSUME NEW S, NEW b \in Seq(S), NEW o \in 1 .. Len(b), NEW n \in Nat
  PROVE  CopyMatch(b, o, n) = b \o Format!Repeat(b, o, n)
<1>1. CopyMatch(b, o, n) = CHOOSE d : CopyOf(b, o, n, d)
  BY DEF CopyMatch, CopyOf
<1>2. CopyOf(b, o, n, CHOOSE d : CopyOf(b, o, n, d))
  BY RepeatCopies
<1> QED
  BY <1>1, <1>2, RepeatCopies, CopyUnique

-----------------------------------------------------------------------------
(* The recent offsets.                                                     *)

Offset == Nat \ {0}
Recent == Offset \X Offset \X Offset

LEMMA Pair ==
  ASSUME NEW s \in Seq(Int), Len(s) = 2
  PROVE  s = <<s[1], s[2]>>
<1>1. s[1] \in Int /\ s[2] \in Int
  BY ElementOfSeq
<1>2. <<s[1], s[2]>> \in Seq(Int)
  BY <1>1
<1> QED
  BY <1>2, SeqEqual

LEMMA PairAndOne ==
  ASSUME NEW a \in Int, NEW b \in Int, NEW c \in Int
  PROVE  <<a, b>> \o <<c>> = <<a, b, c>> /\ <<a>> \o <<b, c>> = <<a, b, c>>
<1>1. /\ <<a, b>> \in Seq(Int) /\ Len(<<a, b>>) = 2 /\ <<c>> \in Seq(Int) /\ Len(<<c>>) = 1
      /\ <<a>> \in Seq(Int) /\ Len(<<a>>) = 1 /\ <<b, c>> \in Seq(Int) /\ Len(<<b, c>>) = 2
      /\ <<a, b, c>> \in Seq(Int) /\ Len(<<a, b, c>>) = 3
  OBVIOUS
<1>2. /\ <<a, b>> \o <<c>> \in Seq(Int) /\ Len(<<a, b>> \o <<c>>) = 3
      /\ \A i \in 1 .. 3 : (<<a, b>> \o <<c>>)[i] = IF i <= 2 THEN <<a, b>>[i] ELSE <<c>>[i - 2]
  BY <1>1, ConcatProperties
<1>3. /\ <<a>> \o <<b, c>> \in Seq(Int) /\ Len(<<a>> \o <<b, c>>) = 3
      /\ \A i \in 1 .. 3 : (<<a>> \o <<b, c>>)[i] = IF i <= 1 THEN <<a>>[i] ELSE <<b, c>>[i - 1]
  BY <1>1, ConcatProperties
<1>4. \A i \in 1 .. 3 : (<<a, b>> \o <<c>>)[i] = <<a, b, c>>[i] /\ (<<a>> \o <<b, c>>)[i] = <<a, b, c>>[i]
  BY <1>2, <1>3
<1> QED
  BY <1>1, <1>2, <1>3, <1>4, SeqEqual

(* What is left of three offsets without one of them.                      *)
LEMMA TripleParts ==
  ASSUME NEW a \in Int, NEW b \in Int, NEW c \in Int, NEW h, h = <<a, b, c>>
  PROVE  /\ Tail(h) = <<b, c>> /\ Front(h) = <<a, b>>
         /\ RemoveAt(h, 1) = <<b, c>> /\ RemoveAt(h, 2) = <<a, c>> /\ RemoveAt(h, 3) = <<a, b>>
<1>1. h \in Seq(Int) /\ Len(h) = 3 /\ h[1] = a /\ h[2] = b /\ h[3] = c
  OBVIOUS
<1>2. \A i \in 1 .. 3 : h[i] \in Int
  BY <1>1
<1>3. \A m \in 1 .. 4, n \in 0 .. 3 :
         /\ SubSeq(h, m, n) \in Seq(Int)
         /\ Len(SubSeq(h, m, n)) = IF m <= n THEN n - m + 1 ELSE 0
         /\ \A i \in 1 .. n - m + 1 : SubSeq(h, m, n)[i] = h[m + i - 1]
  BY <1>2, SubSeqProperties
<1>4. SubSeq(h, 1, 2) = <<a, b>> /\ SubSeq(h, 2, 3) = <<b, c>>
  <2> DEFINE x == SubSeq(h, 1, 2)
             y == SubSeq(h, 2, 3)
  <2>1. x \in Seq(Int) /\ Len(x) = 2 /\ x[1] = h[1] /\ x[2] = h[2]
    BY <1>3
  <2>2. y \in Seq(Int) /\ Len(y) = 2 /\ y[1] = h[2] /\ y[2] = h[3]
    BY <1>3
  <2> HIDE DEF x, y
  <2>3. x = <<x[1], x[2]>> /\ y = <<y[1], y[2]>>
    BY <2>1, <2>2, Pair
  <2>4. x = <<a, b>> /\ y = <<b, c>>
    BY <1>1, <2>1, <2>2, <2>3
  <2> QED
    BY <2>4 DEF x, y
<1>5. SubSeq(h, 1, 0) = <<>> /\ SubSeq(h, 4, 3) = <<>>
  BY SubSeqEmpty
<1>6. Tail(h) = <<b, c>>
  <2>1. h # <<>>
    BY <1>1
  <2>2. Tail(h) = SubSeq(h, 2, 3)
    BY <1>1, <2>1, TailIsSubSeq
  <2> QED
    BY <1>4, <2>2
<1>7. Front(h) = <<a, b>>
  BY <1>1, <1>4 DEF Front
<1>8. RemoveAt(h, 1) = <<b, c>> /\ RemoveAt(h, 3) = <<a, b>>
  <2>1. <<a, b>> \in Seq(Int) /\ <<b, c>> \in Seq(Int)
    OBVIOUS
  <2>2. /\ RemoveAt(h, 1) = SubSeq(h, 1, 0) \o SubSeq(h, 2, 3)
        /\ RemoveAt(h, 3) = SubSeq(h, 1, 2) \o SubSeq(h, 4, 3)
    BY <1>1 DEF RemoveAt
  <2> QED
    BY <1>4, <1>5, <2>1, <2>2, ConcatEmptySeq, Zenon
<1>9. RemoveAt(h, 2) = <<a, c>>
  <2> DEFINE x == SubSeq(h, 1, 1)
             y == SubSeq(h, 3, 3)
  <2>1. x \in Seq(Int) /\ Len(x) = 1 /\ x[1] = a /\ y \in Seq(Int) /\ Len(y) = 1 /\ y[1] = c
    BY <1>1, <1>3
  <2>2. x \o y \in Seq(Int) /\ Len(x \o y) = 2 /\ (x \o y)[1] = a /\ (x \o y)[2] = c
    BY <2>1, ConcatProperties
  <2>3. RemoveAt(h, 2) = x \o y
    BY <1>1 DEF RemoveAt
  <2> QED
    BY <2>2, <2>3, Pair
<1> QED
  BY <1>6, <1>7, <1>8, <1>9

(* update_off_history finds the offset of a code, and moves it to the      *)
(* front, as the format says.                                              *)
LEMMA OffsetAgrees ==
  ASSUME NEW h \in Recent, NEW code \in Offset, NEW ll \in Nat
  PROVE  ActualOffset(h, code, ll) = Format!Offset(h, ll, code)
<1>1. PICK a \in Offset, b \in Offset, c \in Offset : h = <<a, b, c>>
  BY DEF Recent
<1>2. Tail(h) \o <<h[1] - 1>> = <<b, c, a - 1>>
  <2>1. Tail(h) = <<b, c>> /\ h[1] = a
    BY <1>1, TripleParts DEF Offset
  <2>2. PICK z \in Int : z = h[1] - 1 /\ z = a - 1
    BY <2>1 DEF Offset
  <2>3. b \in Int /\ c \in Int
    BY DEF Offset
  <2>4. <<b, c>> \o <<z>> = <<b, c, z>>
    BY <2>3, PairAndOne, Zenon
  <2> QED
    BY <2>1, <2>2, <2>4, Zenon
<1>3. CASE code > 3
  BY <1>3 DEF ActualOffset, Format!Offset
<1>4. CASE ll > 0
  BY <1>4 DEF ActualOffset, Format!Offset
<1>5. CASE ~(code > 3) /\ ~(ll > 0)
  <2>1. code \in {1, 2, 3}
    BY <1>5 DEF Offset
  <2> QED
    BY <1>1, <1>2, <1>5, <2>1 DEF ActualOffset, Format!Offset
<1> QED
  BY <1>3, <1>4, <1>5

LEMMA HistoryAgrees ==
  ASSUME NEW h \in Recent, NEW code \in Offset, NEW ll \in Nat, ActualOffset(h, code, ll) \in Offset
  PROVE  History(h, code, ll) = Format!Used(h, ll, code) /\ History(h, code, ll) \in Recent
<1>1. PICK a \in Offset, b \in Offset, c \in Offset :
         h = <<a, b, c>> /\ a \in Int /\ b \in Int /\ c \in Int
  BY DEF Recent, Offset
<1> DEFINE place == Format!Place(ll, code)
<1>2. PICK x \in Offset : x = ActualOffset(h, code, ll) /\ x = Format!Offset(h, ll, code)
  BY OffsetAgrees
<1>3. /\ Front(h) = <<a, b>> /\ RemoveAt(h, 1) = <<b, c>>
      /\ RemoveAt(h, 2) = <<a, c>> /\ RemoveAt(h, 3) = <<a, b>>
  BY <1>1, TripleParts DEF Offset
<1>4. h[1] = a /\ h[2] = b /\ h[3] = c
  BY <1>1
<1>5. \A y \in Int, z \in Int : <<x>> \o <<y, z>> = <<x, y, z>>
  <2>1. x \in Int
    BY DEF Offset
  <2> QED
    BY <2>1, PairAndOne, Zenon
<1>6. Format!Used(h, ll, code) = <<x>> \o (IF place <= 3 THEN RemoveAt(h, place) ELSE Front(h))
  BY <1>2, Zenon DEF Format!Used, Format!RemoveAt, Format!Front, RemoveAt, Front
<1>7. code \in Nat \ {0} /\ place = IF ll > 0 THEN code ELSE code + 1
  BY DEF Offset, Format!Place
<1>8. CASE place = 1
  <2>1. code = 1 /\ ll > 0
    BY <1>7, <1>8
  <2>2. x = a
    BY <1>2, <1>4, <2>1 DEF ActualOffset
  <2>3. History(h, code, ll) = <<a, b, c>>
    BY <1>2, <1>1, <2>1 DEF History
  <2> QED
    <3>1. Format!Used(h, ll, code) = <<x>> \o <<b, c>>
      <4>1. (IF place <= 3 THEN RemoveAt(h, place) ELSE Front(h)) = <<b, c>>
        BY <1>3, <1>8
      <4> QED
        BY <1>6, <4>1, Zenon
    <3>2. Format!Used(h, ll, code) = <<a, b, c>>
      BY <1>1, <1>5, <2>2, <3>1, Zenon
    <3> QED
      BY <2>3, <3>2 DEF Recent
<1>9. CASE place = 2
  <2>1. (code = 2 /\ ll > 0) \/ (code = 1 /\ ~(ll > 0))
    BY <1>7, <1>9
  <2>2. History(h, code, ll) = <<x, a, c>>
    BY <1>2, <1>4, <2>1 DEF History
  <2> QED
    <3>1. Format!Used(h, ll, code) = <<x>> \o <<a, c>>
      BY <1>3, <1>6, <1>9
    <3>2. Format!Used(h, ll, code) = <<x, a, c>>
      BY <1>1, <1>5, <3>1, Zenon
    <3> QED
      BY <2>2, <3>2 DEF Recent
<1>10. CASE place > 2
  <2>1. code >= 3 \/ (code = 2 /\ ll = 0)
    BY <1>7, <1>10
  <2>2. History(h, code, ll) = <<x, a, b>>
    BY <1>2, <1>4, <2>1 DEF History
  <2>3. (IF place <= 3 THEN RemoveAt(h, place) ELSE Front(h)) = <<a, b>>
    BY <1>3, <1>7, <1>10
  <2> QED
    <3>1. Format!Used(h, ll, code) = <<x>> \o <<a, b>>
      BY <1>6, <2>3
    <3>2. Format!Used(h, ll, code) = <<x, a, b>>
      BY <1>1, <1>5, <3>1, Zenon
    <3> QED
      BY <2>2, <3>2 DEF Recent
<1> QED
  BY <1>7, <1>8, <1>9, <1>10

(* The offset of a code from the recent ones may be 0, and is then refused. *)
LEMMA ActualRange ==
  ASSUME NEW h \in Recent, NEW code \in Offset, NEW ll \in Nat
  PROVE  ActualOffset(h, code, ll) \in Nat
<1>1. h[1] \in Offset /\ h[2] \in Offset /\ h[3] \in Offset
  BY DEF Recent
<1> QED
  BY <1>1 DEF ActualOffset, Offset

-----------------------------------------------------------------------------
(* The inductive invariant: what the workspace holds; the tables, which    *)
(* are the meant ones where one was read in this block and wherever one    *)
(* may be repeated; and what each stage leaves empty.                      *)
Coded == [ll : Nat, ol : Offset, ml : Offset]

Data ==
  /\ stage \in Stages \cup Fields \cup {"done"} \cup Errors
  /\ decompressed \in Seq(Bytes) /\ frame_buffer \in Seq(Bytes) /\ literals \in Seq(Bytes)
  /\ sequences \in Seq(Coded)
  /\ offset_history \in Recent
  /\ blocks_cnt \in 0 .. MaxBlocks /\ sequence_len \in Nat
  /\ literals_ind \in 0 .. Len(literals)

Agrees(f) == Values(f) = meant[f]
Tables ==
  /\ fse_table \in [Fields -> SUBSET Nat] /\ rle \in [Fields -> Int]
  /\ meant \in [Fields -> SUBSET Nat]
  /\ 0 \notin meant["ol"] /\ 0 \notin meant["ml"]
  /\ \A f \in Fields : fse_table[f] # NULL => Agrees(f)
  /\ stage \in {"ol", "ml", "decode"} => Agrees("ll")
  /\ stage \in {"ml", "decode"} => Agrees("ol")
  /\ stage = "decode" => Agrees("ml")

Places ==
  /\ stage # "execute" => sequences = <<>> /\ literals_ind = 0
  /\ stage \in {"frame", "done", "next"} \cup Errors =>
       /\ frame_buffer = <<>> /\ literals = <<>> /\ offset_history = <<1, 4, 8>>
       /\ fse_table = NoTables /\ hf_literals = NULL
  /\ stream_live = (stage \notin {"done"} \cup (Errors \ {"DECOMPRESSED_SIZE_MISMATCH"}))
  /\ stage \in Errors => damaged

(* The bounds of the model: the output, and with it the offsets.           *)
Bounded ==
  /\ Len(decompressed) + Len(frame_buffer) <= MaxOutput
  /\ \A i \in 1 .. 3 : offset_history[i] <= MaxOutput + 11

ZInv == Data /\ Tables /\ Places /\ Bounded

LEMMA StageNames ==
  /\ Errors \cap (Stages \cup Fields \cup {"done"}) = {}
  /\ Fields = {"ll", "ol", "ml"}
BY DEF Errors, Stages, Fields

LEMMA NewWorkspaceFacts ==
  ASSUME NewWorkspace
  PROVE  /\ frame_buffer' = <<>> /\ literals' = <<>> /\ sequences' = <<>> /\ literals_ind' = 0
         /\ sequence_len' = 0
         /\ offset_history' = <<1, 4, 8>> /\ offset_history' \in Recent
         /\ \A i \in 1 .. 3 : offset_history'[i] <= 11
         /\ fse_table' = NoTables /\ rle' = [f \in Fields |-> 0] /\ meant' = NoTables /\ hf_literals' = NULL
         /\ fse_table' \in [Fields -> SUBSET Nat] /\ rle' \in [Fields -> Int]
         /\ meant' \in [Fields -> SUBSET Nat]
         /\ \A f \in Fields : fse_table'[f] = NULL /\ meant'[f] = {}
<1>1. <<1, 4, 8>> \in Recent
  BY DEF Recent, Offset
<1> QED
  BY <1>1 DEF NewWorkspace, NoTables, NULL

LEMMA EmptyData ==
  /\ <<>> \in Seq(Bytes) /\ <<>> \in Seq(Coded) /\ Len(<<>>) = 0
BY EmptySeq

LEMMA InitZ == Init => ZInv
<1> SUFFICES ASSUME Init PROVE ZInv
  OBVIOUS
<1>1. <<1, 4, 8>> \in Recent
  BY DEF Recent, Offset
<1>2. "frame" \in Stages /\ "frame" \notin Errors
  BY DEF Stages, Errors
<1>3. Data
  BY <1>1, <1>2, EmptyData, ZstdAssumption DEF Init, Data
<1>4. Tables
  BY StageNames DEF Init, Tables, NoTables, NULL
<1>5. Places
  BY <1>2 DEF Init, Places
<1>6. Bounded
  BY EmptyData, ZstdAssumption DEF Init, Bounded
<1> QED
  BY <1>3, <1>4, <1>5, <1>6 DEF ZInv

LEMMA StutterZ == ZInv /\ UNCHANGED vars => ZInv'
BY DEF ZInv, Data, Tables, Places, Bounded, Agrees, Values, vars, result, workspace, header

(* A failure frees and empties everything.                                 *)
LEMMA FailZ ==
  ASSUME ZInv, NEW error \in Errors \ {"DECOMPRESSED_SIZE_MISMATCH"}, Refuse(error), damaged'
  PROVE  ZInv'
<1>1. /\ stage' = error /\ stream_live' = FALSE /\ decompressed' = <<>> /\ NewWorkspace
      /\ blocks_cnt' = 0
  BY DEF Refuse
<1>2. Data'
  BY <1>1, NewWorkspaceFacts, EmptyData, ZstdAssumption DEF Data
<1>3. Tables'
  BY <1>1, NewWorkspaceFacts, StageNames DEF Tables, Errors
<1>4. Places'
  BY <1>1, NewWorkspaceFacts, StageNames DEF Places, Errors
<1>5. Bounded'
  <2>1. MaxOutput \in Nat
    BY ZstdAssumption
  <2> QED
    BY <1>1, <2>1, NewWorkspaceFacts, EmptyData DEF Bounded, Recent, Offset
<1> QED
  BY <1>2, <1>3, <1>4, <1>5 DEF ZInv

(* The steps that only go on to another stage.                             *)
LEMMA GoOn ==
  ASSUME ZInv, stage \notin Errors \cup {"done", "execute"}, stage' \in Stages \cup {"ll"},
         stage' # "decode", stage' \in {"frame", "next"} => stage \in {"frame", "next"},
         blocks_cnt' \in 0 .. MaxBlocks, sequence_len' \in Nat,
         UNCHANGED <<result, frame_buffer, offset_history, fse_table, rle, hf_literals, literals,
                     sequences, literals_ind, meant, damaged>>
  PROVE  ZInv'
<1> USE DEF result
<1>1. Data'
  BY StageNames DEF ZInv, Data
<1>2. Tables'
  BY StageNames DEF ZInv, Tables, Agrees, Values, Stages
<1>3. Places'
  BY StageNames DEF ZInv, Places, Stages
<1> QED
  BY <1>1, <1>2, <1>3 DEF ZInv, Bounded

(* What is read of the stream are bytes.                                   *)
LEMMA ReadType ==
  ASSUME ZInv, NEW n \in Lengths, stage = "block" => blocks_cnt < MaxBlocks
  PROVE  /\ Read(n) \in Seq(Bytes) /\ Len(Read(n)) = n /\ n \in Nat
         /\ n <= MaxOutput - (Len(decompressed) + Len(frame_buffer))
         /\ n > 0 => /\ [i \in 1 .. n |-> Read(1)[1]] \in Seq(Bytes)
                     /\ Len([i \in 1 .. n |-> Read(1)[1]]) = n
<1>1. blocks_cnt \in 0 .. MaxBlocks /\ MaxBlocks \in Nat /\ MaxRead \in Nat /\ MaxOutput \in Nat
      /\ Len(decompressed) \in Nat /\ Len(frame_buffer) \in Nat
  BY ZstdAssumption, LenProperties DEF ZInv, Data
<1>2. n \in 0 .. MaxRead /\ n <= MaxOutput - Len(decompressed) - Len(frame_buffer)
  BY <1>1 DEF Lengths, Room
<1>3. ASSUME NEW i \in 1 .. MaxRead PROVE blocks_cnt * MaxRead + i \in Bytes
  <2>1. MaxRead \in Nat \ {0}
    BY <1>1, <1>3
  <2>2. MaxRead * blocks_cnt <= MaxRead * MaxBlocks
    BY <1>1, <2>1, ProductMonotone
  <2>3. PICK x \in Nat, y \in Nat : x = blocks_cnt * MaxRead /\ y = MaxBlocks * MaxRead
    BY <1>1, ProductNat
  <2>4. (MaxBlocks + 1) * MaxRead = y + MaxRead
    BY <1>1, <2>3, SMT
  <2>5. x <= y
    BY <1>1, <2>2, <2>3, SMT
  <2>6. x + i \in 1 .. y + MaxRead
    BY <1>1, <1>3, <2>5
  <2> QED
    BY <2>3, <2>4, <2>6, Zenon DEF Bytes
<1>4. Read(n) \in Seq(Bytes) /\ Len(Read(n)) = n
  <2>1. \A i \in 1 .. n : blocks_cnt * MaxRead + i \in Bytes
    <3>1. \A i \in 1 .. n : i \in 1 .. MaxRead
      BY <1>1, <1>2
    <3> QED
      BY <1>3, <3>1, Zenon
  <2>2. Read(n) \in Seq(Bytes)
    BY <1>2, <2>1, IsASeq DEF Read
  <2>3. DOMAIN Read(n) = 1 .. n
    BY DEF Read
  <2> QED
    BY <1>2, <2>2, <2>3, LenProperties
<1>5. ASSUME n > 0
      PROVE  /\ [i \in 1 .. n |-> Read(1)[1]] \in Seq(Bytes)
             /\ Len([i \in 1 .. n |-> Read(1)[1]]) = n
  <2>1. Read(1)[1] \in Bytes
    <3>1. 1 \in 1 .. MaxRead
      BY <1>1, <1>2, <1>5
    <3>2. blocks_cnt * MaxRead + 1 \in Bytes
      BY <1>3, <3>1
    <3>3. Read(1)[1] = blocks_cnt * MaxRead + 1
      BY DEF Read
    <3> QED
      BY <3>2, <3>3
  <2>2. PICK b \in Bytes : b = Read(1)[1]
    BY <2>1
  <2>3. [i \in 1 .. n |-> b] \in Seq(Bytes)
    BY <1>2, IsASeq
  <2>4. Len([i \in 1 .. n |-> b]) = n
    BY <1>2, <2>3, LenProperties
  <2> QED
    BY <2>2, <2>3, <2>4, Zenon
<1> QED
  BY <1>1, <1>2, <1>4, <1>5

LEMMA PlainBlockZ == ASSUME ZInv, PlainBlock PROVE ZInv'
<1>1. /\ stage = "block" /\ blocks_cnt < MaxBlocks /\ blocks_cnt' = blocks_cnt + 1
      /\ stage' \in {"checksum", "block"}
      /\ UNCHANGED <<result, offset_history, fse_table, rle, hf_literals, literals, sequence_len,
                     sequences, literals_ind, checksum_flag, frames_cnt, meant, damaged>>
  BY DEF PlainBlock, StartBlock, BlockEnds
<1>2. PICK d \in Seq(Bytes) : /\ frame_buffer' = frame_buffer \o d
                             /\ Len(d) <= MaxOutput - (Len(decompressed) + Len(frame_buffer))
  <2>1. PICK n \in Lengths : \/ frame_buffer' = frame_buffer \o Read(n)
                            \/ (n > 0 /\ frame_buffer' = frame_buffer \o [i \in 1 .. n |-> Read(1)[1]])
    BY DEF PlainBlock, BlockEnds
  <2> QED
    BY <1>1, <2>1, ReadType
<1>3. /\ frame_buffer \in Seq(Bytes) /\ Len(frame_buffer) \in Nat /\ Len(decompressed) \in Nat
      /\ frame_buffer' \in Seq(Bytes) /\ Len(frame_buffer') = Len(frame_buffer) + Len(d)
      /\ Len(d) \in Nat
  BY <1>2, ConcatProperties, LenProperties DEF ZInv, Data
<1>4. Data'
  BY <1>1, <1>3, ZstdAssumption DEF ZInv, Data, result, Stages
<1>5. Tables'
  BY <1>1 DEF ZInv, Tables, Agrees, Values
<1>6. Places'
  BY <1>1, StageNames DEF ZInv, Places, result, Stages
<1>7. Bounded'
  BY <1>1, <1>2, <1>3, ZstdAssumption DEF ZInv, Bounded, result
<1> QED
  BY <1>4, <1>5, <1>6, <1>7 DEF ZInv

LEMMA ParseLiteralsZ == ASSUME ZInv, ParseLiterals \/ ShortStream PROVE ZInv'
<1>1. stage = "literals"
  BY DEF ParseLiterals, ShortStream
<1>2. CASE FailDamaged("CORRUPTED_DATA")
  BY <1>2, FailZ DEF FailDamaged, Fail, Errors
<1>3. CASE \E n \in Lengths :
             /\ stage' = "sequences"
             /\ literals' = Read(n) \/ (n > 0 /\ literals' = [i \in 1 .. n |-> Read(1)[1]])
                \/ (n = 0 /\ literals' = <<>>)
             /\ damaged' \in {damaged, TRUE}
             /\ UNCHANGED <<result, frame_buffer, offset_history, fse_table, rle, sequence_len,
                            sequences, literals_ind, header, frames_cnt, blocks_cnt, meant>>
  <2>1. literals' \in Seq(Bytes)
    BY <1>1, <1>3, ReadType, EmptyData
  <2>2. literals_ind' = 0 /\ Len(literals') \in Nat
    BY <1>1, <1>3, <2>1, LenProperties DEF ZInv, Places
  <2>3. Data'
    BY <1>3, <2>1, <2>2 DEF ZInv, Data, result, Stages
  <2>4. Tables'
    BY <1>3 DEF ZInv, Tables, Agrees, Values
  <2>5. Places'
    BY <1>1, <1>3, StageNames DEF ZInv, Places, result, Stages
  <2>6. Bounded'
    BY <1>3 DEF ZInv, Bounded, result
  <2> QED
    BY <2>3, <2>4, <2>5, <2>6 DEF ZInv
<1>4. ASSUME NEW type, NEW n \in Lengths, stage' = "sequences",
             literals' = IF type = "RLE" THEN [i \in 1 .. n |-> Read(1)[1]] ELSE Read(n)
      PROVE  literals' = Read(n) \/ (n > 0 /\ literals' = [i \in 1 .. n |-> Read(1)[1]])
             \/ (n = 0 /\ literals' = <<>>)
  <2>1. n \in Nat
    BY <1>1, ReadType
  <2>2. CASE n = 0
    <3>1. [i \in 1 .. n |-> Read(1)[1]] = <<>>
      BY <2>2
    <3> QED
      BY <1>4, <2>2, <3>1
  <2> QED
    BY <1>4, <2>1, <2>2
<1>5. CASE ShortStream
  BY <1>3, <1>5 DEF ShortStream
<1> QED
  BY <1>2, <1>3, <1>4, <1>5 DEF ParseLiterals

(* A table that is set, or repeated where there is one, is the meant one.  *)
LEMMA SetTableZ ==
  ASSUME ZInv, NEW f \in Fields, stage = f, NEW mode, NEW table \in SUBSET Nat,
         mode \in {"PREDEFINED", "FSE_COMPRESSED", "RLE", "REPEAT"},
         f # "ll" => 0 \notin table,
         mode = "RLE" => \E v \in Nat : table = {v},
         mode = "REPEAT" => fse_table[f] # NULL,
         SetTable(f, mode, table)
  PROVE  ZInv'
<1>1. /\ stage' = AfterField[f]
      /\ fse_table' = IF mode \in {"PREDEFINED", "FSE_COMPRESSED"} THEN [fse_table EXCEPT ![f] = table]
                      ELSE fse_table
      /\ rle' = RleAfter(f, mode, table)
      /\ meant' = IF mode = "REPEAT" THEN meant ELSE [meant EXCEPT ![f] = table]
      /\ UNCHANGED <<result, frame_buffer, offset_history, hf_literals, literals, sequence_len, sequences,
                     literals_ind, header, frames_cnt, blocks_cnt, damaged>>
  BY DEF SetTable
<1>2. /\ stage' \in {"ol", "ml", "decode"}
      /\ (f = "ll") <=> (stage' = "ol")
      /\ (f = "ol") <=> (stage' = "ml")
      /\ (f = "ml") <=> (stage' = "decode")
  BY <1>1, StageNames DEF AfterField
<1>3. /\ fse_table \in [Fields -> SUBSET Nat] /\ rle \in [Fields -> Int]
      /\ meant \in [Fields -> SUBSET Nat]
  BY DEF ZInv, Tables
<1>4. rle' \in [Fields -> Int]
      /\ \A g \in Fields \ {f} : rle'[g] = rle[g] /\ fse_table'[g] = fse_table[g] /\ meant'[g] = meant[g]
  <2>1. CASE mode = "RLE"
    <3>1. PICK v \in Nat : table = {v}
      BY <2>1
    <3>2. (CHOOSE w \in table : TRUE) \in Nat
      BY <3>1
    <3>3. rle' = [rle EXCEPT ![f] = CHOOSE w \in table : TRUE]
      BY <1>1, <2>1 DEF RleAfter
    <3> QED
      BY <1>1, <1>3, <3>2, <3>3
  <2>2. CASE mode \in {"PREDEFINED", "FSE_COMPRESSED"}
    <3>1. rle' = [rle EXCEPT ![f] = -1]
      BY <1>1, <2>2 DEF RleAfter
    <3> QED
      BY <1>1, <1>3, <3>1
  <2>3. CASE mode = "REPEAT"
    <3>1. rle' = rle
      BY <1>1, <2>3 DEF RleAfter
    <3> QED
      BY <1>1, <1>3, <2>3, <3>1
  <2> QED
    BY <2>1, <2>2, <2>3
<1>5. Agrees(f)'
  <2>1. CASE mode = "RLE"
    <3>1. PICK v \in Nat : table = {v}
      BY <2>1
    <3>2. (CHOOSE w \in table : TRUE) = v
      BY <3>1
    <3>3. rle'[f] = v
      BY <1>1, <1>3, <2>1, <3>2 DEF RleAfter
    <3>4. meant'[f] = {v}
      BY <1>1, <1>3, <2>1, <3>1
    <3> QED
      BY <3>3, <3>4 DEF Agrees, Values
  <2>2. CASE mode \in {"PREDEFINED", "FSE_COMPRESSED"}
    <3>1. rle'[f] = -1
      BY <1>1, <1>3, <2>2 DEF RleAfter
    <3>2. fse_table'[f] = table /\ meant'[f] = table
      BY <1>1, <1>3, <2>2
    <3> QED
      BY <3>1, <3>2 DEF Agrees, Values
  <2>3. CASE mode = "REPEAT"
    <3>1. rle' = rle /\ fse_table' = fse_table /\ meant' = meant
      BY <1>1, <2>3 DEF RleAfter
    <3>2. Agrees(f)
      BY <2>3 DEF ZInv, Tables
    <3> QED
      BY <3>1, <3>2 DEF Agrees, Values
  <2> QED
    BY <2>1, <2>2, <2>3
<1>6. \A g \in Fields \ {f} : Agrees(g)' <=> Agrees(g)
  BY <1>4 DEF Agrees, Values
<1>7. Tables'
  <2>1. fse_table' \in [Fields -> SUBSET Nat] /\ meant' \in [Fields -> SUBSET Nat]
    BY <1>1, <1>3
  <2>2. 0 \notin meant'["ol"] /\ 0 \notin meant'["ml"]
    BY <1>1, <1>3, StageNames DEF ZInv, Tables
  <2>3. \A g \in Fields : fse_table'[g] # NULL => Agrees(g)'
    <3> SUFFICES ASSUME NEW g \in Fields, fse_table'[g] # NULL PROVE Agrees(g)'
      OBVIOUS
    <3>1. CASE g = f
      BY <1>5, <3>1
    <3>2. CASE g # f
      BY <1>4, <1>6, <3>2 DEF ZInv, Tables
    <3> QED
      BY <3>1, <3>2
  <2>4. f \in {"ol", "ml"} => Agrees("ll")
    BY StageNames DEF ZInv, Tables
  <2>5. f = "ml" => Agrees("ol")
    BY StageNames DEF ZInv, Tables
  <2>6. (stage' \in {"ol", "ml", "decode"} => Agrees("ll")')
    BY <1>2, <1>5, <1>6, <2>4, StageNames
  <2>7. (stage' \in {"ml", "decode"} => Agrees("ol")')
    BY <1>2, <1>5, <1>6, <2>5, StageNames
  <2>8. (stage' = "decode" => Agrees("ml")')
    BY <1>2, <1>5
  <2> QED
    BY <1>4, <2>1, <2>2, <2>3, <2>6, <2>7, <2>8 DEF Tables
<1>8. stage \in Fields /\ stage \notin Errors /\ stage # "execute" /\ stage' \notin Errors
  BY <1>2, StageNames DEF Errors
<1>9. Data'
  BY <1>1, <1>2, StageNames DEF ZInv, Data, result, Stages
<1>10. Places'
  BY <1>1, <1>2, <1>8, StageNames DEF ZInv, Places, result, Errors
<1>11. Bounded'
  BY <1>1 DEF ZInv, Bounded, result
<1> QED
  BY <1>7, <1>9, <1>10, <1>11 DEF ZInv

LEMMA ReadTableZ == ASSUME ZInv, ReadTables PROVE ZInv'
<1>1. PICK f \in Fields : ReadTable(f)
  BY DEF ReadTables
<1>2. stage = f
  BY <1>1 DEF ReadTable
<1>3. \A t \in {Predefined, Described, Rle} :
        t[f] \subseteq Nat /\ (f # "ll" => 0 \notin t[f])
  BY ZstdAssumption, StageNames
<1>4. CASE SetTable(f, "PREDEFINED", Predefined[f]) \/ SetTable(f, "FSE_COMPRESSED", Described[f])
  BY <1>2, <1>3, <1>4, SetTableZ
<1>5. CASE \E v \in Rle[f] : SetTable(f, "RLE", {v})
  <2>1. PICK v \in Rle[f] : SetTable(f, "RLE", {v})
    BY <1>5
  <2>2. v \in Nat /\ {v} \in SUBSET Nat /\ (f # "ll" => 0 \notin {v})
    BY <1>3
  <2> QED
    BY <1>2, <2>1, <2>2, SetTableZ
<1>6. CASE fse_table[f] # NULL /\ SetTable(f, "REPEAT", NULL)
  <2>1. NULL \in SUBSET Nat /\ 0 \notin NULL
    BY DEF NULL
  <2> QED
    BY <1>2, <1>6, <2>1, SetTableZ
<1>7. CASE FailDamaged("CORRUPTED_DATA")
  BY <1>7, FailZ DEF FailDamaged, Fail, Errors
<1> QED
  BY <1>1, <1>4, <1>5, <1>6, <1>7 DEF ReadTable

LEMMA DecodeSequencesZ ==
  ASSUME ZInv, DecodeSequences
  PROVE  ZInv' /\ sequences' \in Seq(Coded)
<1>1. /\ stage = "decode" /\ stage' = "execute"
      /\ sequences' \in [1 .. sequence_len -> [ll : Values("ll"), ol : Values("ol"), ml : Values("ml")]]
      /\ UNCHANGED <<result, frame_buffer, offset_history, fse_table, rle, hf_literals, literals,
                     sequence_len, literals_ind, header, frames_cnt, blocks_cnt, meant, damaged>>
  BY DEF DecodeSequences
<1>2. Values("ll") \subseteq Nat /\ Values("ol") \subseteq Offset /\ Values("ml") \subseteq Offset
  BY <1>1, StageNames DEF ZInv, Tables, Agrees, Offset
<1>3. [ll : Values("ll"), ol : Values("ol"), ml : Values("ml")] \subseteq Coded
  BY <1>2 DEF Coded
<1>4. sequence_len \in Nat
  BY DEF ZInv, Data
<1>5. sequences' \in [1 .. sequence_len -> Coded]
  BY <1>1, <1>3
<1>6. sequences' \in Seq(Coded)
  BY <1>4, <1>5, SeqDef
<1>7. Data'
  BY <1>1, <1>6 DEF ZInv, Data, result, Stages
<1>8. Tables'
  BY <1>1 DEF ZInv, Tables, Agrees, Values
<1>9. Places'
  BY <1>1 DEF ZInv, Places, result, Errors
<1>10. Bounded'
  BY <1>1 DEF ZInv, Bounded, result
<1> QED
  BY <1>6, <1>7, <1>8, <1>9, <1>10 DEF ZInv

-----------------------------------------------------------------------------
(* The execution of the sequences.                                         *)

(* What is left of q after its first k, and the n that are next in it.     *)
LEMMA Rest ==
  ASSUME NEW S, NEW q \in Seq(S), NEW k \in 0 .. Len(q), NEW n \in Nat, k + n <= Len(q),
         NEW rest, rest = SubSeq(q, k + 1, Len(q))
  PROVE  /\ rest \in Seq(S) /\ Len(rest) = Len(q) - k
         /\ SubSeq(q, k + 1, k + n) \in Seq(S) /\ Len(SubSeq(q, k + 1, k + n)) = n
         /\ SubSeq(rest, 1, n) = SubSeq(q, k + 1, k + n)
         /\ SubSeq(rest, n + 1, Len(rest)) = SubSeq(q, k + n + 1, Len(q))
<1>1. Len(q) \in Nat /\ k \in Nat /\ \A i \in 1 .. Len(q) : q[i] \in S
  BY LenProperties, ElementOfSeq
<1>2. \A m \in 1 .. Len(q) + 1, e \in 0 .. Len(q) :
         /\ SubSeq(q, m, e) \in Seq(S)
         /\ Len(SubSeq(q, m, e)) = IF m <= e THEN e - m + 1 ELSE 0
         /\ \A i \in 1 .. e - m + 1 : SubSeq(q, m, e)[i] = q[m + i - 1]
  BY <1>1, SubSeqProperties
<1>3. rest \in Seq(S) /\ Len(rest) = Len(q) - k /\ \A i \in 1 .. Len(q) - k : rest[i] = q[k + i]
  BY <1>1, <1>2
<1>4. \A i \in 1 .. Len(rest) : rest[i] \in S
  BY <1>3, ElementOfSeq
<1>5. \A m \in 1 .. Len(rest) + 1, e \in 0 .. Len(rest) :
         /\ SubSeq(rest, m, e) \in Seq(S)
         /\ Len(SubSeq(rest, m, e)) = IF m <= e THEN e - m + 1 ELSE 0
         /\ \A i \in 1 .. e - m + 1 : SubSeq(rest, m, e)[i] = rest[m + i - 1]
  BY <1>1, <1>3, <1>4, SubSeqProperties
<1> DEFINE x == SubSeq(q, k + 1, k + n)
           y == SubSeq(rest, 1, n)
           u == SubSeq(q, k + n + 1, Len(q))
           v == SubSeq(rest, n + 1, Len(rest))
<1>6. x \in Seq(S) /\ Len(x) = n /\ \A i \in 1 .. n : x[i] = q[k + i]
  BY <1>1, <1>2
<1>7. y \in Seq(S) /\ Len(y) = n /\ \A i \in 1 .. n : y[i] = q[k + i]
  BY <1>1, <1>3, <1>5
<1>8. u \in Seq(S) /\ Len(u) = Len(q) - k - n /\ \A i \in 1 .. Len(q) - k - n : u[i] = q[k + n + i]
  BY <1>1, <1>2
<1>9. v \in Seq(S) /\ Len(v) = Len(q) - k - n /\ \A i \in 1 .. Len(q) - k - n : v[i] = q[k + n + i]
  BY <1>1, <1>3, <1>5
<1> HIDE DEF x, y, u, v
<1>10. x = y
  BY <1>6, <1>7, SeqEqual
<1>11. u = v
  BY <1>8, <1>9, SeqEqual
<1> QED
  BY <1>3, <1>6, <1>10, <1>11 DEF x, y, u, v

(* A turn of the loop that neither lacks literals nor an offset.           *)
ExecuteOne(s, l, offset) ==
  /\ stage = "execute" /\ sequences # <<>> /\ s = Head(sequences)
  /\ literals_ind + s.ll <= Len(literals)
  /\ l = SubSeq(literals, literals_ind + 1, literals_ind + s.ll)
  /\ offset = ActualOffset(offset_history, s.ol, s.ll)
  /\ ~NoSuchOffset(offset, Len(frame_buffer) + s.ll)
  /\ s.ll + s.ml <= Room
  /\ frame_buffer' = CopyMatch(frame_buffer \o l, offset, s.ml)
  /\ offset_history' = History(offset_history, s.ol, s.ll)
  /\ literals_ind' = literals_ind + s.ll
  /\ sequences' = Tail(sequences)
  /\ UNCHANGED <<stage, result, fse_table, rle, hf_literals, literals, sequence_len, header,
                 frames_cnt, blocks_cnt, meant, damaged>>

(* What it takes and gives, in the terms of the format.                    *)
LEMMA ExecuteOneFacts ==
  ASSUME ZInv, NEW s, NEW l, NEW offset, ExecuteOne(s, l, offset)
  PROVE  /\ s \in Coded /\ sequences' \in Seq(Coded)
         /\ l \in Seq(Bytes) /\ Len(l) = s.ll
         /\ offset = Format!Offset(offset_history, s.ll, s.ol)
         /\ offset \in 1 .. Len(frame_buffer) + s.ll
         /\ frame_buffer \o l \in Seq(Bytes)
         /\ frame_buffer' = (frame_buffer \o l) \o Format!Repeat(frame_buffer \o l, offset, s.ml)
         /\ frame_buffer' \in Seq(Bytes)
         /\ Len(frame_buffer') = Len(frame_buffer) + s.ll + s.ml
         /\ offset_history' = Format!Used(offset_history, s.ll, s.ol)
         /\ offset_history' \in Recent
<1>1. /\ frame_buffer \in Seq(Bytes) /\ literals \in Seq(Bytes) /\ sequences \in Seq(Coded)
      /\ offset_history \in Recent /\ literals_ind \in 0 .. Len(literals)
      /\ Len(frame_buffer) \in Nat /\ Len(literals) \in Nat
  BY LenProperties DEF ZInv, Data
<1>2. s \in Coded /\ sequences' \in Seq(Coded)
  BY <1>1, HeadTailProperties DEF ExecuteOne
<1>3. s.ll \in Nat /\ s.ol \in Offset /\ s.ml \in Offset /\ s.ml \in Nat
  BY <1>2 DEF Coded, Offset
<1>4. l \in Seq(Bytes) /\ Len(l) = s.ll
  <2>1. \A k \in 0 .. Len(literals), n \in Nat : k + n <= Len(literals) =>
           SubSeq(literals, k + 1, k + n) \in Seq(Bytes) /\ Len(SubSeq(literals, k + 1, k + n)) = n
    BY <1>1, Rest
  <2> QED
    BY <1>1, <1>3, <2>1 DEF ExecuteOne
<1>5. frame_buffer \o l \in Seq(Bytes) /\ Len(frame_buffer \o l) = Len(frame_buffer) + s.ll
  BY <1>1, <1>4, ConcatProperties
<1>6. offset = Format!Offset(offset_history, s.ll, s.ol) /\ offset \in Nat
  BY <1>1, <1>3, OffsetAgrees, ActualRange DEF ExecuteOne
<1>7. offset \in 1 .. Len(frame_buffer) + s.ll /\ offset = ActualOffset(offset_history, s.ol, s.ll)
  <2>1. ~NoSuchOffset(offset, Len(frame_buffer) + s.ll) /\ offset = ActualOffset(offset_history, s.ol, s.ll)
    BY DEF ExecuteOne
  <2>2. offset # 0 /\ ~(Len(frame_buffer) + s.ll < offset)
    BY <2>1 DEF NoSuchOffset
  <2>3. offset \in 1 .. Len(frame_buffer) + s.ll
    BY <1>1, <1>3, <1>6, <2>2
  <2> QED
    BY <2>1, <2>3
<1>8. /\ frame_buffer' = (frame_buffer \o l) \o Format!Repeat(frame_buffer \o l, offset, s.ml)
      /\ Format!Repeat(frame_buffer \o l, offset, s.ml) \in Seq(Bytes)
      /\ Len(Format!Repeat(frame_buffer \o l, offset, s.ml)) = s.ml
  <2> DEFINE b == frame_buffer \o l
             r == Format!Repeat(b, offset, s.ml)
  <2>1. b \in Seq(Bytes) /\ offset \in 1 .. Len(b) /\ s.ml \in Nat
    BY <1>3, <1>5, <1>7
  <2>2. r \in Seq(Bytes)
    BY <2>1, RepeatCopies
  <2>3. frame_buffer' = b \o r
    <3>1. frame_buffer' = CopyMatch(b, offset, s.ml)
      BY DEF ExecuteOne
    <3> HIDE DEF b, r
    <3>2. CopyMatch(b, offset, s.ml) = b \o r
      BY <2>1, CopyTheorem DEF r
    <3> QED
      BY <3>1, <3>2
  <2>4. DOMAIN r = 1 .. s.ml
    BY DEF Format!Repeat
  <2>5. Len(r) = s.ml
    <3> HIDE DEF r
    <3> QED
      BY <2>1, <2>2, <2>4, LenProperties
  <2> QED
    BY <2>2, <2>3, <2>5
<1>9. frame_buffer' \in Seq(Bytes) /\ Len(frame_buffer') = Len(frame_buffer) + s.ll + s.ml
  BY <1>5, <1>8, ConcatProperties
<1>10. offset_history' = Format!Used(offset_history, s.ll, s.ol) /\ offset_history' \in Recent
  <2>1. ActualOffset(offset_history, s.ol, s.ll) \in Offset
    BY <1>6, <1>7 DEF Offset
  <2>2. offset_history' = History(offset_history, s.ol, s.ll)
    BY DEF ExecuteOne
  <2> QED
    BY <1>1, <1>3, <2>1, <2>2, HistoryAgrees
<1> QED
  BY <1>2, <1>4, <1>5, <1>6, <1>7, <1>8, <1>9, <1>10

(* A sequence that is refused: too many literals or no such offset.        *)
LEMMA ExecuteCases ==
  ASSUME ZInv, ExecuteSequence
  PROVE  \/ FailDamaged("CORRUPTED_DATA")
         \/ \E s, l, offset : ExecuteOne(s, l, offset)
<1> DEFINE s == Head(sequences)
           l == SubSeq(literals, literals_ind + 1, literals_ind + s.ll)
           offset == ActualOffset(offset_history, s.ol, s.ll)
<1>1. /\ frame_buffer \in Seq(Bytes) /\ literals \in Seq(Bytes) /\ sequences \in Seq(Coded)
      /\ offset_history \in Recent /\ literals_ind \in 0 .. Len(literals)
      /\ Len(frame_buffer) \in Nat /\ Len(literals) \in Nat
  BY LenProperties DEF ZInv, Data
<1>2. stage = "execute" /\ sequences # <<>>
  BY DEF ExecuteSequence
<1>3. s \in Coded
  BY <1>1, <1>2, HeadTailProperties
<1>4. s.ll \in Nat /\ s.ol \in Offset
  BY <1>3 DEF Coded
<1>5. CASE literals_ind + s.ll > Len(literals)
  BY <1>5 DEF ExecuteSequence
<1>6. CASE ~(literals_ind + s.ll > Len(literals)) /\ NoSuchOffset(offset, Len(frame_buffer) + s.ll)
  <2>1. Fail("CORRUPTED_DATA") /\ damaged' = (damaged \/ ~Format!Allowed(frame_buffer, offset_history, s.ll, s.ol))
    BY <1>6 DEF ExecuteSequence
  <2>2. offset = Format!Offset(offset_history, s.ll, s.ol) /\ offset \in Nat
    BY <1>1, <1>4, OffsetAgrees, ActualRange
  <2>3. offset \notin 1 .. Len(frame_buffer) + s.ll
    BY <1>1, <1>4, <1>6, <2>2 DEF NoSuchOffset
  <2>4. ~Format!Allowed(frame_buffer, offset_history, s.ll, s.ol)
    BY <2>2, <2>3 DEF Format!Allowed
  <2>5. damaged' = TRUE
    BY <2>1, <2>4, Zenon
  <2> QED
    BY <2>1, <2>5 DEF FailDamaged
<1>7. CASE ~(literals_ind + s.ll > Len(literals)) /\ ~NoSuchOffset(offset, Len(frame_buffer) + s.ll)
  <2>1. literals_ind + s.ll <= Len(literals)
    BY <1>1, <1>4, <1>7
  <2>2. ExecuteOne(s, l, offset)
    BY <1>2, <1>7, <2>1 DEF ExecuteSequence, ExecuteOne
  <2> QED
    BY <2>2
<1> QED
  BY <1>5, <1>6, <1>7

LEMMA ExecuteSequenceZ == ASSUME ZInv, ExecuteSequence PROVE ZInv'
<1>1. CASE FailDamaged("CORRUPTED_DATA")
  BY <1>1, FailZ DEF FailDamaged, Fail, Errors
<1>2. ASSUME NEW s, NEW l, NEW offset, ExecuteOne(s, l, offset) PROVE ZInv'
  <2>1. /\ s \in Coded /\ sequences' \in Seq(Coded) /\ frame_buffer' \in Seq(Bytes)
        /\ offset \in 1 .. Len(frame_buffer) + s.ll
        /\ Len(frame_buffer') = Len(frame_buffer) + s.ll + s.ml
        /\ offset_history' \in Recent
    BY <1>2, ExecuteOneFacts
  <2>2. /\ stage = "execute" /\ offset = ActualOffset(offset_history, s.ol, s.ll)
        /\ literals_ind + s.ll <= Len(literals) /\ s.ll + s.ml <= Room
        /\ offset_history' = History(offset_history, s.ol, s.ll)
        /\ literals_ind' = literals_ind + s.ll
        /\ UNCHANGED <<stage, result, fse_table, rle, hf_literals, literals, sequence_len, header,
                       frames_cnt, blocks_cnt, meant, damaged>>
    BY <1>2 DEF ExecuteOne
  <2>3. /\ s.ll \in Nat /\ s.ml \in Nat /\ Len(decompressed) \in Nat /\ Len(frame_buffer) \in Nat
        /\ Len(literals) \in Nat /\ literals_ind \in 0 .. Len(literals) /\ MaxOutput \in Nat
        /\ decompressed' = decompressed
    BY <2>1, <2>2, LenProperties, ZstdAssumption DEF ZInv, Data, Coded, Offset, result
  <2>4. literals_ind' \in 0 .. Len(literals')
    BY <2>2, <2>3
  <2>5. Data'
    BY <2>1, <2>2, <2>4 DEF ZInv, Data, result
  <2>6. Tables'
    BY <2>2 DEF ZInv, Tables, Agrees, Values
  <2>7. Places'
    BY <2>2 DEF ZInv, Places, result, Errors
  <2>8. Len(decompressed') + Len(frame_buffer') <= MaxOutput
    <3>1. s.ll + s.ml <= MaxOutput - Len(decompressed) - Len(frame_buffer)
      BY <2>2 DEF Room
    <3> QED
      BY <2>1, <2>3, <3>1
  <2>9. \A i \in 1 .. 3 : offset_history'[i] <= MaxOutput + 11
    <3>1. offset_history \in Recent /\ \A i \in 1 .. 3 : offset_history[i] <= MaxOutput + 11
      BY DEF ZInv, Data, Bounded
    <3>2. offset <= MaxOutput
      <4>1. offset <= Len(frame_buffer')
        BY <2>1, <2>3
      <4> QED
        BY <2>1, <2>3, <2>8, <4>1
    <3>3. \/ offset_history' = <<offset, offset_history[1], offset_history[2]>>
          \/ offset_history' = <<offset, offset_history[1], offset_history[3]>>
          \/ offset_history' = offset_history
      BY <2>2 DEF History
    <3> QED
      BY <2>1, <2>3, <3>1, <3>2, <3>3
  <2>10. Bounded'
    BY <2>8, <2>9 DEF Bounded
  <2> QED
    BY <2>5, <2>6, <2>7, <2>10 DEF ZInv
<1> QED
  BY <1>1, <1>2, ExecuteCases

LEMMA ExecuteRestZ == ASSUME ZInv, ExecuteRest PROVE ZInv'
<1> DEFINE l == SubSeq(literals, literals_ind + 1, Len(literals))
<1>1. /\ stage = "execute" /\ sequences = <<>> /\ stage' \in {"checksum", "block"}
      /\ Len(literals) - literals_ind <= MaxOutput - Len(decompressed) - Len(frame_buffer)
      /\ frame_buffer' = frame_buffer \o l /\ literals_ind' = 0
      /\ UNCHANGED <<result, offset_history, fse_table, rle, hf_literals, literals, sequence_len, sequences,
                     header, frames_cnt, blocks_cnt, meant, damaged>>
  BY DEF ExecuteRest, BlockEnds, Room
<1>2. /\ frame_buffer \in Seq(Bytes) /\ literals \in Seq(Bytes) /\ literals_ind \in 0 .. Len(literals)
      /\ Len(frame_buffer) \in Nat /\ Len(literals) \in Nat /\ Len(decompressed) \in Nat
  BY LenProperties DEF ZInv, Data
<1>3. l \in Seq(Bytes) /\ Len(l) = Len(literals) - literals_ind
  <2>1. 0 \in Nat /\ literals_ind + 0 <= Len(literals)
    BY <1>2
  <2> QED
    BY <1>2, <2>1, Rest
<1> HIDE DEF l
<1>4. frame_buffer' \in Seq(Bytes) /\ Len(frame_buffer') = Len(frame_buffer) + Len(l)
  BY <1>1, <1>2, <1>3, ConcatProperties
<1>5. Data'
  BY <1>1, <1>2, <1>4 DEF ZInv, Data, result, Stages
<1>6. Tables'
  BY <1>1 DEF ZInv, Tables, Agrees, Values
<1>7. Places'
  BY <1>1, StageNames DEF ZInv, Places, result, Stages
<1>8. Bounded'
  <2>1. Len(decompressed') + Len(frame_buffer') <= MaxOutput
    <3>1. decompressed' = decompressed /\ MaxOutput \in Nat
      BY <1>1, ZstdAssumption DEF result
    <3> QED
      BY <1>1, <1>2, <1>3, <1>4, <3>1
  <2>2. \A i \in 1 .. 3 : offset_history'[i] <= MaxOutput + 11
    BY <1>1 DEF ZInv, Bounded
  <2> QED
    BY <2>1, <2>2 DEF Bounded
<1> QED
  BY <1>5, <1>6, <1>7, <1>8 DEF ZInv

LEMMA FinishFrameZ == ASSUME ZInv, FinishFrame PROVE ZInv'
<1>1. /\ stage = "checksum" /\ stage' = "next" /\ decompressed' = decompressed \o frame_buffer
      /\ NewWorkspace /\ UNCHANGED <<stream_live, cut, frames_cnt, blocks_cnt, damaged>>
  BY DEF FinishFrame
<1>2. /\ decompressed' \in Seq(Bytes) /\ Len(decompressed') = Len(decompressed) + Len(frame_buffer)
      /\ Len(decompressed) \in Nat /\ Len(frame_buffer) \in Nat
  BY <1>1, ConcatProperties, LenProperties DEF ZInv, Data
<1>3. Data'
  BY <1>1, <1>2, NewWorkspaceFacts, EmptyData DEF ZInv, Data, Stages
<1>4. Tables'
  BY <1>1, NewWorkspaceFacts, StageNames DEF Tables
<1>5. Places'
  BY <1>1, NewWorkspaceFacts DEF ZInv, Places, Errors
<1>6. Bounded'
  <2>1. MaxOutput \in Nat
    BY ZstdAssumption
  <2>2. \A i \in 1 .. 3 : offset_history'[i] <= MaxOutput + 11
    BY <1>1, <2>1, NewWorkspaceFacts DEF Recent, Offset
  <2>3. Len(decompressed') + Len(frame_buffer') <= MaxOutput
    BY <1>1, <1>2, NewWorkspaceFacts, EmptyData DEF ZInv, Bounded
  <2> QED
    BY <2>2, <2>3 DEF Bounded
<1> QED
  BY <1>3, <1>4, <1>5, <1>6 DEF ZInv

LEMMA ReturnZ == ASSUME ZInv, Return PROVE ZInv'
<1>1. /\ stage = "next"
      /\ \/ stage' = "done" /\ stream_live' = FALSE /\ damaged' = damaged
         \/ stage' = "DECOMPRESSED_SIZE_MISMATCH" /\ damaged' = TRUE /\ stream_live' = stream_live
      /\ UNCHANGED <<decompressed, workspace, header, frames_cnt, blocks_cnt, meant>>
  BY DEF Return
<1> USE DEF workspace
<1>2. Data'
  BY <1>1 DEF ZInv, Data, Errors
<1>3. Tables'
  BY <1>1 DEF ZInv, Tables, Agrees, Values
<1>4. Places'
  BY <1>1 DEF ZInv, Places, Errors
<1>5. Bounded'
  BY <1>1 DEF ZInv, Bounded
<1> QED
  BY <1>2, <1>3, <1>4, <1>5 DEF ZInv

LEMMA ZStep == ZInv /\ [Next]_vars => ZInv'
<1> SUFFICES ASSUME ZInv, [Next]_vars PROVE ZInv'
  OBVIOUS
<1>1. CASE UNCHANGED vars
  BY <1>1, StutterZ
<1>2. ASSUME NEW error \in Errors \ {"DECOMPRESSED_SIZE_MISMATCH"}, FailDamaged(error) PROVE ZInv'
  BY <1>2, FailZ DEF FailDamaged, Fail
<1>3. CASE StartFrame
  BY <1>3, GoOn, StageNames DEF StartFrame, workspace, Stages, ZInv, Data
<1>4. CASE SkippableFrame
  BY <1>4, GoOn, StageNames DEF SkippableFrame, workspace, Stages, ZInv, Data
<1>5. CASE BadFrame
  BY <1>2, <1>5 DEF BadFrame, Errors
<1>6. CASE PlainBlock
  BY <1>6, PlainBlockZ
<1>7. CASE CompressedBlock
  <2>1. blocks_cnt' \in 0 .. MaxBlocks
    BY <1>7, ZstdAssumption DEF CompressedBlock, StartBlock, ZInv, Data
  <2>2. stage = "block" /\ stage' = "literals" /\ UNCHANGED <<result, workspace, meant, damaged>>
    BY <1>7 DEF CompressedBlock, StartBlock
  <2> QED
    BY <2>1, <2>2, GoOn, StageNames DEF workspace, Stages, ZInv, Data
<1>8. CASE ReservedBlock
  BY <1>2, <1>8 DEF ReservedBlock, Errors
<1>9. CASE ParseLiterals \/ ShortStream
  BY <1>9, ParseLiteralsZ
<1>10. CASE ParseSequencesHeader
  <2>1. /\ stage = "sequences" /\ stage' \in {"execute", "ll"} /\ sequence_len' \in Nat
        /\ blocks_cnt' \in 0 .. MaxBlocks
        /\ UNCHANGED <<result, frame_buffer, offset_history, fse_table, rle, hf_literals, literals,
                       sequences, literals_ind, meant, damaged>>
    BY <1>10, ZstdAssumption DEF ParseSequencesHeader, ZInv, Data
  <2> QED
    BY <2>1, GoOn, StageNames DEF Stages
<1>11. CASE BadSequencesHeader
  BY <1>2, <1>11 DEF BadSequencesHeader, Errors
<1>12. CASE ReadTables
  BY <1>12, ReadTableZ
<1>13. CASE BadTable
  BY <1>2, <1>13 DEF BadTable, Errors
<1>14. CASE DecodeSequences
  BY <1>14, DecodeSequencesZ
<1>15. CASE BadSequences
  BY <1>2, <1>15 DEF BadSequences, Errors
<1>16. CASE ExecuteSequence
  BY <1>16, ExecuteSequenceZ
<1>17. CASE ExecuteRest
  BY <1>17, ExecuteRestZ
<1>18. CASE FinishFrame
  BY <1>18, FinishFrameZ
<1>19. CASE ChecksumFail
  BY <1>2, <1>19 DEF ChecksumFail, Errors
<1>20. CASE NextFrame
  BY <1>20, GoOn, StageNames DEF NextFrame, workspace, Stages, ZInv, Data
<1>21. CASE Return
  BY <1>21, ReturnZ
<1>22. CASE Truncated
  BY <1>22, FailZ DEF Truncated, Errors
<1> QED
  BY <1>1, <1>3, <1>4, <1>5, <1>6, <1>7, <1>8, <1>9, <1>10, <1>11, <1>12, <1>13, <1>14, <1>15, <1>16,
     <1>17, <1>18, <1>19, <1>20, <1>21, <1>22 DEF Next

-----------------------------------------------------------------------------
(* The tables that are allocated are those that the workspace points to,   *)
(* up to the return that a stream cut short brings about.                  *)
Heap ==
  /\ cut # "checksum" => live = Pointed
  /\ cut # "streams" => twice = {}
  /\ cut # "none" => stage \in Errors

LEMMA TablesAllocated ==
  /\ Bytes # {}
  /\ \A f \in Fields : Predefined[f] # {} /\ Described[f] # {}
<1>1. MaxBlocks \in Nat /\ MaxRead \in Nat /\ MaxRead # 0
  BY ZstdAssumption
<1>2. PICK p \in Nat : p = MaxBlocks * MaxRead
  BY <1>1, ProductNat
<1>3. (MaxBlocks + 1) * MaxRead = p + MaxRead
  BY <1>1, <1>2
<1>4. 1 \in Bytes
  BY <1>1, <1>2, <1>3 DEF Bytes
<1> QED
  BY <1>4, ZstdAssumption

LEMMA InitHeap == Init => Heap
BY DEF Init, Heap, Pointed, NoTables

(* A way back that frees what is pointed to.                               *)
LEMMA FreedHeap ==
  ASSUME Heap, stage \notin Errors, NewWorkspace, Deallocate(Pointed, live),
         cut' # "none" => stage' \in Errors
  PROVE  Heap'
<1>1. live = Pointed /\ twice = {}
  BY DEF Heap
<1>2. live' = {} /\ twice' = {}
  BY <1>1 DEF Deallocate
<1>3. Pointed' = {}
  BY NewWorkspaceFacts DEF Pointed
<1> QED
  BY <1>2, <1>3 DEF Heap

LEMMA FailHeap ==
  ASSUME Heap, stage \notin Errors, NEW error \in Errors, Fail(error)
  PROVE  Heap'
BY FreedHeap DEF Fail, Refuse, Heap

LEMMA TruncatedHeap == ASSUME Heap, Truncated PROVE Heap'
<1>1. stage \notin Errors /\ stage' \in Errors
  BY StageNames DEF Truncated, Refuse, Errors, Stages
<1>2. NewWorkspace
  BY DEF Truncated, Refuse
<1>3. Pointed' = {}
  BY <1>2, NewWorkspaceFacts DEF Pointed
<1>4. CASE Deallocate(Pointed, live)
  BY <1>1, <1>2, <1>4, FreedHeap
<1>5. CASE Deallocate(Pointed \cup {"hf"}, live \ {"hf"}) /\ cut' = "streams"
  <2>1. live = Pointed
    BY <1>1 DEF Heap
  <2>2. live' = {}
    BY <1>5, <2>1 DEF Deallocate
  <2> QED
    BY <1>1, <1>3, <1>5, <2>2 DEF Heap
<1>6. CASE UNCHANGED <<live, twice>> /\ cut' = "checksum"
  BY <1>1, <1>6 DEF Heap
<1> QED
  BY <1>4, <1>5, <1>6 DEF Truncated

(* The steps that set a table, or leave them all.                          *)
LEMMA TableHeap ==
  ASSUME Heap, stage \notin Errors, UNCHANGED <<twice, cut>>, UNCHANGED hf_literals,
         \/ UNCHANGED <<fse_table, live>>
         \/ \E f \in Fields : \E table :
              /\ table # {} /\ live' = live \cup {f}
              /\ fse_table' = [fse_table EXCEPT ![f] = table],
         fse_table \in [Fields -> SUBSET Nat]
  PROVE  Heap'
<1>1. live = Pointed /\ twice = {} /\ cut = "none"
  BY DEF Heap
<1>2. live' = Pointed'
  <2>1. CASE UNCHANGED <<fse_table, live>>
    BY <1>1, <2>1 DEF Pointed
  <2>2. ASSUME NEW f \in Fields, NEW table, table # {}, live' = live \cup {f},
               fse_table' = [fse_table EXCEPT ![f] = table]
        PROVE  live' = Pointed'
    BY <1>1, <2>2 DEF Pointed, NULL
  <2> QED
    BY <2>1, <2>2
<1> QED
  BY <1>1, <1>2 DEF Heap

LEMMA LiteralsHeap == ASSUME Heap, ParseLiterals \/ ShortStream PROVE Heap'
<1>1. stage \notin Errors
  BY StageNames DEF ParseLiterals, ShortStream, Errors, Stages
<1>2. live = Pointed /\ twice = {} /\ cut = "none"
  BY <1>1 DEF Heap
<1>3. CASE FailDamaged("CORRUPTED_DATA")
  BY <1>1, <1>3, FailHeap DEF FailDamaged, Errors
<1>4. CASE UNCHANGED <<twice, cut, hf_literals, fse_table, live>>
  BY <1>2, <1>4 DEF Heap, Pointed
<1>5. CASE hf_literals' = Bytes /\ live' = live \cup {"hf"} /\ UNCHANGED <<twice, cut, fse_table>>
  BY <1>2, <1>5, TablesAllocated DEF Heap, Pointed, NULL
<1>6. CASE hf_literals' = NULL /\ live' = live \ {"hf"} /\ UNCHANGED <<twice, cut, fse_table>>
  BY <1>2, <1>6, StageNames DEF Heap, Pointed
<1> QED
  BY <1>3, <1>4, <1>5, <1>6 DEF ParseLiterals, ShortStream, result

LEMMA HeapStep == ZInv /\ Heap /\ [Next]_vars => Heap'
<1> SUFFICES ASSUME ZInv, Heap, [Next]_vars PROVE Heap'
  OBVIOUS
<1>1. ASSUME UNCHANGED <<twice, cut, hf_literals, fse_table, live>>,
             stage \notin Errors \/ UNCHANGED stage
      PROVE  Heap'
  BY <1>1 DEF Heap, Pointed
<1>2. CASE UNCHANGED vars
  BY <1>1, <1>2 DEF vars, result, workspace
<1>3. ASSUME NEW error \in Errors, Fail(error), stage \in Stages \cup Fields PROVE Heap'
  BY <1>3, FailHeap, StageNames
<1>4. CASE BadFrame \/ ReservedBlock \/ BadSequencesHeader \/ BadTable \/ BadSequences \/ ChecksumFail
  BY <1>3, <1>4 DEF BadFrame, ReservedBlock, BadSequencesHeader, BadTable, BadSequences, ChecksumFail,
                    FailDamaged, Errors, Stages
<1>5. CASE StartFrame \/ SkippableFrame \/ CompressedBlock \/ NextFrame \/ Return
  BY <1>1, <1>5, StageNames DEF StartFrame, SkippableFrame, CompressedBlock, StartBlock, NextFrame,
                    Return, result, workspace, Stages
<1>6. CASE PlainBlock \/ ParseSequencesHeader \/ DecodeSequences \/ ExecuteRest
  BY <1>1, <1>6, StageNames DEF PlainBlock, StartBlock, ParseSequencesHeader, DecodeSequences,
                    ExecuteRest, result, Stages
<1>7. CASE ParseLiterals \/ ShortStream
  BY <1>7, LiteralsHeap
<1>8. CASE ReadTables
  <2>1. PICK f \in Fields : ReadTable(f)
    BY <1>8 DEF ReadTables
  <2>2. stage = f /\ stage \notin Errors
    BY <2>1, StageNames DEF ReadTable
  <2>3. CASE FailDamaged("CORRUPTED_DATA")
    BY <1>3, <2>2, <2>3 DEF FailDamaged, Errors
  <2>4. ASSUME NEW mode, NEW table, SetTable(f, mode, table),
               mode \in {"PREDEFINED", "FSE_COMPRESSED"} => table # {}
        PROVE  Heap'
    <3>1. fse_table \in [Fields -> SUBSET Nat]
      BY DEF ZInv, Tables
    <3>2. /\ UNCHANGED <<twice, cut, hf_literals>>
          /\ \/ UNCHANGED <<fse_table, live>>
             \/ /\ table # {} /\ live' = live \cup {f}
                /\ fse_table' = [fse_table EXCEPT ![f] = table]
      BY <2>4 DEF SetTable, result
    <3> QED
      BY <2>2, <3>1, <3>2, TableHeap
  <2> QED
    BY <2>1, <2>3, <2>4, TablesAllocated DEF ReadTable
<1>9. CASE ExecuteSequence
  <2>1. stage \in Stages
    BY <1>9 DEF ExecuteSequence, Stages
  <2>2. CASE Fail("CORRUPTED_DATA")
    BY <1>3, <2>1, <2>2 DEF Errors
  <2>3. CASE UNCHANGED <<stage, result, fse_table, hf_literals, live>>
    BY <1>1, <2>3 DEF result
  <2> QED
    BY <1>9, <2>2, <2>3 DEF ExecuteSequence, FailDamaged
<1>10. CASE FinishFrame
  <2>1. stage \notin Errors /\ cut = "none"
    BY <1>10, StageNames DEF FinishFrame, Stages, Heap
  <2> QED
    BY <1>10, <2>1, FreedHeap DEF FinishFrame
<1>11. CASE Truncated
  BY <1>11, TruncatedHeap
<1> QED
  BY <1>2, <1>4, <1>5, <1>6, <1>7, <1>8, <1>9, <1>10, <1>11 DEF Next

-----------------------------------------------------------------------------
(* What follows from it.                                                   *)

(* In every state the workspace has its type, and whatever the outcome its *)
(* tables are freed, once, but where the stream ends in coded literals or  *)
(* at the checksum.                                                        *)
THEOREM TypeTheorem == Spec => []TypeOK
<1>1. ZInv /\ Heap => TypeOK
  <2> SUFFICES ASSUME ZInv, Heap PROVE TypeOK
    OBVIOUS
  <2>1. offset_history \in [1 .. 3 -> 0 .. MaxOutput + 3 + 8]
    <3>1. PICK a \in Offset, b \in Offset, c \in Offset : offset_history = <<a, b, c>>
      BY DEF ZInv, Data, Recent
    <3>2. a <= MaxOutput + 11 /\ b <= MaxOutput + 11 /\ c <= MaxOutput + 11
      BY <3>1 DEF ZInv, Bounded
    <3>3. MaxOutput \in Nat
      BY ZstdAssumption
    <3> QED
      BY <3>1, <3>2, <3>3 DEF Offset
  <2>2. stage = "execute" => literals_ind <= Len(literals)
    BY LenProperties DEF ZInv, Data
  <2>3. stage \in {"done", "next"} \cup Errors => sequences = <<>>
    BY DEF ZInv, Places, Errors
  <2> QED
    BY <2>1, <2>2, <2>3 DEF ZInv, Data, Places, Heap, TypeOK
<1> QED
  BY <1>1, InitZ, ZStep, InitHeap, HeapStep, PTL DEF Spec

(* Before sequences are decoded every field has the table that the format  *)
(* says, through all the ways to set and to repeat tables.                 *)
THEOREM TablesTheorem == Spec => []TablesAgree
<1>1. ZInv => TablesAgree
  BY StageNames DEF ZInv, Tables, Agrees, TablesAgree
<1> QED
  BY <1>1, InitZ, ZStep, PTL DEF Spec

(* zstd_inflate refuses no stream that keeps to the format.                *)
THEOREM NoneRefusedTheorem == Spec => []NoneRefused
<1>1. ZInv => NoneRefused
  BY DEF ZInv, Places, NoneRefused
<1> QED
  BY <1>1, InitZ, ZStep, PTL DEF Spec

-----------------------------------------------------------------------------
(* zstd_inflate implements the format: every step is one of ZstdFormat, or *)
(* changes nothing that it speaks of.                                      *)
Finished == IF stage = "DECOMPRESSED_SIZE_MISMATCH" THEN <<>> ELSE decompressed
Unused == IF stage \in InBlock THEN SubSeq(literals, literals_ind + 1, Len(literals)) ELSE <<>>
Verdict == IF stage \in Errors THEN "refused" ELSE IF stage = "done" THEN "done" ELSE "open"

LEMMA InitImplements == Init => Format!Init
BY DEF Init, Format!Init, Errors, InBlock, Fields

LEMMA RefuseImplements ==
  ASSUME NEW error \in Errors \ {"DECOMPRESSED_SIZE_MISMATCH"}, Refuse(error),
         stage \notin Errors \cup {"done"}
  PROVE  Format!Refuse
<1>1. stage' = error /\ decompressed' = <<>> /\ NewWorkspace
  BY DEF Refuse
<1>2. Verdict = "open" /\ Verdict' = "refused" /\ Finished' = <<>> /\ Unused' = <<>>
  BY <1>1, StageNames DEF Verdict, Finished, Unused, InBlock, Errors
<1> QED
  BY <1>1, <1>2, NewWorkspaceFacts DEF Format!Refuse, Verdict, Finished, Unused

(* A step that only goes on to another stage.                              *)
LEMMA StutterImplements ==
  ASSUME stage \notin Errors \cup {"done"}, stage' \notin Errors \cup {"done"},
         (stage \in InBlock) <=> (stage' \in InBlock),
         UNCHANGED <<decompressed, frame_buffer, literals, literals_ind, sequences, offset_history>>
  PROVE  UNCHANGED Format!vars
<1>1. "DECOMPRESSED_SIZE_MISMATCH" \in Errors
  BY DEF Errors
<1>2. Verdict' = Verdict /\ Finished' = Finished /\ Unused' = Unused
  BY <1>1 DEF Verdict, Finished, Unused
<1> QED
  BY <1>2 DEF Format!vars, Format!block, Verdict, Finished, Unused

(* The format's fields while the verdict is open.                          *)
LEMMA Open ==
  ASSUME stage \notin Errors \cup {"done"}
  PROVE  Verdict = "open" /\ Finished = decompressed
BY DEF Verdict, Finished, Errors

LEMMA PlainImplements == ASSUME ZInv, PlainBlock PROVE Format!PlainBytes
<1>1. /\ stage = "block" /\ stage' \in {"block", "checksum"}
      /\ UNCHANGED <<decompressed, offset_history, sequences>>
      /\ blocks_cnt < MaxBlocks
  BY DEF PlainBlock, StartBlock, BlockEnds, result
<1>2. PICK d \in Seq(Bytes) : frame_buffer' = frame_buffer \o d
  <2>1. PICK n \in Lengths : \/ frame_buffer' = frame_buffer \o Read(n)
                            \/ (n > 0 /\ frame_buffer' = frame_buffer \o [i \in 1 .. n |-> Read(1)[1]])
    BY DEF PlainBlock, BlockEnds
  <2> QED
    BY <1>1, <2>1, ReadType
<1>3. frame_buffer \in Seq(Bytes) /\ frame_buffer' \in Seq(Bytes)
      /\ Format!IsPrefix(frame_buffer, frame_buffer')
  <2>1. frame_buffer \in Seq(Bytes) /\ Len(frame_buffer) \in Nat /\ Len(d) \in Nat
    BY LenProperties DEF ZInv, Data
  <2>2. /\ frame_buffer' \in Seq(Bytes) /\ Len(frame_buffer') = Len(frame_buffer) + Len(d)
        /\ \A i \in 1 .. Len(frame_buffer) : frame_buffer'[i] = frame_buffer[i]
    BY <1>2, <2>1, ConcatProperties
  <2> DEFINE p == SubSeq(frame_buffer, 1, Len(frame_buffer))
             q == SubSeq(frame_buffer', 1, Len(frame_buffer))
  <2>3. p = frame_buffer
    BY <2>1, SubSeqFull
  <2>4. \A i \in 1 .. Len(frame_buffer) : frame_buffer'[i] \in Bytes
    BY <2>1, <2>2, ElementOfSeq
  <2>5. /\ q \in Seq(Bytes) /\ Len(q) = Len(frame_buffer)
        /\ \A i \in 1 .. Len(frame_buffer) : q[i] = frame_buffer'[i]
    <3>1. \A i \in 1 .. Len(frame_buffer) : 1 + i - 1 = i
      BY <2>1
    <3> QED
      BY <2>1, <2>4, <3>1, SubSeqProperties
  <2> HIDE DEF p, q
  <2>6. q = frame_buffer
    BY <2>1, <2>2, <2>5, SeqEqual
  <2> QED
    BY <2>1, <2>2, <2>3, <2>6 DEF Format!IsPrefix, p, q
<1>4. stage \notin Errors \cup {"done"} /\ stage' \notin Errors \cup {"done"} /\ stage \notin InBlock
      /\ stage' \notin InBlock
  BY <1>1, StageNames DEF Errors, InBlock
<1>5. /\ Verdict = "open" /\ Verdict' = "open" /\ Finished' = Finished
      /\ Unused = <<>> /\ Unused' = <<>> /\ sequences = <<>>
  BY <1>1, <1>4 DEF Verdict, Finished, Unused, Errors, ZInv, Places
<1> QED
  BY <1>1, <1>3, <1>5 DEF Format!PlainBytes, Format!BetweenBlocks, Format!block, Verdict, Finished, Unused

LEMMA LiteralsImplement ==
  ASSUME ZInv, ParseLiterals \/ ShortStream PROVE Format!ReadLiterals \/ Format!Refuse
<1>1. stage = "literals" /\ stage \notin Errors \cup {"done"} /\ stage \notin InBlock
  BY StageNames DEF ParseLiterals, ShortStream, Errors, InBlock
<1>2. CASE FailDamaged("CORRUPTED_DATA")
  BY <1>1, <1>2, RefuseImplements DEF FailDamaged, Fail, Errors
<1>3. CASE /\ stage' = "sequences"
           /\ UNCHANGED <<decompressed, frame_buffer, offset_history, sequences, literals_ind>>
  <2>1. ZInv'
    BY ParseLiteralsZ
  <2>2. literals' \in Seq(Bytes) /\ literals_ind' = 0
    BY <1>3, <2>1 DEF ZInv, Data, Places
  <2>3. Unused' = literals'
    <3>1. Unused' = SubSeq(literals', 0 + 1, Len(literals'))
      BY <1>3, <2>2 DEF Unused, InBlock
    <3> QED
      BY <2>2, <3>1, SubSeqFull
  <2>4. /\ Verdict = "open" /\ Verdict' = "open" /\ Finished' = Finished
        /\ Unused = <<>> /\ sequences = <<>>
    BY <1>1, <1>3 DEF Verdict, Finished, Unused, Errors, ZInv, Places
  <2>5. Unused' \in Seq(Bytes)
    BY <2>2, <2>3
  <2> QED
    BY <1>3, <2>4, <2>5 DEF Format!ReadLiterals, Format!BetweenBlocks, Verdict, Finished, Unused
<1> QED
  BY <1>2, <1>3 DEF ParseLiterals, ShortStream, result

LEMMA SequencesImplement == ASSUME ZInv, DecodeSequences PROVE Format!ReadSequences
<1>1. /\ stage = "decode" /\ stage' = "execute"
      /\ UNCHANGED <<decompressed, frame_buffer, offset_history, literals, literals_ind>>
  BY DEF DecodeSequences, result
<1>2. /\ Verdict = "open" /\ Verdict' = "open" /\ Finished' = Finished /\ Unused' = Unused
      /\ sequences = <<>>
  BY <1>1 DEF Verdict, Finished, Unused, Errors, InBlock, ZInv, Places
<1>3. sequences' \in Seq([ll : Nat, ol : Nat \ {0}, ml : Nat \ {0}])
  BY DecodeSequencesZ DEF Coded, Offset
<1> QED
  BY <1>1, <1>2, <1>3 DEF Format!ReadSequences, Verdict, Finished, Unused

LEMMA SequenceImplements ==
  ASSUME ZInv, NEW s, NEW l, NEW offset, ExecuteOne(s, l, offset)
  PROVE  Format!Sequence
<1>1. /\ stage = "execute" /\ stage' = stage /\ sequences # <<>> /\ s = Head(sequences)
      /\ sequences' = Tail(sequences) /\ literals_ind + s.ll <= Len(literals)
      /\ l = SubSeq(literals, literals_ind + 1, literals_ind + s.ll)
      /\ literals_ind' = literals_ind + s.ll /\ literals' = literals /\ decompressed' = decompressed
  BY DEF ExecuteOne, result
<1>2. literals \in Seq(Bytes) /\ literals_ind \in 0 .. Len(literals) /\ Len(literals) \in Nat
  BY LenProperties DEF ZInv, Data
<1>3. s.ll \in Nat
  BY ExecuteOneFacts DEF Coded
<1>4. /\ Verdict = "open" /\ Verdict' = "open" /\ Finished' = Finished
      /\ Unused = SubSeq(literals, literals_ind + 1, Len(literals))
      /\ Unused' = SubSeq(literals', literals_ind' + 1, Len(literals'))
  BY <1>1 DEF Verdict, Finished, Unused, Errors, InBlock
<1>5. /\ s.ll <= Len(Unused) /\ l = SubSeq(Unused, 1, s.ll)
      /\ Unused' = SubSeq(Unused, s.ll + 1, Len(Unused))
  <2>1. /\ Len(Unused) = Len(literals) - literals_ind
        /\ SubSeq(Unused, 1, s.ll) = SubSeq(literals, literals_ind + 1, literals_ind + s.ll)
        /\ SubSeq(Unused, s.ll + 1, Len(Unused)) = SubSeq(literals, literals_ind + s.ll + 1, Len(literals))
    <3>1. PICK r : r = Unused
      OBVIOUS
    <3>2. r = SubSeq(literals, literals_ind + 1, Len(literals))
      BY <1>4, <3>1
    <3>3. PICK n \in Nat : n = s.ll
      BY <1>3
    <3>4. literals_ind + n <= Len(literals)
      BY <1>1, <3>3
    <3>5. /\ Len(r) = Len(literals) - literals_ind
          /\ SubSeq(r, 1, n) = SubSeq(literals, literals_ind + 1, literals_ind + n)
          /\ SubSeq(r, n + 1, Len(r)) = SubSeq(literals, literals_ind + n + 1, Len(literals))
      BY <1>2, <3>2, <3>4, Rest
    <3> QED
      BY <3>1, <3>3, <3>5
  <2>2. s.ll <= Len(Unused)
    BY <1>1, <1>2, <1>3, <2>1
  <2> QED
    BY <1>1, <1>4, <2>1, <2>2
<1>6. /\ frame_buffer' = (frame_buffer \o l) \o Format!Repeat(frame_buffer \o l, offset, s.ml)
      /\ offset = Format!Offset(offset_history, s.ll, s.ol)
      /\ offset_history' = Format!Used(offset_history, s.ll, s.ol)
  BY ExecuteOneFacts
<1>7. Format!Allowed(frame_buffer, offset_history, s.ll, s.ol)
  BY ExecuteOneFacts DEF Format!Allowed
<1> QED
  BY <1>1, <1>4, <1>5, <1>6, <1>7, Zenon DEF Format!Sequence, Verdict, Finished, Unused

LEMMA RestImplements == ASSUME ZInv, ExecuteRest PROVE Format!LastLiterals
<1>1. /\ stage = "execute" /\ stage' \in {"block", "checksum"} /\ sequences = <<>>
      /\ frame_buffer' = frame_buffer \o SubSeq(literals, literals_ind + 1, Len(literals))
      /\ UNCHANGED <<decompressed, offset_history, sequences>>
  BY DEF ExecuteRest, BlockEnds, result
<1>2. /\ Verdict = "open" /\ Verdict' = "open" /\ Finished' = Finished /\ Unused' = <<>>
      /\ Unused = SubSeq(literals, literals_ind + 1, Len(literals))
  BY <1>1, StageNames DEF Verdict, Finished, Unused, Errors, InBlock
<1> QED
  BY <1>1, <1>2 DEF Format!LastLiterals, Verdict, Finished, Unused

LEMMA FinishImplements == ASSUME ZInv, FinishFrame PROVE Format!FinishFrame
<1>1. /\ stage = "checksum" /\ stage' = "next" /\ decompressed' = decompressed \o frame_buffer
      /\ frame_buffer' = <<>> /\ offset_history' = <<1, 4, 8>> /\ sequences' = <<>> /\ sequences = <<>>
  BY DEF FinishFrame, NewWorkspace, ZInv, Places
<1>2. /\ Verdict = "open" /\ Verdict' = "open" /\ Unused = <<>> /\ Unused' = <<>>
      /\ Finished = decompressed /\ Finished' = decompressed'
  BY <1>1, StageNames DEF Verdict, Finished, Unused, Errors, InBlock
<1> QED
  BY <1>1, <1>2 DEF Format!FinishFrame, Format!BetweenBlocks, Format!block, Verdict, Finished, Unused

LEMMA ReturnImplements == ASSUME ZInv, Return PROVE Format!Accept \/ Format!Refuse
<1>1. /\ stage = "next" /\ frame_buffer = <<>> /\ sequences = <<>> /\ offset_history = <<1, 4, 8>>
      /\ UNCHANGED <<decompressed, frame_buffer, sequences, offset_history>>
  BY DEF Return, workspace, ZInv, Places
<1>2. stage' \in {"done", "DECOMPRESSED_SIZE_MISMATCH"}
  BY DEF Return
<1>3. Verdict = "open" /\ Unused = <<>> /\ Unused' = <<>> /\ Finished = decompressed
  BY <1>1, <1>2, StageNames DEF Verdict, Finished, Unused, Errors, InBlock
<1>4. CASE stage' = "done"
  <2>1. Verdict' = "done" /\ Finished' = decompressed
    BY <1>1, <1>4 DEF Verdict, Finished, Errors
  <2> QED
    BY <1>1, <1>3, <2>1 DEF Format!Accept, Format!BetweenBlocks, Format!block, Verdict, Finished, Unused
<1>5. CASE stage' = "DECOMPRESSED_SIZE_MISMATCH"
  <2>1. Verdict' = "refused" /\ Finished' = <<>>
    BY <1>5 DEF Verdict, Finished, Errors
  <2> QED
    BY <1>1, <1>3, <2>1 DEF Format!Refuse, Verdict, Finished, Unused
<1> QED
  BY <1>2, <1>4, <1>5

LEMMA StepImplements == ZInv /\ [Next]_vars => [Format!Next]_(Format!vars)
<1> SUFFICES ASSUME ZInv, [Next]_vars PROVE Format!Next \/ UNCHANGED Format!vars
  OBVIOUS
<1>1. CASE UNCHANGED vars
  <2>1. UNCHANGED <<stage, decompressed, frame_buffer, literals, literals_ind, sequences, offset_history>>
    BY <1>1 DEF vars, result, workspace
  <2>2. Verdict' = Verdict /\ Finished' = Finished /\ Unused' = Unused
    BY <2>1 DEF Verdict, Finished, Unused
  <2> QED
    BY <2>1, <2>2 DEF Format!vars, Format!block, Verdict, Finished, Unused
<1>2. ASSUME NEW error \in Errors \ {"DECOMPRESSED_SIZE_MISMATCH"}, FailDamaged(error),
             stage \in Stages \cup Fields
      PROVE  Format!Next
  BY <1>2, RefuseImplements, StageNames DEF FailDamaged, Fail, Format!Next, Errors, Stages
<1>3. ASSUME stage \in Stages \cup Fields, stage' \in Stages \cup Fields,
             (stage \in InBlock) <=> (stage' \in InBlock),
             UNCHANGED <<decompressed, frame_buffer, literals, literals_ind, sequences, offset_history>>
      PROVE  UNCHANGED Format!vars
  BY <1>3, StutterImplements, StageNames DEF Errors, Stages
<1> USE StageNames DEF Stages, InBlock, result, workspace
<1>4. CASE StartFrame \/ SkippableFrame \/ CompressedBlock \/ NextFrame
  BY <1>3, <1>4 DEF StartFrame, SkippableFrame, CompressedBlock, StartBlock, NextFrame
<1>5. CASE ParseSequencesHeader
  BY <1>3, <1>5 DEF ParseSequencesHeader
<1>6. CASE BadFrame \/ ReservedBlock \/ BadSequencesHeader \/ BadTable \/ BadSequences
           \/ ChecksumFail
  BY <1>2, <1>6 DEF BadFrame, ReservedBlock, BadSequencesHeader, BadTable, BadSequences, ChecksumFail,
                    Errors
<1>7. CASE ReadTables
  <2>1. PICK f \in Fields : ReadTable(f)
    BY <1>7 DEF ReadTables
  <2>2. stage = f
    BY <2>1 DEF ReadTable
  <2>3. CASE FailDamaged("CORRUPTED_DATA")
    BY <1>2, <2>2, <2>3 DEF Errors
  <2>4. CASE \E mode, table : SetTable(f, mode, table)
    <3>1. /\ stage' = AfterField[f]
          /\ UNCHANGED <<decompressed, frame_buffer, literals, literals_ind, sequences, offset_history>>
      BY <2>4 DEF SetTable
    <3>2. stage' \in {"ol", "ml", "decode"}
      BY <3>1 DEF AfterField
    <3> QED
      BY <1>3, <2>2, <3>1, <3>2
  <2> QED
    BY <2>1, <2>3, <2>4 DEF ReadTable
<1>8. CASE PlainBlock
  BY <1>8, PlainImplements DEF Format!Next
<1>9. CASE ParseLiterals \/ ShortStream
  BY <1>9, LiteralsImplement DEF Format!Next
<1>10. CASE DecodeSequences
  BY <1>10, SequencesImplement DEF Format!Next
<1>11. CASE ExecuteSequence
  <2>1. stage \in Stages
    BY <1>11 DEF ExecuteSequence
  <2>2. CASE FailDamaged("CORRUPTED_DATA")
    BY <1>2, <2>1, <2>2 DEF Errors
  <2>3. CASE \E s, l, offset : ExecuteOne(s, l, offset)
    BY <2>3, SequenceImplements DEF Format!Next
  <2> QED
    BY <1>11, <2>2, <2>3, ExecuteCases
<1>12. CASE ExecuteRest
  BY <1>12, RestImplements DEF Format!Next
<1>13. CASE FinishFrame
  BY <1>13, FinishImplements DEF Format!Next
<1>14. CASE Return
  BY <1>14, ReturnImplements DEF Format!Next
<1>15. CASE Truncated
  <2>1. stage \in Stages \cup Fields
    BY <1>15 DEF Truncated
  <2>2. PICK error \in {"IO_ERROR", "CORRUPTED_DATA", "ABORTED"} : Refuse(error)
    BY <1>15 DEF Truncated
  <2> QED
    BY <2>1, <2>2, RefuseImplements DEF Format!Next, Errors
<1> QED
  BY <1>1, <1>4, <1>5, <1>6, <1>7, <1>8, <1>9, <1>10, <1>11, <1>12, <1>13, <1>14, <1>15 DEF Next

(* zstd_inflate decodes what the format says: literals and repetitions     *)
(* grow the output with the recent offsets of the frame, and a refusal     *)
(* leaves nothing of it.                                                   *)
THEOREM ImplementsTheorem == Spec => Implements
<1>1. Spec => Format!Spec
  BY InitImplements, StepImplements, InitZ, ZStep, PTL DEF Spec, Format!Spec
<1> QED
  BY <1>1 DEF Implements

=============================================================================
