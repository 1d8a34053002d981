------------------------- MODULE QcowCompressedProofs -------------------------
(***************************************************************************)
(* Theorems about QcowCompressed, for all sizes of clusters, sectors and   *)
(* values, all images and all bounds.                                      *)
(*                                                                         *)
(* What a cluster reads as depends on the units from its position on.  A   *)
(* call writes within its target, which no cluster that is followed meets, *)
(* or behind the end of the file; a file that grows may end a region that  *)
(* was read short, so the invariant speaks of the units that are there and *)
(* not of the read.                                                        *)
(***************************************************************************)
EXTENDS QcowCompressed, SequenceTheorems, TLAPS

Steps == {"idle", "lookup", "zero", "write", "entry", "plain"}

Types ==
  /\ file \in Seq(Unit) /\ base \in Nat /\ base <= Len(file)
  /\ entry \in [Guests -> PlaceEntry] /\ ref \in [Guests -> Nat]
  /\ pc \in Steps
  /\ pc # "idle" => req \in [g : Guests, v : Values]
  /\ result \in {"none", "ok", "error"} /\ death \in {"none", "null_stream", "division"}
  /\ want \in [Guests -> Values \cup {NULL}] /\ erred \subseteq Guests /\ reached \subseteq Guests

(* The file holds the units of a value from a position on, and an entry    *)
(* has its cluster inflated to it.                                         *)
Holds(f, pos, v) == \A i \in 1 .. Size[v] : pos + i <= Len(f) /\ f[pos + i] = <<v, i>>
Reads(f, e, v) == Size[v] <= Region(e) /\ Holds(f, e.pos, v)

(* Guests whose compressed clusters are as their owners know them.         *)
Tracked(g) ==
  /\ entry[g].compressed /\ want[g] # NULL /\ g \notin erred \cup reached
  /\ ~(pc # "idle" /\ req.g = g)
AllHeld == \A g \in Guests : Tracked(g) => Holds(file, entry[g].pos, want[g])

(* Where the call that runs still writes, but for the end of the file.     *)
Target ==
  IF pc = "plain" THEN Span(Old.pos, C)
  ELSE IF pc = "lookup" THEN Reach(req.g, req.v)
  ELSE Rewritten(Old, req.v)
Clear == pc # "idle" => \A g \in Guests : Tracked(g) => Occupied(g) \cap Target = {}

(* A compressed cluster has its entry set once the units are on the file.  *)
Rewriting ==
  /\ pc = "plain" => ~Old.compressed
  /\ pc = "entry" => Holds(file, Old.pos, req.v)

IInv == Types /\ AllHeld /\ Clear /\ Rewriting

-----------------------------------------------------------------------------
(* Sizes                                                                   *)

LEMMA ProductNat ==
  ASSUME NEW a \in Nat, NEW b \in Nat
  PROVE  a * b \in Nat
  BY SMT

LEMMA Divided ==
  ASSUME NEW a \in Nat, NEW b \in Nat \ {0}
  PROVE  a \div b \in Nat /\ a % b \in 0 .. b - 1 /\ a = b * (a \div b) + (a % b)
  BY SMT

LEMMA Constants == C \in Nat \ {0} /\ S \in Nat \ {0} /\ NULL \notin Values
                     /\ Kept \in Nat \ {0} /\ Far \in Nat
  BY SizesAssumption

LEMMA SizeNat ==
  ASSUME NEW v \in Values
  PROVE  Size[v] \in Nat \ {0}
  BY SizesAssumption DEF Values

LEMMA RegionNat ==
  ASSUME NEW e, e.additional_sectors \in Nat
  PROVE  Region(e) \in Nat \ {0}
  BY Constants, ProductNat, SMT DEF Region

LEMMA SectorsNat ==
  ASSUME NEW v \in Values
  PROVE  additional_sectors(v) \in Nat
<1>1. CASE Size[v] > C
  <2>1. Size[v] - C \in Nat
    BY <1>1, Constants, SizeNat
  <2>2. (Size[v] - C) \div S \in Nat
    BY <2>1, Divided, Constants
  <2>. QED
    BY <1>1, <2>2 DEF additional_sectors
<1>2. CASE ~(Size[v] > C)
  BY <1>2 DEF additional_sectors
<1>. QED
  BY <1>1, <1>2

LEMMA SectorInCluster == S <= C
<1>1. PICK q \in Nat : q = C \div S
  BY Divided, Constants
<1>2. C = S * q
  BY <1>1, Divided, Constants, SizesAssumption
<1>3. PICK p \in Nat : p = S * q
  BY <1>1, Constants, ProductNat
<1>4. q # 0
  BY <1>2, Constants
<1>. QED
  BY <1>1, <1>2, <1>3, <1>4, Constants

LEMMA EntryTypes ==
  ASSUME NEW e \in PlaceEntry
  PROVE  /\ AsPlain(e) \in PlaceEntry /\ ~AsPlain(e).compressed
         /\ \A v \in Values : NewEntry(e, v) \in PlaceEntry /\ NewEntry(e, v).pos = e.pos
<1>1. PICK q \in Nat : q = e.pos \div S
  BY Divided, Constants DEF PlaceEntry
<1>2. q * S \in Nat
  BY <1>1, Constants, ProductNat
<1>3. PICK r \in Nat : r = e.additional_sectors % Kept
  BY Divided, Constants DEF PlaceEntry
<1>4. r * Far \in Nat
  BY <1>3, Constants, ProductNat
<1>5. (e.pos \div S) * S + (e.additional_sectors % Kept) * Far \in Nat
  BY <1>1, <1>2, <1>3, <1>4
<1>6. AsPlain(e) \in PlaceEntry /\ ~AsPlain(e).compressed
  BY <1>5 DEF AsPlain, PlaceEntry
<1>. QED
  BY <1>6, SectorsNat DEF NewEntry, PlaceEntry

-----------------------------------------------------------------------------
(* Writing to a file                                                       *)

(* Bytes that are written are there, the others are as they were, and a    *)
(* file is filled up with zeros.                                           *)
LEMMA OverwrittenFile ==
  ASSUME NEW f \in Seq(Unit), NEW pos \in Nat, NEW units \in Seq(Unit)
  PROVE  /\ Overwritten(f, pos, units) \in Seq(Unit)
         /\ Len(Overwritten(f, pos, units)) >= Len(f)
         /\ Len(Overwritten(f, pos, units)) >= pos + Len(units)
         /\ \A i \in 1 .. Len(units) : Overwritten(f, pos, units)[pos + i] = units[i]
         /\ \A i \in 1 .. Len(Overwritten(f, pos, units)) :
              i \notin pos + 1 .. pos + Len(units) =>
                Overwritten(f, pos, units)[i] = IF i <= Len(f) THEN f[i] ELSE Zero
<1>. DEFINE n == IF pos + Len(units) > Len(f) THEN pos + Len(units) ELSE Len(f)
            At1(i) == IF i \in pos + 1 .. pos + Len(units) THEN units[i - pos]
                     ELSE IF i <= Len(f) THEN f[i] ELSE Zero
            o == Overwritten(f, pos, units)
<1>1. PICK a \in Nat, b \in Nat : a = Len(f) /\ b = Len(units)
  OBVIOUS
<1>2. n \in Nat /\ n >= a /\ n >= pos + b
  BY <1>1
<1>3. o = [i \in 1 .. n |-> At1(i)]
  BY DEF Overwritten
<1>4. Zero \in Unit
  BY DEF Zero, Unit
<1>5. \A i \in 1 .. n : At1(i) \in Unit
  <2>. TAKE i \in 1 .. n
  <2>1. CASE i \in pos + 1 .. pos + Len(units)
    <3>1. i - pos \in 1 .. Len(units)
      BY <1>1, <2>1
    <3>2. units[i - pos] \in Unit
      BY <3>1
    <3>. QED
      BY <2>1, <3>2
  <2>2. CASE i \notin pos + 1 .. pos + Len(units)
    <3>1. i <= Len(f) => f[i] \in Unit
      BY <1>1
    <3>. QED
      BY <1>4, <2>2, <3>1
  <2>. QED
    BY <2>1, <2>2
<1>. HIDE DEF n, At1, o
<1>6. o \in Seq(Unit) /\ Len(o) = n
  BY <1>2, <1>3, <1>5
<1>7. \A i \in 1 .. n : o[i] = At1(i)
  BY <1>3
<1>8. \A i \in 1 .. Len(units) : o[pos + i] = units[i]
  <2>. TAKE i \in 1 .. Len(units)
  <2>1. pos + i \in 1 .. n /\ pos + i \in pos + 1 .. pos + Len(units) /\ pos + i - pos = i
    BY <1>1, <1>2
  <2>. QED
    BY <1>7, <2>1 DEF At1
<1>. QED
  BY <1>1, <1>2, <1>6, <1>7, <1>8 DEF o, At1

(* What a write leaves: the values that do not meet a part of the file.    *)
Keeps(f, f2, part) ==
  /\ f2 \in Seq(Unit) /\ Len(f2) >= Len(f)
  /\ \A q \in Nat : \A w \in Values :
       Holds(f, q, w) /\ Span(q, Size[w]) \cap part = {} => Holds(f2, q, w)

LEMMA WriteKeeps ==
  ASSUME NEW f \in Seq(Unit), NEW pos \in Nat, NEW units \in Seq(Unit), NEW part,
         Span(pos, Len(units)) \subseteq part
  PROVE  Keeps(f, Overwritten(f, pos, units), part)
<1>. DEFINE o == Overwritten(f, pos, units)
<1>1. /\ o \in Seq(Unit) /\ Len(o) >= Len(f)
      /\ \A i \in 1 .. Len(o) : i \notin pos + 1 .. pos + Len(units) =>
           o[i] = IF i <= Len(f) THEN f[i] ELSE Zero
  BY OverwrittenFile
<1>. HIDE DEF o
<1>2. PICK a \in Nat, b \in Nat, c \in Nat : a = Len(f) /\ b = Len(o) /\ c = Len(units)
  BY <1>1
<1>3. ASSUME NEW q \in Nat, NEW w \in Values, Holds(f, q, w), Span(q, Size[w]) \cap part = {},
             NEW i \in 1 .. Size[w]
      PROVE  q + i <= Len(o) /\ o[q + i] = <<w, i>>
  <2>1. i \in Nat /\ i >= 1 /\ Size[w] \in Nat /\ i <= Size[w]
    BY SizeNat
  <2>2. q + i <= Len(f) /\ f[q + i] = <<w, i>>
    BY <1>3 DEF Holds
  <2>3. q + i - 1 \in Span(q, Size[w])
    BY <2>1 DEF Span
  <2>4. q + i - 1 \notin Span(pos, Len(units))
    BY <1>3, <2>3
  <2>5. q + i \notin pos + 1 .. pos + Len(units)
    BY <1>2, <2>1, <2>4 DEF Span
  <2>6. q + i \in 1 .. Len(o)
    BY <1>1, <1>2, <2>1, <2>2
  <2>. QED
    BY <1>1, <2>2, <2>5, <2>6
<1>4. \A q \in Nat : \A w \in Values :
        Holds(f, q, w) /\ Span(q, Size[w]) \cap part = {} => Holds(o, q, w)
  BY <1>3 DEF Holds
<1>. QED
  BY <1>1, <1>4 DEF Keeps, o

(* A file that is as another up to its end.                                *)
Longer(f, f2) ==
  f2 \in Seq(Unit) /\ Len(f2) >= Len(f) /\ \A i \in 1 .. Len(f) : f2[i] = f[i]

LEMMA LongerKeeps ==
  ASSUME NEW f \in Seq(Unit), NEW f2, Longer(f, f2), NEW part
  PROVE  Keeps(f, f2, part)
<1>1. PICK a \in Nat, b \in Nat : a = Len(f) /\ b = Len(f2)
  BY DEF Longer
<1>2. ASSUME NEW q \in Nat, NEW w \in Values, Holds(f, q, w), NEW i \in 1 .. Size[w]
      PROVE  q + i <= Len(f2) /\ f2[q + i] = <<w, i>>
  <2>1. i \in Nat /\ i >= 1
    BY SizeNat
  <2>2. q + i <= Len(f) /\ f[q + i] = <<w, i>>
    BY <1>2 DEF Holds
  <2>3. q + i \in 1 .. Len(f)
    BY <1>1, <2>1, <2>2
  <2>4. a <= b
    BY <1>1 DEF Longer
  <2>. QED
    BY <1>1, <2>1, <2>2, <2>3, <2>4 DEF Longer
<1>3. \A q \in Nat : \A w \in Values : Holds(f, q, w) => Holds(f2, q, w)
  BY <1>2 DEF Holds
<1>. QED
  BY <1>3 DEF Keeps, Longer

LEMMA BeyondIsLonger ==
  ASSUME NEW f \in Seq(Unit), NEW pos \in Nat, NEW units \in Seq(Unit), pos >= Len(f)
  PROVE  Longer(f, Overwritten(f, pos, units))
<1>. DEFINE o == Overwritten(f, pos, units)
<1>1. /\ o \in Seq(Unit) /\ Len(o) >= Len(f)
      /\ \A i \in 1 .. Len(o) : i \notin pos + 1 .. pos + Len(units) =>
           o[i] = IF i <= Len(f) THEN f[i] ELSE Zero
  BY OverwrittenFile
<1>. HIDE DEF o
<1>2. PICK a \in Nat, b \in Nat, c \in Nat : a = Len(f) /\ b = Len(o) /\ c = Len(units)
  BY <1>1
<1>3. \A i \in 1 .. Len(f) : i \in 1 .. Len(o) /\ i <= Len(f) /\ i \notin pos + 1 .. pos + Len(units)
  BY <1>1, <1>2
<1>. QED
  BY <1>1, <1>3 DEF Longer, o

LEMMA LongerTwice ==
  ASSUME NEW f \in Seq(Unit), NEW f2, NEW f3, Longer(f, f2), Longer(f2, f3)
  PROVE  Longer(f, f3)
<1>1. PICK a \in Nat, b \in Nat, c \in Nat : a = Len(f) /\ b = Len(f2) /\ c = Len(f3)
  BY DEF Longer
<1>2. a <= b /\ b <= c
  BY <1>1 DEF Longer
<1>3. \A i \in 1 .. Len(f) : i \in 1 .. Len(f2)
  BY <1>1, <1>2
<1>. QED
  BY <1>1, <1>2, <1>3 DEF Longer

LEMMA PrefixIsLonger ==
  ASSUME NEW f \in Seq(Unit), NEW f2, Longer(f, f2), NEW n \in Nat, n >= Len(f), n <= Len(f2)
  PROVE  Longer(f, SubSeq(f2, 1, n))
<1>1. PICK a \in Nat, b \in Nat : a = Len(f) /\ b = Len(f2)
  BY DEF Longer
<1>2. f2 \in Seq(Unit)
  BY DEF Longer
<1>. DEFINE o == SubSeq(f2, 1, n)
<1>3. o \in Seq(Unit) /\ Len(o) = n /\ \A i \in 1 .. n : o[i] = f2[i]
  BY <1>1, <1>2
<1>. HIDE DEF o
<1>4. \A i \in 1 .. Len(f) : i \in 1 .. n
  BY <1>1
<1>. QED
  BY <1>3, <1>4 DEF Longer, o

LEMMA KeepsLonger ==
  ASSUME NEW f \in Seq(Unit), NEW f2, NEW f3, NEW part, Keeps(f, f2, part), Longer(f2, f3)
  PROVE  Keeps(f, f3, part)
<1>1. f2 \in Seq(Unit) /\ Keeps(f2, f3, {})
  BY LongerKeeps DEF Keeps
<1>2. PICK a \in Nat, b \in Nat, c \in Nat : a = Len(f) /\ b = Len(f2) /\ c = Len(f3)
  BY DEF Keeps, Longer
<1>3. a <= b /\ b <= c
  BY <1>2 DEF Keeps, Longer
<1>4. \A q \in Nat : \A w \in Values : Holds(f2, q, w) => Holds(f3, q, w)
  BY <1>1 DEF Keeps
<1>. QED
  BY <1>1, <1>2, <1>3, <1>4 DEF Keeps, Longer

(* What the calls write                                                    *)

LEMMA UnitsWritten ==
  /\ \A n \in Nat : Zeros(n) \in Seq(Unit) /\ Len(Zeros(n)) = n
  /\ \A n \in Nat : Plains(n) \in Seq(Unit) /\ Len(Plains(n)) = n
  /\ \A v \in Values :
       /\ Deflated(v) \in Seq(Unit) /\ Len(Deflated(v)) = Size[v]
       /\ \A i \in 1 .. Size[v] : Deflated(v)[i] = <<v, i>>
<1>1. Zero \in Unit /\ Plain \in Unit
  BY DEF Zero, Plain, Unit
<1>2. ASSUME NEW n \in Nat
      PROVE  /\ Zeros(n) \in Seq(Unit) /\ Len(Zeros(n)) = n
             /\ Plains(n) \in Seq(Unit) /\ Len(Plains(n)) = n
  BY <1>1, <1>2 DEF Zeros, Plains
<1>3. ASSUME NEW v \in Values
      PROVE  /\ Deflated(v) \in Seq(Unit) /\ Len(Deflated(v)) = Size[v]
             /\ \A i \in 1 .. Size[v] : Deflated(v)[i] = <<v, i>>
  <2>1. Size[v] \in Nat
    BY SizeNat
  <2>2. \A i \in 1 .. Size[v] : <<v, i>> \in Unit
    BY <2>1 DEF Unit
  <2>. QED
    BY <2>1, <2>2 DEF Deflated
<1>. QED
  BY <1>2, <1>3

LEMMA PartWritten ==
  ASSUME NEW v \in Values, NEW n \in 0 .. Size[v] - 1
  PROVE  SubSeq(Deflated(v), 1, n) \in Seq(Unit) /\ Len(SubSeq(Deflated(v), 1, n)) = n
<1>1. Deflated(v) \in Seq(Unit) /\ Len(Deflated(v)) = Size[v] /\ Size[v] \in Nat /\ n \in Nat /\ n <= Size[v]
  BY UnitsWritten, SizeNat
<1>. QED
  BY <1>1

(* cow_alloc_cluster puts its copy behind a gap of a cluster or more, and  *)
(* leaves the file before the gap as it is.                                *)
LEMMA CopyPlace ==
  ASSUME NEW a \in Nat, NEW sectors \in Nat
  PROVE  /\ C * (1 + (sectors * S + C - 1) \div C) \in Nat
         /\ C * (1 + (sectors * S + C - 1) \div C) >= C
         /\ ((a + C - 1) \div C) * C \in Nat
         /\ ((a + C - 1) \div C) * C >= a
<1>1. PICK m \in Nat : m = sectors * S + C - 1
  <2>1. sectors * S \in Nat
    BY Constants, ProductNat
  <2>. QED
    BY <2>1, Constants
<1>2. PICK r \in Nat : r = m \div C
  BY Divided, Constants
<1>3. PICK p \in Nat : p = C * r
  BY Constants, ProductNat
<1>4. C * (1 + r) = C + p
  BY <1>3, Constants
<1>5. PICK k \in Nat : k = a + C - 1
  BY Constants
<1>6. PICK q \in Nat : q = k \div C
  BY Divided, Constants
<1>7. PICK t \in Nat : t = C * q
  BY Constants, ProductNat
<1>8. k = t + (k % C) /\ k % C \in 0 .. C - 1
  BY <1>6, <1>7, Divided, Constants
<1>9. t >= a
  BY <1>5, <1>8, Constants
<1>10. q * C = t
  BY <1>7, Constants
<1>11. C * (1 + (sectors * S + C - 1) \div C) = C + p
  BY <1>1, <1>2, <1>4
<1>12. ((a + C - 1) \div C) * C = t
  BY <1>5, <1>6, <1>10
<1>. QED
  BY <1>9, <1>11, <1>12, Constants

(* What inflate finds                                                      *)

(* In a region that is read whole, a value begins if its units are there.  *)
LEMMA BeginsIsReads ==
  ASSUME NEW f \in Seq(Unit), NEW e \in PlaceEntry, ~Short(f, e)
  PROVE  Begins(f, e) = {v \in Values : Reads(f, e, v)}
<1>1. PICK n \in Nat : n = Len(f)
  OBVIOUS
<1>2. e.pos \in Nat /\ Region(e) \in Nat /\ e.pos + Region(e) <= n
  BY <1>1, RegionNat DEF PlaceEntry, Short
<1>3. ASSUME NEW v \in Values, Size[v] <= Region(e)
      PROVE  SubSeq(f, e.pos + 1, e.pos + Size[v]) = Deflated(v) <=> Holds(f, e.pos, v)
  <2>1. PICK m \in Nat \ {0} : m = Size[v]
    BY SizeNat
  <2>2. e.pos + m <= n
    BY <1>2, <1>3, <2>1
  <2>. DEFINE part == SubSeq(f, e.pos + 1, e.pos + m)
              whole == Deflated(v)
  <2>3. \A i \in e.pos + 1 .. e.pos + m : f[i] \in Unit
    BY <1>1, <1>2, <2>2
  <2>4. PICK from \in Int, to \in Int : from = e.pos + 1 /\ to = e.pos + m
    BY <1>2
  <2>5. /\ SubSeq(f, from, to) \in Seq(Unit)
        /\ Len(SubSeq(f, from, to)) = IF from <= to THEN to - from + 1 ELSE 0
        /\ \A i \in 1 .. to - from + 1 : SubSeq(f, from, to)[i] = f[from + i - 1]
    <3>1. \A i \in from .. to : f[i] \in Unit
      BY <2>3, <2>4
    <3>. QED
      BY <3>1, SubSeqProperties
  <2>6. whole \in Seq(Unit) /\ Len(whole) = m /\ \A i \in 1 .. m : whole[i] = <<v, i>>
    BY <2>1, UnitsWritten
  <2>7. part \in Seq(Unit) /\ Len(part) = m /\ \A i \in 1 .. m : part[i] = f[e.pos + i]
    <3>1. from <= to /\ to - from + 1 = m /\ \A i \in 1 .. m : from + i - 1 = e.pos + i
      <4>1. PICK p \in Nat : p = e.pos
        BY <1>2
      <4>2. from = p + 1 /\ to = p + m
        BY <2>4, <4>1
      <4>3. \A i \in 1 .. m : from + i - 1 = p + i
        BY <4>2
      <4>. QED
        BY <4>1, <4>2, <4>3
    <3>2. part = SubSeq(f, from, to)
      BY <2>4
    <3>. HIDE DEF part
    <3>. QED
      BY <2>5, <3>1, <3>2
  <2>. HIDE DEF part, whole
  <2>8. part = whole <=> \A i \in 1 .. m : f[e.pos + i] = <<v, i>>
    BY <2>6, <2>7, SeqEqual
  <2>9. \A i \in 1 .. m : e.pos + i <= n
    BY <1>2, <2>2
  <2>. QED
    BY <1>1, <2>1, <2>8, <2>9 DEF Holds, part, whole
<1>. QED
  BY <1>3 DEF Begins, Reads

(* The first unit tells the values apart.                                  *)
LEMMA OneValue ==
  ASSUME NEW f, NEW e, NEW v \in Values, NEW w \in Values, Reads(f, e, v), Reads(f, e, w)
  PROVE  v = w
<1>1. 1 \in 1 .. Size[v] /\ 1 \in 1 .. Size[w]
  BY SizeNat
<1>2. f[e.pos + 1] = <<v, 1>> /\ f[e.pos + 1] = <<w, 1>>
  BY <1>1 DEF Reads, Holds
<1>. QED
  BY <1>2



-----------------------------------------------------------------------------
(* The steps                                                               *)

LEMMA Initially == Init => IInv
<1>. SUFFICES ASSUME Init
              PROVE  IInv
  OBVIOUS
<1>1. /\ file \in Seq(Unit) /\ base = Len(file) /\ entry \in [Guests -> PlaceEntry]
      /\ ref \in [Guests -> Nat]
  BY ImagesAssumption DEF Init
<1>2. base \in Nat /\ base <= Len(file)
  <2>1. PICK n \in Nat : n = Len(file)
    BY <1>1
  <2>. QED
    BY <1>1, <2>1
<1>3. ASSUME NEW g \in Guests, Inflated(g) # NULL
      PROVE  Inflated(g) \in Values /\ Holds(file, entry[g].pos, Inflated(g))
  <2>. DEFINE found == IF Short(file, entry[g]) THEN {} ELSE Begins(file, entry[g])
  <2>1. found # {} /\ Inflated(g) = CHOOSE v \in found : TRUE
    BY <1>3 DEF Inflated
  <2>2. Inflated(g) \in found
    BY <2>1
  <2>3. entry[g] \in PlaceEntry
    BY <1>1
  <2>4. ~Short(file, entry[g]) /\ Inflated(g) \in Begins(file, entry[g])
    BY <2>2
  <2>5. Begins(file, entry[g]) = {v \in Values : Reads(file, entry[g], v)}
    BY <1>1, <2>3, <2>4, BeginsIsReads
  <2>. QED
    BY <2>4, <2>5 DEF Reads
<1>4. want = [g \in Guests |-> IF entry[g].compressed THEN Inflated(g) ELSE NULL]
  BY DEF Init
<1>5. want \in [Guests -> Values \cup {NULL}]
  BY <1>3, <1>4
<1>6. AllHeld
  BY <1>3, <1>4 DEF AllHeld, Tracked
<1>7. Types
  BY <1>1, <1>2, <1>5 DEF Init, Types, Steps
<1>8. Clear /\ Rewriting
  BY DEF Init, Clear, Rewriting
<1>. QED
  BY <1>6, <1>7, <1>8 DEF IInv

(* What holds of the clusters that the call is not about after a step that *)
(* writes within the target or behind the end.                             *)
Others ==
  \A g \in Guests : g # req.g =>
    /\ entry'[g] = entry[g] /\ want'[g] = want[g]
    /\ g \in erred' <=> g \in erred
    /\ g \in reached' <=> g \in reached

LEMMA OthersHeld ==
  ASSUME IInv, pc # "idle", req' = req, Others, Keeps(file, file', Target)
  PROVE  \A g \in Guests : g # req.g /\ Tracked(g)' =>
           /\ Holds(file', entry'[g].pos, want'[g])
           /\ Occupied(g)' = Occupied(g) /\ Occupied(g) \cap Target = {}
           /\ want[g] \in Values /\ entry[g] \in PlaceEntry /\ Holds(file, entry[g].pos, want[g])
<1>. SUFFICES ASSUME NEW g \in Guests, g # req.g, Tracked(g)'
              PROVE  /\ Holds(file', entry'[g].pos, want'[g])
                     /\ Occupied(g)' = Occupied(g) /\ Occupied(g) \cap Target = {}
                     /\ want[g] \in Values /\ entry[g] \in PlaceEntry
                     /\ Holds(file, entry[g].pos, want[g])
  OBVIOUS
<1>1. entry'[g] = entry[g] /\ want'[g] = want[g]
  BY DEF Others
<1>2. Tracked(g)
  BY DEF Tracked, Others
<1>3. want[g] \in Values /\ entry[g] \in PlaceEntry /\ entry[g].pos \in Nat
  BY <1>2 DEF IInv, Types, Tracked, PlaceEntry
<1>4. Holds(file, entry[g].pos, want[g]) /\ Occupied(g) \cap Target = {}
  BY <1>2 DEF IInv, AllHeld, Clear
<1>5. Holds(file', entry[g].pos, want[g])
  BY <1>3, <1>4 DEF Keeps, Occupied
<1>6. Occupied(g)' = Occupied(g)
  BY <1>1 DEF Occupied
<1>. QED
  BY <1>1, <1>3, <1>4, <1>5, <1>6

(* A step after which the call goes on, or has returned.                   *)
LEMMA OnKeeps ==
  ASSUME IInv, pc # "idle", pc' # "idle", req' = req, Others, Keeps(file, file', Target),
         Types', Rewriting',
         \A g \in Guests : g # req.g /\ Tracked(g)' => Occupied(g) \cap Target' = {}
  PROVE  IInv'
<1>1. ~Tracked(req.g)'
  BY DEF Tracked
<1>2. AllHeld'
  BY <1>1, OthersHeld DEF AllHeld
<1>3. Clear'
  BY <1>1, OthersHeld DEF Clear
<1>. QED
  BY <1>2, <1>3 DEF IInv

LEMMA BackKeeps ==
  ASSUME IInv, pc # "idle", pc' = "idle", req' = req, Others, Keeps(file, file', Target), Types',
         Tracked(req.g)' => Holds(file', entry'[req.g].pos, want'[req.g])
  PROVE  IInv'
<1>1. AllHeld'
  BY OthersHeld DEF AllHeld
<1>2. Clear' /\ Rewriting'
  BY DEF Clear, Rewriting
<1>. QED
  BY <1>1, <1>2 DEF IInv

LEMMA SameKeeps ==
  ASSUME Types, file' = file
  PROVE  Keeps(file, file', Target)
<1>1. file \in Seq(Unit)
  BY DEF Types
<1>2. PICK n \in Nat : n = Len(file)
  BY <1>1
<1>3. Longer(file, file')
  BY <1>1, <1>2 DEF Longer
<1>. QED
  BY <1>1, <1>3, LongerKeeps

(* A call that returns an error.                                           *)
LEMMA RefusedKeeps ==
  ASSUME IInv, pc # "idle", ReturnError, UNCHANGED <<base, req, death>>,
         \A g \in Guests : g # req.g => entry'[g] = entry[g],
         entry' \in [Guests -> PlaceEntry], ref' \in [Guests -> Nat],
         Keeps(file, file', Target)
  PROVE  IInv'
<1>1. Types /\ req.g \in Guests
  BY DEF IInv, Types
<1>2. /\ pc' = "idle" /\ result' = "error" /\ want' = want /\ reached' = reached
      /\ erred' = erred \cup {req.g}
  BY DEF ReturnError
<1>3. file' \in Seq(Unit) /\ base' <= Len(file')
  <2>1. PICK a \in Nat, b \in Nat : a = Len(file) /\ b = Len(file')
    BY <1>1 DEF Keeps, Types
  <2>. QED
    BY <1>1, <2>1 DEF Keeps, Types
<1>4. Types'
  BY <1>1, <1>2, <1>3 DEF Types, Steps
<1>5. Others
  BY <1>2 DEF Others
<1>6. ~Tracked(req.g)'
  BY <1>2 DEF Tracked
<1>. QED
  BY <1>2, <1>4, <1>5, <1>6, BackKeeps

(* One that goes on, with or without a new entry.                          *)
LEMMA GoneOnKeeps ==
  ASSUME IInv, pc # "idle", NEW step \in Steps \ {"idle"}, GoOn(step),
         UNCHANGED <<base, ref, req, death>>,
         \A g \in Guests : g # req.g => entry'[g] = entry[g],
         entry' \in [Guests -> PlaceEntry], Keeps(file, file', Target), Rewriting',
         \A g \in Guests : g # req.g /\ Tracked(g)' => Occupied(g) \cap Target' = {}
  PROVE  IInv'
<1>1. Types
  BY DEF IInv
<1>2. pc' = step /\ UNCHANGED <<result, want, erred, reached>>
  BY DEF GoOn
<1>3. file' \in Seq(Unit) /\ base' <= Len(file')
  <2>1. PICK a \in Nat, b \in Nat : a = Len(file) /\ b = Len(file')
    BY <1>1 DEF Keeps, Types
  <2>. QED
    BY <1>1, <2>1 DEF Keeps, Types
<1>4. Types'
  BY <1>1, <1>2, <1>3 DEF Types, Steps
<1>5. Others
  BY <1>2 DEF Others
<1>. QED
  BY <1>2, <1>4, <1>5, OnKeeps DEF Steps

(* A call marks the clusters that it reaches.                              *)
LEMMA StartWriteKeeps ==
  ASSUME IInv, StartWrite
  PROVE  IInv'
<1>1. PICK g \in Guests, v \in Values :
        /\ req' = [g |-> g, v |-> v]
        /\ reached' = reached \cup
             {h \in Guests \ {g} : want[h] # NULL /\ Occupied(h) \cap Reach(g, v) # {}}
  BY DEF StartWrite
<1>2. /\ pc = "idle" /\ pc' = "lookup"
      /\ UNCHANGED <<file, base, entry, ref, result, death, want, erred>>
  BY DEF StartWrite, At
<1>3. req'.g = g /\ req'.v = v
  BY <1>1
<1>4. Types'
  BY <1>1, <1>2 DEF IInv, Types, Steps
<1>5. ASSUME NEW h \in Guests, Tracked(h)'
      PROVE  h # g /\ Tracked(h) /\ Occupied(h) \cap Reach(g, v) = {}
  <2>1. h # g
    BY <1>2, <1>3, <1>5 DEF Tracked
  <2>2. Tracked(h)
    BY <1>1, <1>2, <1>5 DEF Tracked
  <2>3. h \notin reached'
    BY <1>5 DEF Tracked
  <2>. QED
    BY <1>1, <2>1, <2>2, <2>3 DEF Tracked
<1>6. AllHeld'
  BY <1>2, <1>5 DEF IInv, AllHeld
<1>7. Clear'
  <2>1. Target' = Reach(g, v)
    BY <1>2, <1>3 DEF Target, Reach, Rewritten, Region, AsPlain, Span
  <2>2. \A h \in Guests : Occupied(h)' = Occupied(h)
    BY <1>2 DEF Occupied
  <2>. QED
    BY <1>5, <2>1, <2>2 DEF Clear
<1>8. Rewriting'
  BY <1>2 DEF Rewriting
<1>. QED
  BY <1>4, <1>6, <1>7, <1>8 DEF IInv

LEMMA Running ==
  ASSUME IInv, pc # "idle"
  PROVE  /\ Types /\ req.g \in Guests /\ req.v \in Values /\ Old \in PlaceEntry /\ Old.pos \in Nat
         /\ file \in Seq(Unit) /\ entry \in [Guests -> PlaceEntry] /\ ref \in [Guests -> Nat]
         /\ ref[req.g] \in Nat /\ Size[req.v] \in Nat /\ Region(Old) \in Nat
<1>1. Types /\ req.g \in Guests /\ req.v \in Values /\ Old \in PlaceEntry
  BY DEF IInv, Types, Old
<1>2. Old.pos \in Nat /\ Old.additional_sectors \in Nat
  BY <1>1 DEF PlaceEntry
<1>3. Region(Old) \in Nat
  BY <1>2, RegionNat
<1>. QED
  BY <1>1, <1>2, <1>3, SizeNat DEF Types

(* A refused entry, a region that is not read and a division by zero leave *)
(* everything as it is.                                                    *)
LEMMA DeathKeeps ==
  ASSUME IInv, ReadShort \/ CopyPlain
  PROVE  IInv'
<1>1. /\ UNCHANGED <<file, base, entry, ref, pc, req, result, want, erred, reached>>
      /\ death' \in {"null_stream", "division"}
  BY DEF ReadShort, CopyPlain, Die
<1>2. Types'
  BY <1>1 DEF IInv, Types
<1>3. \A g \in Guests : (Tracked(g)' <=> Tracked(g)) /\ Occupied(g)' = Occupied(g)
  BY <1>1 DEF Tracked, Occupied
<1>4. AllHeld'
  BY <1>1, <1>3 DEF IInv, AllHeld
<1>5. Target' = Target
  BY <1>1 DEF Target, Reach, Rewritten, Region, AsPlain, Span, Old
<1>6. Clear'
  BY <1>1, <1>3, <1>5 DEF IInv, Clear
<1>7. Rewriting'
  BY <1>1 DEF IInv, Rewriting, Old
<1>. QED
  BY <1>2, <1>4, <1>6, <1>7 DEF IInv

LEMMA RefuseKeeps ==
  ASSUME IInv, RefuseEntry \/ DeflateFails
  PROVE  IInv'
<1>1. pc # "idle" /\ ReturnError /\ UNCHANGED <<file, base, entry, ref, req, death>>
  BY DEF RefuseEntry, DeflateFails, At, Steady
<1>2. Types /\ entry' \in [Guests -> PlaceEntry] /\ ref' \in [Guests -> Nat]
  BY <1>1 DEF IInv, Types
<1>. QED
  BY <1>1, <1>2, SameKeeps, RefusedKeeps

(* Once the entry is that of a plain cluster, the call may write to the    *)
(* whole of it.                                                            *)
LEMMA MakePlainKeeps ==
  ASSUME IInv, MakePlain
  PROVE  IInv'
<1>1. /\ pc = "lookup" /\ pc # "idle" /\ ref[req.g] = 0
      /\ entry' = [entry EXCEPT ![req.g] = AsPlain(@)]
      /\ UNCHANGED <<file, base, ref, req, death>>
      /\ GoOn("plain") \/ ReturnError
  BY DEF MakePlain, At
<1>2. /\ Types /\ req.g \in Guests /\ Old \in PlaceEntry /\ ref \in [Guests -> Nat]
      /\ entry \in [Guests -> PlaceEntry]
  BY <1>1, Running
<1>3. /\ entry' \in [Guests -> PlaceEntry] /\ entry'[req.g] = AsPlain(Old)
      /\ \A g \in Guests : g # req.g => entry'[g] = entry[g]
  BY <1>1, <1>2, EntryTypes DEF Old
<1>4. Keeps(file, file', Target)
  BY <1>1, <1>2, SameKeeps
<1>5. CASE ReturnError
  BY <1>1, <1>2, <1>3, <1>4, <1>5, RefusedKeeps
<1>6. CASE GoOn("plain")
  <2>1. pc' = "plain"
    BY <1>6 DEF GoOn
  <2>2. Old' = AsPlain(Old)
    BY <1>1, <1>3 DEF Old
  <2>3. Rewriting'
    BY <1>2, <2>1, <2>2, EntryTypes DEF Rewriting
  <2>4. Target = Span(AsPlain(Old).pos, C)
    BY <1>1 DEF Target, Reach, Old
  <2>5. Target' = Target
    BY <2>1, <2>2, <2>4 DEF Target
  <2>6. Others
    BY <1>3, <1>6 DEF Others, GoOn
  <2>7. \A g \in Guests : g # req.g /\ Tracked(g)' => Occupied(g) \cap Target' = {}
    BY <1>1, <1>4, <2>5, <2>6, OthersHeld
  <2>8. "plain" \in Steps \ {"idle"}
    BY DEF Steps
  <2>. QED
    BY <1>1, <1>3, <1>4, <1>6, <2>3, <2>7, <2>8, GoneOnKeeps
<1>. QED
  BY <1>1, <1>5, <1>6

LEMMA FoundKeeps ==
  ASSUME IInv, FindPlain \/ ReadOld
  PROVE  IInv'
<1>1. /\ pc = "lookup" /\ pc # "idle" /\ ref[req.g] = 1
      /\ UNCHANGED <<file, entry, base, ref, req, death>>
      /\ \/ ~Old.compressed /\ GoOn("plain")
         \/ Old.compressed /\ (GoOn("zero") \/ ReturnError)
  BY DEF FindPlain, ReadOld, At, Steady
<1>2. /\ Types /\ req.g \in Guests /\ Old \in PlaceEntry /\ ref \in [Guests -> Nat]
      /\ entry \in [Guests -> PlaceEntry]
  BY <1>1, Running
<1>3. Keeps(file, file', Target)
  BY <1>1, <1>2, SameKeeps
<1>4. entry' \in [Guests -> PlaceEntry] /\ ref' \in [Guests -> Nat]
  BY <1>1, <1>2
<1>5. CASE ReturnError
  BY <1>1, <1>3, <1>4, <1>5, RefusedKeeps
<1>6. ASSUME NEW step \in {"plain", "zero"}, GoOn(step), step = "plain" <=> ~Old.compressed
      PROVE  IInv'
  <2>1. pc' = step
    BY <1>6 DEF GoOn
  <2>2. Old' = Old
    BY <1>1 DEF Old
  <2>3. Rewriting'
    BY <1>6, <2>1, <2>2 DEF Rewriting
  <2>4. Target' = Target
    <3>1. Target = IF Old.compressed THEN Rewritten(Old, req.v) ELSE Span(Old.pos, C)
      BY <1>1 DEF Target, Reach, AsPlain, Old
    <3>2. Rewritten(Old, req.v)' = Rewritten(Old, req.v)
      BY <1>1, <2>2 DEF Rewritten, Region, Span
    <3>3. Target' = IF step = "plain" THEN Span(Old.pos, C) ELSE Rewritten(Old, req.v)
      BY <1>6, <2>1, <2>2, <3>2 DEF Target
    <3>. QED
      BY <1>6, <3>1, <3>3
  <2>5. Others
    BY <1>1, <1>6 DEF Others, GoOn
  <2>6. \A g \in Guests : g # req.g /\ Tracked(g)' => Occupied(g) \cap Target' = {}
    BY <1>1, <1>3, <2>4, <2>5, OthersHeld
  <2>7. step \in Steps \ {"idle"}
    BY <1>6 DEF Steps
  <2>. QED
    BY <1>1, <1>3, <1>4, <1>6, <2>3, <2>6, <2>7, GoneOnKeeps
<1>. QED
  BY <1>1, <1>5, <1>6

(* What a call writes to a compressed cluster begins at its position and   *)
(* is within its target.                                                   *)
LEMMA RewriteKeeps ==
  ASSUME IInv, pc \in {"zero", "write"}, NEW units \in Seq(Unit),
         Len(units) <= Region(Old) \/ Len(units) <= Size[req.v]
  PROVE  Keeps(file, Overwritten(file, Old.pos, units), Target)
<1>1. /\ Old.pos \in Nat /\ file \in Seq(Unit) /\ Size[req.v] \in Nat /\ Region(Old) \in Nat
  BY Running
<1>2. PICK n \in Nat : n = Len(units)
  OBVIOUS
<1>3. Span(Old.pos, Len(units)) \subseteq Target
  <2>1. PICK p \in Nat, m \in Nat :
          p = Old.pos /\ m = (IF Size[req.v] > Region(Old) THEN Size[req.v] ELSE Region(Old))
    BY <1>1
  <2>2. n <= m
    BY <1>1, <1>2, <2>1
  <2>3. Target = p .. p + m - 1
    BY <2>1 DEF Target, Rewritten, Span
  <2>4. Span(Old.pos, Len(units)) = p .. p + n - 1
    BY <1>2, <2>1 DEF Span
  <2>. QED
    BY <2>2, <2>3, <2>4
<1>. QED
  BY <1>1, <1>3, WriteKeeps

LEMMA RewritingKeeps ==
  ASSUME IInv, pc \in {"zero", "write"}, NEW step \in {"write", "entry"}, GoOn(step),
         UNCHANGED <<base, entry, ref, req, death>>,
         Keeps(file, file', Target), step = "entry" => Holds(file', Old.pos, req.v)
  PROVE  IInv'
<1>1. Types /\ entry' \in [Guests -> PlaceEntry] /\ pc # "idle"
  BY Running
<1>2. pc' = step
  BY DEF GoOn
<1>3. Old' = Old
  BY DEF Old
<1>4. Rewriting'
  BY <1>2, <1>3 DEF Rewriting
<1>5. Target' = Target
  <2>1. Rewritten(Old, req.v)' = Rewritten(Old, req.v)
    BY <1>3 DEF Rewritten, Region, Span
  <2>. QED
    BY <1>2, <2>1 DEF Target
<1>6. Others
  BY DEF Others, GoOn
<1>7. \A g \in Guests : g # req.g /\ Tracked(g)' => Occupied(g) \cap Target' = {}
  BY <1>1, <1>5, <1>6, OthersHeld
<1>8. step \in Steps \ {"idle"}
  BY DEF Steps
<1>. QED
  BY <1>1, <1>4, <1>7, <1>8, GoneOnKeeps

LEMMA ZeroOldKeeps ==
  ASSUME IInv, ZeroOld \/ ZeroOldFails
  PROVE  IInv'
<1>1. /\ pc = "zero" /\ UNCHANGED <<base, entry, ref, req, death>>
      /\ GoOn("write") \/ ReturnError
  BY DEF ZeroOld, ZeroOldFails, At, Steady
<1>2. Types /\ Region(Old) \in Nat
  BY <1>1, Running
<1>3. PICK n \in 0 .. Region(Old) : file' = Overwritten(file, Old.pos, Zeros(n))
  BY <1>2 DEF ZeroOld, ZeroOldFails
<1>4. Zeros(n) \in Seq(Unit) /\ Len(Zeros(n)) <= Region(Old)
  BY <1>2, UnitsWritten
<1>5. Keeps(file, file', Target)
  BY <1>1, <1>3, <1>4, RewriteKeeps
<1>6. entry' \in [Guests -> PlaceEntry] /\ ref' \in [Guests -> Nat]
  BY <1>1, <1>2 DEF Types
<1>7. CASE ReturnError
  BY <1>1, <1>5, <1>6, <1>7, RefusedKeeps
<1>8. CASE GoOn("write")
  BY <1>1, <1>5, <1>8, RewritingKeeps
<1>. QED
  BY <1>1, <1>7, <1>8

LEMMA WriteNewKeeps ==
  ASSUME IInv, WriteNew \/ WriteNewFails
  PROVE  IInv'
<1>1. /\ pc = "write" /\ pc # "idle" /\ UNCHANGED <<base, ref, req, death>>
      /\ (WriteNew /\ GoOn("entry") /\ entry' = entry) \/ (WriteNewFails /\ ReturnError)
  BY DEF WriteNew, WriteNewFails, At, Steady
<1>2. /\ Types /\ req.v \in Values /\ req.g \in Guests /\ Old \in PlaceEntry /\ file \in Seq(Unit)
      /\ Old.pos \in Nat /\ Size[req.v] \in Nat
  BY <1>1, Running
<1>3. CASE WriteNew /\ GoOn("entry") /\ entry' = entry
  <2>1. file' = Overwritten(file, Old.pos, Deflated(req.v))
    BY <1>3 DEF WriteNew
  <2>2. /\ Deflated(req.v) \in Seq(Unit) /\ Len(Deflated(req.v)) = Size[req.v]
        /\ \A i \in 1 .. Size[req.v] : Deflated(req.v)[i] = <<req.v, i>>
    BY <1>2, UnitsWritten
  <2>3. Keeps(file, file', Target)
    BY <1>1, <1>2, <2>1, <2>2, RewriteKeeps
  <2>4. /\ Len(file') >= Old.pos + Size[req.v] /\ file' \in Seq(Unit)
        /\ \A i \in 1 .. Size[req.v] : file'[Old.pos + i] = <<req.v, i>>
    <3>. DEFINE units == Deflated(req.v)
    <3>1. units \in Seq(Unit)
      BY <2>2
    <3>. HIDE DEF units
    <3>2. /\ Overwritten(file, Old.pos, units) \in Seq(Unit)
          /\ Len(Overwritten(file, Old.pos, units)) >= Old.pos + Len(units)
          /\ \A i \in 1 .. Len(units) : Overwritten(file, Old.pos, units)[Old.pos + i] = units[i]
      BY <1>2, <3>1, OverwrittenFile
    <3>. QED
      BY <2>1, <2>2, <3>2 DEF units
  <2>5. PICK m \in Nat : m = Len(file')
    BY <2>4
  <2>6. \A i \in 1 .. Size[req.v] : Old.pos + i <= Len(file')
    BY <1>2, <2>4, <2>5
  <2>7. Holds(file', Old.pos, req.v)
    BY <2>4, <2>6 DEF Holds
  <2>. QED
    BY <1>1, <1>3, <2>3, <2>7, RewritingKeeps
<1>4. CASE WriteNewFails /\ ReturnError
  <2>1. PICK n \in 0 .. Size[req.v] - 1 :
          file' = Overwritten(file, Old.pos, SubSeq(Deflated(req.v), 1, n))
    BY <1>4 DEF WriteNewFails
  <2>2. SubSeq(Deflated(req.v), 1, n) \in Seq(Unit) /\ Len(SubSeq(Deflated(req.v), 1, n)) = n
    BY <1>2, PartWritten
  <2>3. n <= Size[req.v]
    BY <1>2
  <2>4. Keeps(file, file', Target)
    BY <1>1, <1>2, <2>1, <2>2, <2>3, RewriteKeeps
  <2>5. entry' = entry \/ entry' = [entry EXCEPT ![req.g] = NewEntry(@, req.v)]
    BY <1>4 DEF WriteNewFails
  <2>6. NewEntry(Old, req.v) \in PlaceEntry
    BY <1>2, EntryTypes
  <2>7. /\ entry' \in [Guests -> PlaceEntry] /\ ref' \in [Guests -> Nat]
        /\ \A g \in Guests : g # req.g => entry'[g] = entry[g]
    BY <1>1, <1>2, <2>5, <2>6 DEF Types, Old
  <2>. QED
    BY <1>1, <1>4, <2>4, <2>7, RefusedKeeps
<1>. QED
  BY <1>1, <1>3, <1>4

LEMMA SetEntryKeeps ==
  ASSUME IInv, SetEntry
  PROVE  IInv'
<1>1. /\ pc = "entry" /\ pc # "idle" /\ UNCHANGED <<file, base, ref, req, death>>
      /\ entry' = [entry EXCEPT ![req.g] = NewEntry(@, req.v)]
      /\ ReturnOk \/ ReturnError
  BY DEF SetEntry, At
<1>2. /\ Types /\ req.g \in Guests /\ req.v \in Values /\ Old \in PlaceEntry
      /\ Holds(file, Old.pos, req.v)
  BY <1>1, Running DEF IInv, Rewriting
<1>3. NewEntry(Old, req.v) \in PlaceEntry /\ NewEntry(Old, req.v).pos = Old.pos
  BY <1>2, EntryTypes
<1>4. /\ entry' \in [Guests -> PlaceEntry] /\ ref' \in [Guests -> Nat]
      /\ entry'[req.g].pos = Old.pos
      /\ \A g \in Guests : g # req.g => entry'[g] = entry[g]
  BY <1>1, <1>2, <1>3 DEF Types, Old
<1>5. Keeps(file, file', Target)
  BY <1>1, <1>2, SameKeeps
<1>6. CASE ReturnError
  BY <1>1, <1>4, <1>5, <1>6, RefusedKeeps
<1>7. CASE ReturnOk
  <2>1. /\ pc' = "idle" /\ result' = "ok" /\ want' = [want EXCEPT ![req.g] = req.v]
        /\ erred' = erred \ {req.g} /\ reached' = reached \ {req.g}
    BY <1>7 DEF ReturnOk
  <2>2. want' \in [Guests -> Values \cup {NULL}] /\ want'[req.g] = req.v
    BY <1>2, <2>1 DEF Types
  <2>3. Types'
    BY <1>1, <1>2, <1>4, <2>1, <2>2 DEF Types, Steps
  <2>4. Others
    BY <1>2, <1>4, <2>1 DEF Others, Types
  <2>5. Holds(file', entry'[req.g].pos, want'[req.g])
    BY <1>1, <1>2, <1>4, <2>2
  <2>. QED
    BY <1>1, <1>5, <2>1, <2>3, <2>4, <2>5, BackKeeps
<1>. QED
  BY <1>1, <1>6, <1>7

(* The end of the file, at the next beginning of a cluster.                *)
LEMMA AlignedEnd ==
  ASSUME NEW f \in Seq(Unit), base \in Nat, base <= Len(f)
  PROVE  Aligned(f) \in Nat /\ Aligned(f) >= Len(f)
<1>1. PICK n \in Nat : n = Len(f)
  OBVIOUS
<1>2. n - base \in Nat
  BY <1>1
<1>3. /\ ((n - base + C - 1) \div C) * C \in Nat
      /\ ((n - base + C - 1) \div C) * C >= n - base
  <2>1. 0 \in Nat
    OBVIOUS
  <2>. QED
    BY <1>2, <2>1, CopyPlace
<1>4. PICK m \in Nat : m = ((n - base + C - 1) \div C) * C
  BY <1>3
<1>. QED
  BY <1>1, <1>3, <1>4 DEF Aligned

(* A copy goes behind the end of the file, where no cluster is yet.        *)
LEMMA CopyWritten ==
  ASSUME Types, req.g \in Guests, Old \in PlaceEntry
  PROVE  /\ NewPos \in Nat /\ (NewPos \div S) * S \in Nat /\ (NewPos \div S) * S >= Len(file)
         /\ Longer(file, Extended) /\ Len(Extended) = NewPos
         /\ CopyRead => Longer(file, Copied) /\ Longer(Extended, Copied)
<1>1. PICK a \in Nat : a = Len(file)
  BY DEF Types
<1>2. file \in Seq(Unit) /\ Aligned(file) \in Nat /\ Aligned(file) >= a
  BY <1>1, AlignedEnd DEF Types
<1>3. Old.pos \in Nat /\ Old.additional_sectors \in Nat
  BY DEF PlaceEntry
<1>4. CopyUnits \in Nat /\ CopyUnits >= C
  BY <1>1, <1>3, CopyPlace DEF CopyUnits
<1>5. NewPos \in Nat /\ NewPos >= a + C
  BY <1>2, <1>4, Constants DEF NewPos
<1>6. PICK q \in Nat : q = NewPos \div S
  BY <1>5, Divided, Constants
<1>7. PICK p \in Nat : p = S * q
  BY <1>6, ProductNat, Constants
<1>8. NewPos = p + (NewPos % S) /\ NewPos % S \in 0 .. S - 1
  <2>1. NewPos = S * (NewPos \div S) + (NewPos % S) /\ NewPos % S \in 0 .. S - 1
    BY <1>5, Divided, Constants
  <2>2. S * (NewPos \div S) = p
    BY <1>6, <1>7, Zenon
  <2>. QED
    BY <2>1, <2>2, Zenon
<1>9. (NewPos \div S) * S = p
  BY <1>6, <1>7, Constants
<1>10. p >= a
  BY <1>5, <1>8, SectorInCluster, Constants
<1>11. <<>> \in Seq(Unit) /\ Len(<<>>) = 0
  OBVIOUS
<1>12. Longer(file, Extended)
  <2>1. NewPos >= Len(file)
    BY <1>1, <1>5, Constants
  <2>. QED
    BY <1>2, <1>5, <1>11, <2>1, BeyondIsLonger DEF Extended
<1>13. Len(Extended) = NewPos
  <2>1. (IF NewPos + Len(<<>>) > Len(file) THEN NewPos + Len(<<>>) ELSE Len(file)) = NewPos
    BY <1>1, <1>5, <1>11, Constants
  <2>2. DOMAIN Extended = 1 .. NewPos
    BY <2>1 DEF Extended, Overwritten
  <2>3. Extended \in Seq(Unit)
    BY <1>12 DEF Longer
  <2>. QED
    BY <1>5, <2>2, <2>3
<1>14. ASSUME CopyRead
       PROVE  Longer(Extended, Copied)
  <2>1. Extended \in Seq(Unit)
    BY <1>12 DEF Longer
  <2>2. PICK from \in Nat, to \in Nat : from = Old.pos + 1 /\ to = Old.pos + CopyUnits /\ to <= NewPos
    BY <1>3, <1>4, <1>14 DEF CopyRead
  <2>3. \A i \in from .. to : Extended[i] \in Unit
    <3>1. \A i \in from .. to : i \in 1 .. Len(Extended)
      BY <1>3, <1>5, <1>13, <2>2
    <3>. QED
      BY <2>1, <3>1
  <2>4. SubSeq(Extended, from, to) \in Seq(Unit)
    BY <2>3, SubSeqProperties
  <2>5. NewPos >= Len(Extended)
    BY <1>5, <1>13
  <2>6. Longer(Extended, Overwritten(Extended, NewPos, SubSeq(Extended, from, to)))
    BY <1>5, <2>1, <2>4, <2>5, BeyondIsLonger
  <2>. QED
    BY <2>2, <2>6 DEF Copied
<1>15. CopyRead => Longer(file, Copied)
  BY <1>2, <1>12, <1>14, LongerTwice
<1>. QED
  BY <1>1, <1>5, <1>9, <1>10, <1>12, <1>13, <1>14, <1>15

LEMMA PartCopiedKeeps ==
  ASSUME Types, req.g \in Guests, Old \in PlaceEntry, CopyRead, PartCopied
  PROVE  Longer(file, file')
<1>1. /\ NewPos \in Nat /\ Longer(file, Extended) /\ Len(Extended) = NewPos
      /\ Longer(file, Copied) /\ file \in Seq(Unit)
  BY CopyWritten DEF Types
<1>2. PICK a \in Nat, b \in Nat : a = Len(file) /\ b = Len(Copied)
  BY <1>1 DEF Longer
<1>3. PICK n \in NewPos .. Len(Copied) : file' = SubSeq(Copied, 1, n)
  BY DEF PartCopied
<1>4. n \in Nat /\ n >= Len(file) /\ n <= Len(Copied)
  BY <1>1, <1>2, <1>3 DEF Longer
<1>. QED
  BY <1>1, <1>3, <1>4, PrefixIsLonger

LEMMA CopySharedKeeps ==
  ASSUME IInv, CopyShared
  PROVE  IInv'
<1>1. /\ pc = "lookup" /\ pc # "idle" /\ ref[req.g] > 1 /\ CopyRead
      /\ file' = Copied \/ PartCopied
      /\ LinkCopy /\ GoOn("plain") /\ UNCHANGED <<base, ref, req, death>>
  BY DEF CopyShared, Copying, At
<1>2. /\ Types /\ req.g \in Guests /\ Old \in PlaceEntry /\ file \in Seq(Unit)
      /\ entry \in [Guests -> PlaceEntry] /\ ref[req.g] \in Nat
  BY <1>1, Running
<1>3. (NewPos \div S) * S \in Nat /\ (NewPos \div S) * S >= Len(file)
  BY <1>2, CopyWritten
<1>4. Longer(file, file')
  BY <1>1, <1>2, CopyWritten, PartCopiedKeeps
<1>5. Keeps(file, file', Target)
  BY <1>2, <1>4, LongerKeeps
<1>6. CopyEntry \in PlaceEntry /\ ~CopyEntry.compressed /\ CopyEntry.pos = (NewPos \div S) * S
  BY <1>3 DEF CopyEntry, PlaceEntry
<1>7. /\ entry' \in [Guests -> PlaceEntry] /\ entry'[req.g] = CopyEntry
      /\ \A g \in Guests : g # req.g => entry'[g] = entry[g]
  BY <1>1, <1>2, <1>6 DEF LinkCopy
<1>8. pc' = "plain" /\ Old' = CopyEntry
  BY <1>1, <1>7 DEF GoOn, Old
<1>9. Rewriting'
  BY <1>6, <1>8 DEF Rewriting
<1>10. Target' = Span(CopyEntry.pos, C)
  BY <1>8 DEF Target
<1>11. Others
  BY <1>1, <1>7 DEF Others, GoOn
<1>12. ASSUME NEW g \in Guests, g # req.g, Tracked(g)'
       PROVE  Occupied(g) \cap Target' = {}
  <2>1. /\ want[g] \in Values /\ entry[g] \in PlaceEntry
        /\ Holds(file, entry[g].pos, want[g])
    BY <1>1, <1>5, <1>11, <1>12, OthersHeld
  <2>2. PICK a \in Nat, p \in Nat, n \in Nat \ {0} :
          a = Len(file) /\ p = entry[g].pos /\ n = Size[want[g]]
    BY <1>2, <2>1, SizeNat DEF PlaceEntry
  <2>3. p + n <= a
    <3>1. n \in 1 .. Size[want[g]]
      BY <2>2
    <3>. QED
      BY <2>1, <2>2, <3>1 DEF Holds
  <2>4. Occupied(g) = p .. p + n - 1
    BY <2>2 DEF Occupied, Span
  <2>5. PICK q \in Nat : q = CopyEntry.pos /\ q >= a
    BY <1>3, <1>6, <2>2
  <2>6. Target' = q .. q + C - 1
    BY <1>10, <2>5 DEF Span
  <2>. QED
    BY <2>3, <2>4, <2>5, <2>6, Constants
<1>13. "plain" \in Steps \ {"idle"}
  BY DEF Steps
<1>. QED
  BY <1>1, <1>5, <1>7, <1>9, <1>12, <1>13, GoneOnKeeps

LEMMA CopyFailsKeeps ==
  ASSUME IInv, CopySharedFails
  PROVE  IInv'
<1>1. /\ pc # "idle" /\ ReturnError /\ UNCHANGED <<base, ref, req, death>>
      /\ LinkCopy \/ UNCHANGED entry
      /\ \/ file' = Extended
         \/ \E n \in Len(file) .. NewPos : file' = SubSeq(Extended, 1, n)
         \/ CopyRead /\ PartCopied
  BY DEF CopySharedFails, Copying, At
<1>2. /\ Types /\ req.g \in Guests /\ Old \in PlaceEntry /\ file \in Seq(Unit)
      /\ entry \in [Guests -> PlaceEntry] /\ ref \in [Guests -> Nat]
  BY <1>1, Running
<1>3. /\ (NewPos \div S) * S \in Nat /\ NewPos \in Nat
      /\ Longer(file, Extended) /\ Len(Extended) = NewPos
  BY <1>2, CopyWritten
<1>4. Longer(file, file')
  <2>1. ASSUME NEW n \in Len(file) .. NewPos, file' = SubSeq(Extended, 1, n)
        PROVE  Longer(file, file')
    <3>1. PICK a \in Nat : a = Len(file)
      BY <1>2
    <3>2. n \in Nat /\ n >= Len(file) /\ n <= Len(Extended)
      BY <1>3, <3>1
    <3>. QED
      BY <1>2, <1>3, <2>1, <3>2, PrefixIsLonger
  <2>. QED
    BY <1>1, <1>2, <1>3, <2>1, PartCopiedKeeps
<1>5. Keeps(file, file', Target)
  BY <1>2, <1>4, LongerKeeps
<1>6. CopyEntry \in PlaceEntry
  BY <1>3 DEF CopyEntry, PlaceEntry
<1>7. /\ entry' \in [Guests -> PlaceEntry]
      /\ \A g \in Guests : g # req.g => entry'[g] = entry[g]
  BY <1>1, <1>2, <1>6 DEF LinkCopy
<1>. QED
  BY <1>1, <1>2, <1>5, <1>7, RefusedKeeps

(* The data of a plain cluster is within the cluster, and a new refcount   *)
(* block behind the end.                                                   *)
LEMMA WritePlainKeeps ==
  ASSUME IInv, WritePlain
  PROVE  IInv'
<1>1. /\ pc = "plain" /\ pc # "idle" /\ ReturnOk /\ UNCHANGED <<base, entry, req, death>>
      /\ ref' = [ref EXCEPT ![req.g] = 1] \/ ref' = ref
  BY DEF WritePlain, At
<1>2. /\ Types /\ req.g \in Guests /\ req.v \in Values /\ Old \in PlaceEntry /\ Old.pos \in Nat
      /\ file \in Seq(Unit) /\ entry \in [Guests -> PlaceEntry] /\ ref \in [Guests -> Nat]
  BY <1>1, Running
<1>3. PICK a \in 0 .. C, n \in 0 .. C :
        /\ a + n <= C
        /\ LET written == Overwritten(file, Old.pos + a, Plains(n))
           IN  file' = written \/ file' = NewBlock(written)
  BY DEF WritePlain
<1>. DEFINE written == Overwritten(file, Old.pos + a, Plains(n))
<1>4. Plains(n) \in Seq(Unit) /\ Len(Plains(n)) = n
  BY Constants, UnitsWritten
<1>5. Span(Old.pos + a, n) \subseteq Target
  BY <1>1, <1>2, <1>3, Constants DEF Target, Span
<1>6. Old.pos + a \in Nat
  BY <1>2, Constants
<1>7. Keeps(file, written, Target)
  BY <1>2, <1>4, <1>5, <1>6, WriteKeeps
<1>. HIDE DEF written
<1>8. written \in Seq(Unit) /\ base \in Nat /\ base <= Len(written)
  <2>1. PICK b \in Nat, c \in Nat : b = Len(file) /\ c = Len(written)
    BY <1>2, <1>7 DEF Keeps
  <2>. QED
    BY <1>2, <1>7, <2>1 DEF Keeps, Types
<1>9. Longer(written, NewBlock(written))
  <2>1. PICK c \in Nat : c = Len(written)
    BY <1>8
  <2>2. Aligned(written) + C \in Nat /\ Aligned(written) + C >= Len(written)
    BY <1>8, <2>1, AlignedEnd, Constants
  <2>3. <<Plain>> \in Seq(Unit)
    BY DEF Plain, Unit
  <2>. QED
    BY <1>8, <2>2, <2>3, BeyondIsLonger DEF NewBlock
<1>10. Keeps(file, file', Target)
  BY <1>2, <1>3, <1>7, <1>9, KeepsLonger DEF written
<1>11. /\ pc' = "idle" /\ result' = "ok" /\ want' = [want EXCEPT ![req.g] = req.v]
       /\ erred' = erred \ {req.g} /\ reached' = reached \ {req.g}
  BY <1>1 DEF ReturnOk
<1>12. file' \in Seq(Unit) /\ base' <= Len(file')
  <2>1. PICK b \in Nat, c \in Nat : b = Len(file) /\ c = Len(file')
    BY <1>2, <1>10 DEF Keeps
  <2>. QED
    BY <1>1, <1>2, <1>10, <2>1 DEF Keeps, Types
<1>13. ref' \in [Guests -> Nat] /\ want' \in [Guests -> Values \cup {NULL}]
  <2>1. [ref EXCEPT ![req.g] = 1] \in [Guests -> Nat]
    BY <1>2
  <2>2. [want EXCEPT ![req.g] = req.v] \in [Guests -> Values \cup {NULL}]
    BY <1>2 DEF Types
  <2>. QED
    BY <1>1, <1>2, <1>11, <2>1, <2>2
<1>14. Types'
  BY <1>1, <1>2, <1>11, <1>12, <1>13 DEF Types, Steps
<1>15. Others
  BY <1>1, <1>2, <1>11 DEF Others, Types
<1>16. ~Tracked(req.g)'
  BY <1>1 DEF IInv, Rewriting, Tracked, Old
<1>. QED
  BY <1>1, <1>10, <1>11, <1>14, <1>15, <1>16, BackKeeps

LEMMA StutterKeeps ==
  ASSUME IInv, UNCHANGED vars
  PROVE  IInv'
<1>1. Types' /\ Rewriting'
  BY DEF IInv, Types, Rewriting, Old, vars
<1>2. \A g \in Guests : (Tracked(g)' <=> Tracked(g)) /\ Occupied(g)' = Occupied(g)
  BY DEF Tracked, Occupied, vars
<1>3. Target' = Target
  BY DEF Target, Reach, Rewritten, Region, AsPlain, Span, Old, vars
<1>4. AllHeld' /\ Clear'
  BY <1>2, <1>3 DEF IInv, AllHeld, Clear, vars
<1>. QED
  BY <1>1, <1>4 DEF IInv

LEMMA StepKeeps ==
  ASSUME IInv, [Next]_vars
  PROVE  IInv'
<1>1. CASE StartWrite
  BY <1>1, StartWriteKeeps
<1>2. CASE RefuseEntry \/ DeflateFails
  BY <1>2, RefuseKeeps
<1>3. CASE MakePlain
  BY <1>3, MakePlainKeeps
<1>4. CASE FindPlain \/ ReadOld
  BY <1>4, FoundKeeps
<1>5. CASE ReadShort \/ CopyPlain
  BY <1>5, DeathKeeps
<1>6. CASE ZeroOld \/ ZeroOldFails
  BY <1>6, ZeroOldKeeps
<1>7. CASE WriteNew \/ WriteNewFails
  BY <1>7, WriteNewKeeps
<1>8. CASE SetEntry
  BY <1>8, SetEntryKeeps
<1>9. CASE CopyShared \/ CopySharedFails
  BY <1>9, CopySharedKeeps, CopyFailsKeeps
<1>10. CASE WritePlain
  BY <1>10, WritePlainKeeps
<1>11. CASE UNCHANGED vars
  BY <1>11, StutterKeeps
<1>. QED
  BY <1>1, <1>2, <1>3, <1>4, <1>5, <1>6, <1>7, <1>8, <1>9, <1>10, <1>11 DEF Next, Step

LEMMA KeptByHeld ==
  ASSUME IInv
  PROVE  ClustersKept
<1>1. Types
  BY DEF IInv
<1>2. TypeOK
  <2>1. \A g \in Guests : entry[g].pos \in Nat /\ entry[g].additional_sectors \in Nat
    BY <1>1 DEF Types, PlaceEntry
  <2>2. \A i \in DOMAIN file : file[i][1] \in Values \cup {NULL} /\ file[i][2] \in Nat
    <3>. TAKE i \in DOMAIN file
    <3>1. file[i] \in Unit
      BY <1>1 DEF Types
    <3>. QED
      BY <3>1 DEF Unit
  <2>. QED
    BY <1>1, <2>1, <2>2 DEF TypeOK, Types, Steps
<1>3. ASSUME NEW g \in Guests, Readable(g), want[g] # NULL, g \notin erred \cup reached,
             Size[want[g]] <= Region(entry[g])
      PROVE  Inflated(g) = want[g]
  <2>1. Tracked(g) /\ ~Short(file, entry[g])
    BY <1>3 DEF Tracked, Readable
  <2>2. /\ want[g] \in Values /\ Holds(file, entry[g].pos, want[g])
        /\ file \in Seq(Unit) /\ entry[g] \in PlaceEntry
    BY <1>1, <1>3, <2>1 DEF IInv, AllHeld, Types
  <2>3. Begins(file, entry[g]) = {v \in Values : Reads(file, entry[g], v)}
    BY <2>1, <2>2, BeginsIsReads
  <2>4. Reads(file, entry[g], want[g])
    BY <1>3, <2>2 DEF Reads
  <2>5. Begins(file, entry[g]) = {want[g]}
    BY <2>2, <2>3, <2>4, OneValue
  <2>. QED
    BY <2>1, <2>5 DEF Inflated
<1>. QED
  BY <1>2, <1>3 DEF ClustersKept

(* A compressed cluster reads as what was written to it last, or what it   *)
(* held at first, unless a failed call was about it, a call about another  *)
(* cluster reaches its units, or its entry names too small a region for    *)
(* the value: for every image, whatever is counted for its clusters,       *)
(* whatever is written where, and wherever a call fails.                   *)
THEOREM ClustersTheorem == Spec => []ClustersKept
<1>1. Init => IInv
  BY Initially
<1>2. IInv /\ [Next]_vars => IInv'
  BY StepKeeps
<1>3. IInv => ClustersKept
  BY KeptByHeld
<1>. QED
  BY <1>1, <1>2, <1>3, PTL DEF Spec

=============================================================================
