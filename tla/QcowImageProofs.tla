--------------------------- MODULE QcowImageProofs ---------------------------
(***************************************************************************)
(* Theorems about QcowImage, for every value of its constants: the types,  *)
(* and that no two clusters overlap, whatever fails and wherever the       *)
(* process stops.                                                          *)
(***************************************************************************)
EXTENDS QcowImage, TLAPS

-----------------------------------------------------------------------------
(* Remainders and multiples.                                               *)

RoundDown(n, b) == n - (n % b)

(* A remainder is below its divisor, and completes the product with the    *)
(* quotient.                                                               *)
LEMMA RemainderRange ==
  ASSUME NEW a \in Nat, NEW b \in Nat \ {0}
  PROVE  a % b \in 0 .. b - 1 /\ a \div b \in Nat /\ a = b * (a \div b) + (a % b)
  BY SMT

(* The remainder of a negative number is in the same range.                *)
LEMMA IntegerRemainder ==
  ASSUME NEW a \in Int, NEW b \in Nat \ {0}
  PROVE  a % b \in 0 .. b - 1
  BY SMT

(* A product of naturals is a natural.                                     *)
LEMMA ProductNat ==
  ASSUME NEW a \in Nat, NEW b \in Nat
  PROVE  a * b \in Nat
  BY SMT

(* A multiple has no remainder.                                            *)
LEMMA MultipleRemainder ==
  ASSUME NEW b \in Nat \ {0}, NEW q \in Nat
  PROVE  (b * q) % b = 0
  BY SMT

(* Multiplication respects the order.                                      *)
LEMMA ProductMonotone ==
  ASSUME NEW b \in Nat \ {0}, NEW p \in Int, NEW q \in Int
  PROVE  (p <= q => b * p <= b * q) /\ (b * p < b * q => p < q)
  BY SMT

(* The sum of two multiples is a multiple.                                 *)
LEMMA SumOfMultiples ==
  ASSUME NEW a \in Nat, NEW c \in Nat, NEW b \in Nat \ {0}, a % b = 0, c % b = 0
  PROVE  (a + c) % b = 0
<1>1. a = b * (a \div b) /\ a \div b \in Nat
  <2>1. a = b * (a \div b) + (a % b) /\ a \div b \in Nat
    BY RemainderRange, Zenon
  <2>2. b * (a \div b) \in Nat
    BY <2>1, ProductNat, Zenon
  <2> QED
    BY <2>1, <2>2
<1>2. c = b * (c \div b) /\ c \div b \in Nat
  <2>1. c = b * (c \div b) + (c % b) /\ c \div b \in Nat
    BY RemainderRange, Zenon
  <2>2. b * (c \div b) \in Nat
    BY <2>1, ProductNat, Zenon
  <2> QED
    BY <2>1, <2>2
<1> DEFINE p == a \div b
           q == c \div b
<1>3. p \in Nat /\ q \in Nat /\ a = b * p /\ c = b * q
  BY <1>1, <1>2
<1> HIDE DEF p, q
<1>4. a + c = b * (p + q) /\ p + q \in Nat
  BY <1>3
<1> QED
  BY <1>4, MultipleRemainder, Zenon

(* Rounding down gives the greatest multiple that is not greater.          *)
LEMMA RoundDownRange ==
  ASSUME NEW n \in Nat, NEW b \in Nat \ {0}
  PROVE  /\ RoundDown(n, b) \in Nat
         /\ RoundDown(n, b) <= n
         /\ n < RoundDown(n, b) + b
         /\ RoundDown(n, b) % b = 0
<1> DEFINE r == n % b
           q == n \div b
           t == b * q
<1>1. r \in 0 .. b - 1 /\ q \in Nat /\ n = t + r
  BY RemainderRange, Zenon
<1>2. t \in Nat
  BY <1>1, ProductNat, Zenon
<1>3. t % b = 0
  BY <1>1, MultipleRemainder, Zenon
<1>4. RoundDown(n, b) = n - r
  BY DEF RoundDown
<1> HIDE DEF r, t, q
<1>5. RoundDown(n, b) = t
  BY <1>1, <1>2, <1>4
<1> QED
  BY <1>1, <1>2, <1>3, <1>5

LEMMA RoundDownGreatest ==
  ASSUME NEW n \in Nat, NEW m \in Nat, NEW b \in Nat \ {0}, m % b = 0, m <= n
  PROVE  m <= RoundDown(n, b)
<1> DEFINE r == n % b
           q == n \div b
           p == m \div b
<1>1. r \in 0 .. b - 1 /\ q \in Nat /\ n = b * q + r
  BY RemainderRange, Zenon
<1>2. p \in Nat /\ m = b * p + (m % b)
  BY RemainderRange, Zenon
<1>3. RoundDown(n, b) = n - r
  BY DEF RoundDown
<1> HIDE DEF r, q, p
<1>4. b * p \in Nat /\ b * q \in Nat
  BY <1>1, <1>2, ProductNat, Zenon
<1>5. m = b * p
  BY <1>2, <1>4
<1>6. b * p < b * (q + 1)
  <2>1. b * (q + 1) = b * q + b
    BY <1>1
  <2> QED
    BY <2>1, <1>1, <1>4, <1>5
<1>7. p < q + 1
  BY <1>6, <1>1, <1>2, ProductMonotone
<1>8. b * p <= b * q
  <2>1. p <= q
    BY <1>7, <1>1, <1>2
  <2> QED
    BY <2>1, <1>1, <1>2, ProductMonotone
<1> QED
  BY <1>1, <1>3, <1>4, <1>5, <1>8

(* Quotients in order leave no equal sums with remainders.                 *)
LEMMA QuotientOrder ==
  ASSUME NEW b \in Nat \ {0}, NEW p \in Int, NEW q \in Int, p < q,
         NEW r \in 0 .. b - 1, NEW s \in 0 .. b - 1
  PROVE  b * p + r # b * q + s
<1>1. b * (p + 1) <= b * q
  BY ProductMonotone
<1>2. b * (p + 1) = b * p + b
  BY SMT
<1>3. PICK x \in Int, y \in Int : x = b * p /\ y = b * q
  BY SMT
<1>4. x + b <= y
  BY <1>1, <1>2, <1>3
<1>5. x + r # y + s
  BY <1>3, <1>4
<1> QED
  BY <1>3, <1>5

(* The divisor added to a number does not change its remainder.            *)
LEMMA RemainderPeriod ==
  ASSUME NEW m \in Nat, NEW b \in Nat \ {0}
  PROVE  (m + b) % b = m % b
<1>1. PICK q \in Nat, r \in 0 .. b - 1 : m = b * q + r /\ m % b = r
  BY RemainderRange, Zenon
<1>2. PICK p \in Nat, s \in 0 .. b - 1 : m + b = b * p + s /\ (m + b) % b = s
  <2>1. m + b \in Nat
    OBVIOUS
  <2> QED
    BY <2>1, RemainderRange, Zenon
<1>3. b * (q + 1) = b * q + b
  BY SMT
<1>4. b * (q + 1) + r = b * p + s
  <2>1. PICK x \in Int : x = b * q
    BY SMT
  <2>2. PICK y \in Int : y = b * p
    BY SMT
  <2>3. x + b + r = y + s
    BY <1>1, <1>2, <2>1, <2>2
  <2> QED
    BY <1>3, <2>1, <2>2, <2>3
<1>5. q + 1 = p
  BY <1>4, QuotientOrder
<1>6. r = s
  <2>1. PICK y \in Int : y = b * p
    BY SMT
  <2>2. y + r = y + s
    BY <1>4, <1>5, <2>1
  <2> QED
    BY <2>2
<1> QED
  BY <1>1, <1>2, <1>6

-----------------------------------------------------------------------------
(* Addresses.                                                              *)

(* Mask rounds down to a sector.                                           *)
LEMMA MaskRange ==
  ASSUME NEW n \in Nat
  PROVE  /\ Mask(n) \in Nat /\ Mask(n) <= n /\ n < Mask(n) + Sector
         /\ Mask(n) % Sector = 0
<1>1. Sector \in Nat \ {0}
  BY SizesAssumption
<1>2. Mask(n) = RoundDown(n, Sector)
  BY DEF Mask, RoundDown
<1> QED
  BY <1>1, <1>2, RoundDownRange

(* A place is in a slot of a table, and the number of the table a natural. *)
LEMMA IndexRange ==
  ASSUME NEW g \in Nat
  PROVE  L2Of(g) \in Slots /\ L1Of(g) \in Nat /\ g % ClusterSize \in Slots
<1>1. ClusterSize \in Nat \ {0}
  BY SizesAssumption
<1>2. ClusterOf(g) \in Nat /\ g % ClusterSize \in 0 .. ClusterSize - 1
  BY <1>1, RemainderRange DEF ClusterOf
<1>3. L1Of(g) \in Nat /\ ClusterOf(g) % ClusterSize \in 0 .. ClusterSize - 1
  BY <1>1, <1>2, RemainderRange DEF L1Of
<1> QED
  BY <1>2, <1>3 DEF L2Of, Slots

LEMMA ZeroIsWord == Zero \in Word
  BY DEF Zero, Word

LEMMA AtType ==
  ASSUME FileOK, NEW a
  PROVE  At(a) \in Word
  BY ZeroIsWord DEF FileOK, At

(* What a write of the file leaves is a file.                              *)
LEMMA PutWordType ==
  ASSUME FileOK, NEW a \in Nat, NEW w \in Word, PutWord(a, w)
  PROVE  FileOK'
<1>1. Larger(eof, a + 1) \in Nat
  BY DEF FileOK, Larger
<1>2. \A x : At(x) \in Word
  BY AtType
<1> QED
  BY <1>1, <1>2 DEF FileOK, PutWord

LEMMA ZeroToType ==
  ASSUME FileOK, NEW end \in Nat, ZeroTo(end)
  PROVE  FileOK'
<1>1. \A x : At(x) \in Word
  BY AtType
<1> QED
  BY <1>1 DEF FileOK, ZeroTo

LEMMA PayloadType ==
  ASSUME NEW c \in Nat, NEW k \in Nat
  PROVE  Payload(c, k) \in Word
<1>1. GuestWords \in Nat
  <2>1. L1Size * ClusterSize \in Nat
    BY ProductNat, SizesAssumption
  <2> QED
    BY <2>1, ProductNat, SizesAssumption DEF GuestWords
<1>2. c * GuestWords \in Nat
  BY <1>1, ProductNat
<1>3. c * GuestWords + k \in Nat
  BY <1>2
<1> QED
  BY <1>3 DEF Payload, Word

LEMMA PutDataType ==
  ASSUME FileOK, entry \in Word, calls \in Nat, done \in Nat, Off \in Nat,
         NEW m \in Nat, PutData(m)
  PROVE  FileOK'
<1> DEFINE at == Mask(entry.n) + (Off % ClusterSize)
           end == IF m = 0 THEN eof ELSE Larger(eof, at + m)
<1>1. at \in Nat
  <2>1. entry.n \in Nat
    BY DEF Word
  <2>2. Mask(entry.n) \in Nat
    BY <2>1, MaskRange
  <2>3. Off % ClusterSize \in Nat
    BY IndexRange, SizesAssumption DEF Slots
  <2> QED
    BY <2>2, <2>3
<1>2. end \in Nat
  BY <1>1 DEF FileOK, Larger
<1>3. /\ eof' = end
      /\ disk' = [x \in 0 .. end - 1 |->
           IF x >= at /\ x < at + m THEN Payload(calls, done + (x - at)) ELSE At(x)]
  BY DEF PutData
<1> HIDE DEF at, end
<1>4. ASSUME NEW x \in 0 .. end - 1
      PROVE  (IF x >= at /\ x < at + m THEN Payload(calls, done + (x - at)) ELSE At(x))
               \in Word
  <2>1. CASE x >= at /\ x < at + m
    <3>1. done + (x - at) \in Nat
      BY <1>1, <1>2, <2>1
    <3> QED
      BY <2>1, <3>1, PayloadType
  <2>2. CASE ~(x >= at /\ x < at + m)
    BY <2>2, AtType
  <2> QED
    BY <2>1, <2>2
<1> QED
  BY <1>2, <1>3, <1>4 DEF FileOK

-----------------------------------------------------------------------------
(* Types of the parts of a step.                                           *)

LEMMA OffType ==
  ASSUME FrameOK
  PROVE  /\ Off \in Nat /\ L1Of(Off) \in Nat /\ L2Of(Off) \in Slots
         /\ Chunk \in Nat \ {0} /\ Chunk <= req.len - done
<1>1. Off \in Nat
  BY DEF FrameOK, Off
<1>2. Off % ClusterSize \in 0 .. ClusterSize - 1
  BY <1>1, SizesAssumption, RemainderRange
<1>3. Chunk \in Nat \ {0} /\ Chunk <= req.len - done
  <2> DEFINE r == Off % ClusterSize
             left == req.len - done
  <2>1. r \in 0 .. ClusterSize - 1 /\ ClusterSize \in Nat
    BY <1>2, SizesAssumption
  <2>2. left \in Nat \ {0}
    BY DEF FrameOK
  <2>3. Chunk = Smaller(left, ClusterSize - r)
    BY DEF Chunk
  <2> HIDE DEF r, left
  <2>4. Chunk \in Nat \ {0} /\ Chunk <= left
    BY <2>1, <2>2, <2>3 DEF Smaller
  <2> QED
    BY <2>4 DEF left
<1> QED
  BY <1>1, <1>3, IndexRange

(* extend_img_file grows the file by a cluster at least.                   *)
LEMMA ExtendedEofRange ==
  ASSUME eof \in Nat, base \in Nat
  PROVE  ExtendedEof \in Nat /\ ExtendedEof >= eof + ClusterSize
<1> DEFINE over == (eof - base) % ClusterSize
<1>1. over \in 0 .. ClusterSize - 1 /\ ClusterSize \in Nat
  BY SizesAssumption, IntegerRemainder
<1>2. ExtendedEof = eof + (IF over = 0 THEN 0 ELSE ClusterSize - over) + ClusterSize
  BY DEF ExtendedEof
<1> HIDE DEF over
<1> QED
  BY <1>1, <1>2

LEMMA ReleaseType ==
  ASSUME Release
  PROVE  ContextOK'
  BY DEF Release, ContextOK

LEMMA EmptyFrameType ==
  ASSUME FrameOK, EmptyFrame, req' = req
  PROVE  FrameOK'
<1>1. 0 \in 0 .. req.len - 1
  BY DEF FrameOK
<1> QED
  BY <1>1, ZeroIsWord DEF FrameOK, EmptyFrame

LEMMA ReturnErrorType ==
  ASSUME FrameOK, CallsOK, NEW err \in ReadStatuses, ReturnError(err), req' = req
  PROVE  /\ FrameOK'
         /\ result' \in ReadStatuses /\ allowed' \in [Guest -> SUBSET Word]
         /\ erred' \in BOOLEAN
<1>1. FrameOK'
  BY EmptyFrameType DEF ReturnError
<1> QED
  BY <1>1 DEF ReturnError, CallsOK

LEMMA NextClusterType ==
  ASSUME FrameOK, CallsOK, NextCluster, req' = req
  PROVE  /\ FrameOK'
         /\ result' \in ReadStatuses \cup {"killed"}
         /\ allowed' \in [Guest -> SUBSET Word]
         /\ erred' \in BOOLEAN
<1>1. CASE done + Chunk = req.len /\ ReturnOk
  <2>1. FrameOK'
    BY <1>1, EmptyFrameType DEF ReturnOk
  <2>2. ASSUME NEW g \in Guest
        PROVE  (IF Written(g) THEN {Payload(calls, g - req.off)} ELSE allowed[g])
                 \in SUBSET Word
    <3>1. CASE Written(g)
      <4>1. g - req.off \in Nat
        BY <3>1 DEF Written, FrameOK, Guest
      <4> QED
        BY <3>1, <4>1, PayloadType DEF CallsOK
    <3>2. CASE ~Written(g)
      BY <3>2 DEF CallsOK
    <3> QED
      BY <3>1, <3>2
  <2>3. allowed' \in [Guest -> SUBSET Word]
    BY <1>1, <2>2 DEF ReturnOk
  <2> QED
    BY <1>1, <2>1, <2>3 DEF ReturnOk, CallsOK, ReadStatuses
<1>2. CASE /\ done + Chunk < req.len
           /\ pc' = "lookup"
           /\ done' = done + Chunk
           /\ entry' = Zero
           /\ pos' = 0
           /\ UNCHANGED <<result, allowed, erred>>
  <2>1. done + Chunk \in 0 .. req.len - 1
    BY <1>2, OffType DEF FrameOK
  <2> QED
    BY <1>2, <2>1, ZeroIsWord DEF FrameOK, CallsOK
<1> QED
  BY <1>1, <1>2 DEF NextCluster

-----------------------------------------------------------------------------
(* Type correctness.                                                       *)

LEMMA StatusType ==
  ASSUME NEW g
  PROVE  Lba(g) \in ReadStatuses
  BY DEF Lba, ReadStatuses

(* An entry is read in a table only when the table is there.               *)
LEMMA MappedType ==
  ASSUME ContextOK, FrameOK, Lba(Off) = "no_error"
  PROVE  Mapped(Off) \in Word
<1>1. L1Of(Off) \in L1Index /\ l1[L1Of(Off)] # NoTable
  BY DEF Lba
<1>2. L2Of(Off) \in Slots
  BY OffType
<1> QED
  BY <1>1, <1>2 DEF ContextOK, Table, Mapped

LEMMA LoadedType ==
  ASSUME FileOK
  PROVE  /\ LoadedL1 \in [L1Index -> Table \cup {NoTable}]
         /\ LoadedRefs \in [RefIndex -> Table \cup {NoTable}]
<1>1. \A x : At(x) \in Word
  BY AtType
<1> QED
  BY <1>1 DEF LoadedL1, LoadedRefs, Table

(* The variables but the buffer and what only the properties look at.      *)
CoreOK == FileOK /\ ContextOK /\ FrameOK /\ CallsOK

LEMMA InitType ==
  ASSUME Init
  PROVE  TypeOK
<1>1. FileOK
  BY ImagesAssumption DEF Init, FileOK
<1>2. ContextOK
  BY DEF Init, ContextOK
<1>3. FrameOK
  BY ZeroIsWord DEF Init, FrameOK
<1>4. \A g : DiskWord(g) \in Word
  BY <1>1, AtType, ZeroIsWord DEF DiskWord
<1>5. CallsOK
  BY <1>4 DEF Init, CallsOK, ReadStatuses
<1>6. BufferOK
  BY ZeroIsWord DEF Init, BufferOK, Buffered, Flushed
<1>7. MarksOK
  BY DEF Init, MarksOK
<1> QED
  BY <1>1, <1>2, <1>3, <1>5, <1>6, <1>7 DEF TypeOK

LEMMA OpenType ==
  ASSUME TypeOK, Open \/ OpenFails \/ Close
  PROVE  CoreOK'
<1> USE DEF TypeOK, CoreOK
<1>1. FileOK' /\ FrameOK'
  BY DEF Open, OpenFails, Close, FileOK, FrameOK, file, frame
<1>2. ContextOK'
  <2>1. CASE Open
    BY <2>1, LoadedType DEF Open, ContextOK, FileOK
  <2>2. CASE OpenFails
    BY <2>2 DEF OpenFails, ContextOK, context
  <2>3. CASE Close
    BY <2>3, ReleaseType DEF Close
  <2> QED
    BY <2>1, <2>2, <2>3
<1>3. CallsOK'
  <2>1. CASE Open
    <3>1. erred' \in BOOLEAN
      BY <2>1, Zenon DEF Open
    <3>2. result' = "no_error" /\ opens' = opens + 1
          /\ UNCHANGED <<calls, faults, crashes, allowed>>
      BY <2>1, Zenon DEF Open
    <3> QED
      BY <3>1, <3>2 DEF CallsOK, ReadStatuses
  <2>2. CASE OpenFails
    BY <2>2 DEF OpenFails, CallsOK, ReadStatuses, ghosts
  <2>3. CASE Close
    BY <2>3 DEF Close, CallsOK, counters, ghosts
  <2> QED
    BY <2>1, <2>2, <2>3
<1> QED
  BY <1>1, <1>2, <1>3

LEMMA StartWriteType ==
  ASSUME TypeOK, StartWrite
  PROVE  CoreOK'
<1> USE DEF TypeOK, CoreOK
<1>1. FileOK' /\ ContextOK'
  BY DEF StartWrite, FileOK, ContextOK, file, context
<1>2. PICK r \in Requests :
        /\ req' = r
        /\ allowed' = [g \in Guest |->
             IF g >= r.off /\ g < r.off + r.len
             THEN allowed[g] \cup {Payload(calls + 1, g - r.off)} ELSE allowed[g]]
  BY DEF StartWrite
<1>3. r \in [off : Nat, len : Nat \ {0}]
  BY EnvironmentAssumption
<1>4. FrameOK'
  BY <1>2, <1>3 DEF StartWrite, FrameOK
<1>5. ASSUME NEW g \in Guest
      PROVE  (IF g >= r.off /\ g < r.off + r.len
              THEN allowed[g] \cup {Payload(calls + 1, g - r.off)} ELSE allowed[g])
               \in SUBSET Word
  <2>1. calls + 1 \in Nat /\ allowed[g] \in SUBSET Word
    BY DEF CallsOK
  <2>2. CASE g >= r.off /\ g < r.off + r.len
    <3>1. g - r.off \in Nat
      BY <1>3, <2>2 DEF Guest
    <3>2. Payload(calls + 1, g - r.off) \in Word
      BY <2>1, <3>1, PayloadType
    <3> QED
      BY <2>1, <2>2, <3>2
  <2>3. CASE ~(g >= r.off /\ g < r.off + r.len)
    BY <2>1, <2>3
  <2> QED
    BY <2>2, <2>3
<1>6. allowed' \in [Guest -> SUBSET Word]
  BY <1>2, <1>5
<1>7. CallsOK'
  BY <1>6 DEF StartWrite, CallsOK
<1> QED
  BY <1>1, <1>4, <1>7

LEMMA LookupType ==
  ASSUME TypeOK, Lookup
  PROVE  CoreOK'
<1> USE DEF TypeOK, CoreOK
<1>1. CASE LookupFails
  <2>1. \E err \in ReadStatuses : ReturnError(err) /\ req' = req
    BY <1>1, StatusType DEF LookupFails, ReadStatuses
  <2>2. FrameOK' /\ result' \in ReadStatuses
        /\ allowed' \in [Guest -> SUBSET Word] /\ erred' \in BOOLEAN
    BY <2>1, ReturnErrorType
  <2> QED
    BY <1>1, <2>2 DEF LookupFails, FileOK, ContextOK, CallsOK, file, context, counters
<1>2. CASE LookupUnallocated
  BY <1>2 DEF LookupUnallocated, Continue, FileOK, ContextOK, FrameOK, CallsOK,
              file, context, counters
<1>3. CASE LookupUnreferenced
  <2>1. Mapped(Off) \in Word
    BY <1>3, MappedType DEF LookupUnreferenced
  <2>2. entry' \in Word
    BY <1>3, <2>1, MaskRange DEF LookupUnreferenced, Word
  <2> QED
    BY <1>3, <2>2 DEF LookupUnreferenced, Continue, FileOK, ContextOK, FrameOK, CallsOK,
                      file, context, counters
<1>4. CASE LookupInPlace
  <2>1. CASE ReturnError("use_of_reserved_field")
    <3>1. "use_of_reserved_field" \in ReadStatuses
      BY DEF ReadStatuses
    <3>2. FrameOK' /\ result' \in ReadStatuses
          /\ allowed' \in [Guest -> SUBSET Word] /\ erred' \in BOOLEAN
      BY <1>4, <2>1, <3>1, ReturnErrorType DEF LookupInPlace
    <3> QED
      BY <1>4, <3>2 DEF LookupInPlace, FileOK, ContextOK, CallsOK, file, context, counters
  <2>2. CASE entry' = Mapped(Off) /\ pos' = 0 /\ Continue("write_data")
    <3>1. Mapped(Off) \in Word
      BY <1>4, MappedType DEF LookupInPlace
    <3> QED
      BY <1>4, <2>2, <3>1 DEF LookupInPlace, Continue, FileOK, ContextOK, FrameOK, CallsOK,
                              file, context, counters
  <2> QED
    BY <1>4, <2>1, <2>2 DEF LookupInPlace
<1>5. CASE LookupShared
  <2>1. ContextOK' /\ FrameOK'
    BY <1>5, ReleaseType, EmptyFrameType DEF LookupShared
  <2> QED
    BY <1>5, <2>1 DEF LookupShared, FileOK, CallsOK, file, counters, ghosts
<1> QED
  BY <1>1, <1>2, <1>3, <1>4, <1>5 DEF Lookup

-----------------------------------------------------------------------------
(* The writes that succeed.                                                *)

LEMMA ExtensionType ==
  ASSUME TypeOK
  PROVE  /\ ExtendedEof \in Nat /\ Mask(ExtendedEof) \in Nat
         /\ ZeroTo(ExtendedEof) => FileOK'
         /\ \A end \in eof .. ExtendedEof - 1 : ZeroTo(end) => FileOK'
<1>1. ExtendedEof \in Nat
  BY ExtendedEofRange DEF TypeOK, FileOK, ContextOK
<1>2. Mask(ExtendedEof) \in Nat
  BY <1>1, MaskRange
<1>3. eof .. ExtendedEof - 1 \subseteq Nat
  BY <1>1 DEF TypeOK, FileOK
<1> QED
  BY <1>1, <1>2, <1>3, ZeroToType DEF TypeOK

LEMMA TablesType ==
  ASSUME TypeOK
  PROVE  /\ PutMapping /\ l1[L1Of(Off)] # NoTable /\ UNCHANGED <<handle, base, rt>> => ContextOK'
         /\ PutRefCount /\ rt[L1Of(Off)] # NoTable /\ UNCHANGED <<handle, base, l1>> => ContextOK'
<1>1. L2Of(Off) \in Slots /\ entry \in Word /\ One \in Word
  BY OffType DEF TypeOK, FrameOK, One, Word
<1> QED
  BY <1>1 DEF TypeOK, ContextOK, PutMapping, PutRefCount, Table

LEMMA DataType ==
  ASSUME TypeOK, NEW m \in 0 .. Chunk, PutData(m)
  PROVE  FileOK'
<1>1. Off \in Nat /\ m \in Nat
  BY OffType DEF TypeOK
<1>2. done \in Nat /\ entry \in Word /\ calls \in Nat
  BY DEF TypeOK, FrameOK, CallsOK
<1> QED
  BY <1>1, <1>2, PutDataType DEF TypeOK

(* The places of the four entries that qwrite writes.                      *)
LEMMA EntryPlaceType ==
  ASSUME TypeOK
  PROVE  /\ L2Table(L1Of(Off)) + L2Of(Off) \in Nat
         /\ L1Off + L1Of(Off) \in Nat
         /\ RefEntry(L1Of(Off)).n + L2Of(Off) \in Nat
         /\ RefTableOff + L1Of(Off) \in Nat
<1>1. L1Of(Off) \in Nat /\ L2Of(Off) \in Nat
  BY OffType, SizesAssumption DEF TypeOK, Slots
<1>2. L1Off \in Nat /\ RefTableOff \in Nat
  BY SizesAssumption
<1>3. L1Entry(L1Of(Off)) \in Word /\ RefEntry(L1Of(Off)) \in Word
  BY AtType DEF TypeOK, L1Entry, RefEntry
<1>4. L1Entry(L1Of(Off)).n \in Nat /\ RefEntry(L1Of(Off)).n \in Nat
  BY <1>3 DEF Word
<1>5. L2Table(L1Of(Off)) \in Nat
  BY <1>4, MaskRange DEF L2Table
<1> QED
  BY <1>1, <1>2, <1>4, <1>5

LEMMA StepType ==
  ASSUME TypeOK, ExtendData \/ SetEntry \/ ExtendL2 \/ LinkL2 \/ WriteData
  PROVE  CoreOK'
<1> USE DEF TypeOK, CoreOK
<1>1. CASE ExtendData
  <2>1. FileOK'
    BY <1>1, ExtensionType DEF ExtendData
  <2>2. entry' \in Word
    BY <1>1, ExtensionType DEF ExtendData, Word
  <2> QED
    BY <1>1, <2>1, <2>2 DEF ExtendData, Continue, ContextOK, FrameOK, CallsOK, context, counters
<1>2. CASE SetEntry
  <2>1. FileOK'
    BY <1>2, EntryPlaceType, PutWordType DEF SetEntry, FrameOK
  <2>2. ContextOK'
    BY <1>2, TablesType DEF SetEntry
  <2> QED
    BY <1>2, <2>1, <2>2 DEF SetEntry, Continue, FrameOK, CallsOK, counters
<1>3. CASE ExtendL2
  <2>1. FileOK' /\ pos' \in Nat
    BY <1>3, ExtensionType DEF ExtendL2
  <2> QED
    BY <1>3, <2>1 DEF ExtendL2, Continue, ContextOK, FrameOK, CallsOK, context, counters
<1>4. CASE LinkL2
  <2>1. [n |-> pos, copied |-> FALSE] \in Word
    BY DEF FrameOK, Word
  <2>2. FileOK'
    BY <1>4, <2>1, EntryPlaceType, PutWordType DEF LinkL2
  <2>3. ContextOK'
    BY <1>4, ZeroIsWord DEF LinkL2, ContextOK, Table
  <2> QED
    BY <1>4, <2>2, <2>3 DEF LinkL2, Continue, FrameOK, CallsOK, counters
<1>5. CASE WriteData
  <2>1. Chunk \in 0 .. Chunk
    BY OffType
  <2>2. FileOK'
    BY <1>5, <2>1, DataType DEF WriteData
  <2> QED
    BY <1>5, <2>2 DEF WriteData, Continue, ContextOK, FrameOK, CallsOK, context, counters
<1> QED
  BY <1>1, <1>2, <1>3, <1>4, <1>5

LEMMA RefStepType ==
  ASSUME TypeOK, UpdateRef \/ ExtendRef \/ LinkRef
  PROVE  CoreOK'
<1> USE DEF TypeOK, CoreOK
<1>1. CASE UpdateRef
  <2>1. FileOK'
    <3>1. CASE UNCHANGED file
      BY <3>1 DEF FileOK, file
    <3>2. CASE PutWord(RefEntry(L1Of(Off)).n + L2Of(Off), One)
      <4>1. One \in Word
        BY DEF One, Word
      <4> QED
        BY <3>2, <4>1, EntryPlaceType, PutWordType
    <3> QED
      BY <1>1, <3>1, <3>2 DEF UpdateRef
  <2>2. ContextOK'
    BY <1>1, TablesType DEF UpdateRef
  <2>3. /\ FrameOK' /\ result' \in ReadStatuses \cup {"killed"}
        /\ allowed' \in [Guest -> SUBSET Word] /\ erred' \in BOOLEAN
    BY <1>1, NextClusterType DEF UpdateRef
  <2> QED
    BY <1>1, <2>1, <2>2, <2>3 DEF UpdateRef, CallsOK, counters
<1>2. CASE ExtendRef
  <2>1. FileOK' /\ pos' \in Nat
    BY <1>2, ExtensionType DEF ExtendRef
  <2> QED
    BY <1>2, <2>1 DEF ExtendRef, Continue, ContextOK, FrameOK, CallsOK, context, counters
<1>3. CASE LinkRef
  <2>1. [n |-> pos, copied |-> FALSE] \in Word
    BY DEF FrameOK, Word
  <2>2. FileOK'
    BY <1>3, <2>1, EntryPlaceType, PutWordType DEF LinkRef
  <2>3. ContextOK'
    BY <1>3, ZeroIsWord DEF LinkRef, ContextOK, Table
  <2> QED
    BY <1>3, <2>2, <2>3 DEF LinkRef, Continue, FrameOK, CallsOK, counters
<1> QED
  BY <1>1, <1>2, <1>3

-----------------------------------------------------------------------------
(* The writes that fail.                                                   *)

LEMMA CanFailType ==
  ASSUME CallsOK, NEW point, CanFail(point)
  PROVE  faults' \in Nat
  BY DEF CallsOK, CanFail

LEMMA IoErrorType ==
  ASSUME FrameOK, CallsOK, ReturnError("io_error"), UNCHANGED <<req, calls, opens, crashes>>,
         faults' \in Nat
  PROVE  FrameOK' /\ CallsOK'
<1>1. "io_error" \in ReadStatuses
  BY DEF ReadStatuses
<1>2. req' = req
  OBVIOUS
<1>3. /\ FrameOK' /\ result' \in ReadStatuses
      /\ allowed' \in [Guest -> SUBSET Word] /\ erred' \in BOOLEAN
  BY <1>1, <1>2, ReturnErrorType
<1> QED
  BY <1>3 DEF CallsOK

LEMMA LinkFailsType ==
  ASSUME TypeOK, NEW a \in Nat,
         UNCHANGED file \/ PutWord(a, [n |-> pos, copied |-> FALSE])
  PROVE  FileOK'
<1>1. [n |-> pos, copied |-> FALSE] \in Word
  BY DEF TypeOK, FrameOK, Word
<1>2. CASE UNCHANGED file
  BY <1>2 DEF TypeOK, FileOK, file
<1>3. CASE PutWord(a, [n |-> pos, copied |-> FALSE])
  BY <1>1, <1>3, PutWordType DEF TypeOK
<1> QED
  BY <1>2, <1>3

(* What is left when the word in the buffer is lost.                       *)
LEMMA LoseType ==
  ASSUME FileOK, BufferOK, Lose
  PROVE  FileOK'
<1>1. late.size \in Nat /\ late.was \in Word
  BY DEF BufferOK
<1>2. \A x : At(x) \in Word
  BY AtType
<1> QED
  BY <1>1, <1>2 DEF FileOK, Lose

(* An entry put in the table in memory, which is there or was just made.   *)
LEMMA MappedTableType ==
  ASSUME ContextOK, NEW w \in Word, NEW i \in Nat, NEW k \in Slots,
         UNCHANGED <<handle, base, rt>>
  PROVE  /\ l1[i] # NoTable /\ l1' = [l1 EXCEPT ![i] = [@ EXCEPT ![k] = w]] => ContextOK'
         /\ l1' = [l1 EXCEPT ![i] = [[x \in Slots |-> Zero] EXCEPT ![k] = w]] => ContextOK'
<1>1. [[x \in Slots |-> Zero] EXCEPT ![k] = w] \in Table
  BY ZeroIsWord DEF Table
<1>2. ASSUME l1' = [l1 EXCEPT ![i] = [[x \in Slots |-> Zero] EXCEPT ![k] = w]]
      PROVE  ContextOK'
  BY <1>1, <1>2 DEF ContextOK
<1>3. ASSUME l1[i] # NoTable, l1' = [l1 EXCEPT ![i] = [@ EXCEPT ![k] = w]]
      PROVE  ContextOK'
  BY <1>3 DEF ContextOK, Table
<1> QED
  BY <1>2, <1>3

LEMMA FailureType ==
  ASSUME TypeOK, ExtendFails \/ ExtendFailsMapped \/ ReadLinkFails \/ SetEntryFails \/ LinkL2Fails
  PROVE  CoreOK'
<1> USE DEF TypeOK, CoreOK
<1>0. L1Of(Off) \in Nat /\ L2Of(Off) \in Slots
  BY OffType
<1>1. CASE ExtendFails
  <2>1. FileOK' /\ ContextOK'
    BY <1>1, ExtensionType DEF ExtendFails, PartOfZeros, ContextOK, context
  <2>2. faults' \in Nat
    BY <1>1, CanFailType DEF ExtendFails
  <2> QED
    BY <1>1, <2>1, <2>2, IoErrorType DEF ExtendFails
<1>2. CASE ExtendFailsMapped
  <2>1. [n |-> Mask(ExtendedEof), copied |-> TRUE] \in Word
    BY ExtensionType DEF Word
  <2>2. FileOK'
    BY <1>2, ExtensionType DEF ExtendFailsMapped, PartOfZeros
  <2>3. ContextOK'
    BY <1>0, <1>2, <2>1, MappedTableType DEF ExtendFailsMapped
  <2>4. faults' \in Nat
    BY <1>2, CanFailType DEF ExtendFailsMapped
  <2> QED
    BY <1>2, <2>2, <2>3, <2>4, IoErrorType DEF ExtendFailsMapped
<1>3. CASE ReadLinkFails
  <2>1. FileOK' /\ ContextOK'
    BY <1>3, TablesType DEF ReadLinkFails, FileOK, file
  <2>2. faults' \in Nat
    BY <1>3, CanFailType DEF ReadLinkFails
  <2> QED
    BY <1>3, <2>1, <2>2, IoErrorType DEF ReadLinkFails
<1>4. CASE SetEntryFails
  <2>1. FileOK' /\ ContextOK'
    BY <1>4, TablesType DEF SetEntryFails, FileOK, file
  <2>2. faults' \in Nat
    BY <1>4, CanFailType DEF SetEntryFails
  <2> QED
    BY <1>4, <2>1, <2>2 DEF SetEntryFails, Continue, FrameOK, CallsOK
<1>5. CASE LinkL2Fails
  <2>1. FileOK'
    BY <1>5, EntryPlaceType, LinkFailsType DEF LinkL2Fails
  <2>2. ContextOK'
    <3>1. CASE l1' = [l1 EXCEPT ![L1Of(Off)] = [[k \in Slots |-> Zero] EXCEPT ![L2Of(Off)] = entry]]
      BY <1>0, <1>5, <3>1, MappedTableType DEF LinkL2Fails, FrameOK
    <3>2. CASE UNCHANGED l1
      BY <1>5, <3>2 DEF LinkL2Fails, ContextOK
    <3> QED
      BY <1>5, <3>1, <3>2 DEF LinkL2Fails
  <2>3. faults' \in Nat
    BY <1>5, CanFailType DEF LinkL2Fails
  <2> QED
    BY <1>5, <2>1, <2>2, <2>3, IoErrorType DEF LinkL2Fails
<1> QED
  BY <1>1, <1>2, <1>3, <1>4, <1>5

LEMMA DataFailureType ==
  ASSUME TypeOK, WriteDataFails \/ FlushDataFails
  PROVE  CoreOK'
<1> USE DEF TypeOK, CoreOK
<1>1. 0 .. Chunk - 1 \subseteq 0 .. Chunk
  BY OffType
<1>2. FileOK'
  BY <1>1, DataType DEF WriteDataFails, FlushDataFails, PartOfData
<1>3. faults' \in Nat
  BY CanFailType DEF WriteDataFails, FlushDataFails
<1>4. CASE WriteDataFails
  BY <1>2, <1>3, <1>4 DEF WriteDataFails, Continue, ContextOK, FrameOK, CallsOK, context
<1>5. CASE FlushDataFails
  <2>1. ContextOK'
    <3>1. CASE rt[L1Of(Off)] = NoTable
      BY <1>5, <3>1 DEF FlushDataFails, ContextOK
    <3>2. CASE rt[L1Of(Off)] # NoTable
      BY <1>5, <3>2, TablesType DEF FlushDataFails
    <3> QED
      BY <3>1, <3>2
  <2>2. /\ FrameOK' /\ result' \in ReadStatuses \cup {"killed"}
        /\ allowed' \in [Guest -> SUBSET Word] /\ erred' \in BOOLEAN
    BY <1>5, NextClusterType DEF FlushDataFails
  <2> QED
    BY <1>2, <1>3, <1>5, <2>1, <2>2 DEF FlushDataFails, CallsOK
<1> QED
  BY <1>4, <1>5

LEMMA RefFailureType ==
  ASSUME TypeOK, ExtendRefFails \/ LinkRefFails \/ UpdateRefFails
  PROVE  CoreOK'
<1> USE DEF TypeOK, CoreOK
<1>1. /\ FrameOK' /\ result' \in ReadStatuses \cup {"killed"}
      /\ allowed' \in [Guest -> SUBSET Word] /\ erred' \in BOOLEAN
  BY NextClusterType DEF ExtendRefFails, LinkRefFails, UpdateRefFails
<1>2. faults' \in Nat /\ UNCHANGED <<calls, opens, crashes>>
  BY CanFailType DEF ExtendRefFails, LinkRefFails, UpdateRefFails
<1>3. CallsOK'
  BY <1>1, <1>2 DEF CallsOK
<1>4. FileOK' /\ ContextOK'
  <2>1. CASE ExtendRefFails
    BY <2>1, ExtensionType DEF ExtendRefFails, PartOfZeros, ContextOK, context
  <2>2. CASE LinkRefFails
    <3>1. FileOK'
      BY <2>2, EntryPlaceType, LinkFailsType DEF LinkRefFails
    <3>2. [[k \in Slots |-> Zero] EXCEPT ![L2Of(Off)] = One] \in Table
      BY ZeroIsWord, OffType DEF Table, One, Word
    <3>3. ContextOK'
      BY <2>2, <3>2 DEF LinkRefFails, ContextOK
    <3> QED
      BY <3>1, <3>3
  <2>3. CASE UpdateRefFails
    BY <2>3, TablesType DEF UpdateRefFails, FileOK, file
  <2> QED
    BY <2>1, <2>2, <2>3
<1> QED
  BY <1>1, <1>3, <1>4

(* The refcount in the buffer is lost in a later call, or with fclose.     *)
LEMMA FlushFailureType ==
  ASSUME TypeOK, FlushFails \/ CloseFails
  PROVE  CoreOK'
<1> USE DEF TypeOK, CoreOK
<1>1. FileOK'
  BY LoseType DEF FlushFails, CloseFails
<1>2. faults' \in Nat
  BY CanFailType DEF FlushFails, CloseFails
<1>3. CASE CloseFails
  <2>1. ContextOK'
    BY <1>3, ReleaseType DEF CloseFails
  <2> QED
    BY <1>1, <1>2, <1>3, <2>1 DEF CloseFails, FrameOK, CallsOK, frame
<1>4. CASE FlushFails
  <2>1. CASE ReturnError("io_error") /\ UNCHANGED context
    <3>1. FrameOK' /\ CallsOK'
      BY <1>2, <1>4, <2>1, IoErrorType DEF FlushFails
    <3> QED
      BY <1>1, <2>1, <3>1 DEF ContextOK, context
  <2>2. CASE /\ l1[L1Of(Off)] # NoTable /\ PutMapping /\ ReturnError("io_error")
             /\ UNCHANGED <<handle, base, rt>>
    <3>1. FrameOK' /\ CallsOK'
      BY <1>2, <1>4, <2>2, IoErrorType DEF FlushFails
    <3> QED
      BY <1>1, <2>2, <3>1, TablesType
  <2>3. CASE Continue("update_ref") /\ UNCHANGED <<context, entry, pos>>
    BY <1>1, <1>2, <1>4, <2>3 DEF FlushFails, Continue, ContextOK, FrameOK, CallsOK, context
  <2> QED
    BY <1>4, <2>1, <2>2, <2>3, Zenon DEF FlushFails
<1> QED
  BY <1>3, <1>4

LEMMA CrashType ==
  ASSUME TypeOK, Crash
  PROVE  CoreOK'
<1> USE DEF TypeOK, CoreOK
<1>1. FileOK'
  <2>1. CASE UNCHANGED file
    BY <2>1 DEF FileOK, file
  <2>2. CASE \E m \in 1 .. Chunk : PutData(m)
    <3>1. 1 .. Chunk \subseteq 0 .. Chunk
      BY OffType
    <3> QED
      BY <2>2, <3>1, DataType
  <2>3. CASE \E end \in eof .. ExtendedEof : ZeroTo(end)
    <3>1. eof .. ExtendedEof \subseteq Nat
      BY ExtensionType DEF FileOK
    <3> QED
      BY <2>3, <3>1, ZeroToType
  <2>4. CASE Lose
    BY <2>4, LoseType
  <2> QED
    BY <2>1, <2>2, <2>3, <2>4 DEF Crash, KilledFile
<1>2. ContextOK' /\ FrameOK'
  BY ReleaseType, EmptyFrameType DEF Crash
<1>3. CallsOK'
  BY DEF Crash, CallsOK
<1> QED
  BY <1>1, <1>2, <1>3

LEMMA StutterType ==
  ASSUME TypeOK, UNCHANGED vars
  PROVE  CoreOK'
  BY DEF TypeOK, CoreOK, FileOK, ContextOK, FrameOK, CallsOK, vars

(* The buffer: every step that seeks leaves it empty, but for the refcount *)
(* that update_ref_cnt writes last.                                        *)
LateRefCount ==
  /\ pc = "update_ref"
  /\ PutRefCount
  /\ LowBits(RefEntry(L1Of(Off)).n) = 0
  /\ PutWord(RefEntry(L1Of(Off)).n + L2Of(Off), One)
  /\ late' = [at |-> RefEntry(L1Of(Off)).n + L2Of(Off),
              was |-> At(RefEntry(L1Of(Off)).n + L2Of(Off)),
              size |-> eof, of |-> Index(Off)]

LateMoves == \/ UNCHANGED <<disk, eof, late>>
             \/ late' = Flushed
             \/ LateRefCount

LEMMA BufferStep ==
  ASSUME [Next]_vars
  PROVE  LateMoves
<1> USE DEF LateMoves
<1>1. CASE UNCHANGED vars
  BY <1>1, Zenon DEF vars
<1>2. CASE Open \/ OpenFails \/ StartWrite \/ LookupFails \/ LookupUnallocated
           \/ LookupUnreferenced \/ LookupInPlace
  BY <1>2, Zenon DEF Open, OpenFails, StartWrite, LookupFails, LookupUnallocated,
                     LookupUnreferenced, LookupInPlace, file
<1>3. CASE Close \/ LookupShared \/ CloseFails \/ Crash
  BY <1>3, Zenon DEF Close, LookupShared, CloseFails, Crash, Release
<1>4. CASE ExtendData \/ SetEntry \/ ExtendL2 \/ LinkL2 \/ WriteData \/ ExtendRef \/ LinkRef
  BY <1>4, Zenon DEF ExtendData, SetEntry, ExtendL2, LinkL2, WriteData, ExtendRef, LinkRef
<1>5. CASE UpdateRef
  BY <1>5, Zenon DEF UpdateRef, LateRefCount
<1>6. CASE Failure
  BY <1>3, <1>6, Zenon
     DEF Failure, ExtendFails, ExtendFailsMapped, ReadLinkFails, SetEntryFails, LinkL2Fails,
         WriteDataFails, FlushDataFails, ExtendRefFails, LinkRefFails, UpdateRefFails, FlushFails
<1> QED
  BY <1>1, <1>2, <1>3, <1>4, <1>5, <1>6, Zenon DEF Next, Step, Lookup

LEMMA IndexType ==
  ASSUME FrameOK
  PROVE  Index(Off) \in Nat \X Nat
<1>1. L1Of(Off) \in Nat /\ L2Of(Off) \in Nat
  BY OffType, SizesAssumption DEF Slots
<1> QED
  BY <1>1 DEF Index

LEMMA BufferType ==
  ASSUME TypeOK, [Next]_vars
  PROVE  BufferOK'
<1> USE DEF TypeOK
<1>1. CASE UNCHANGED <<disk, eof, late>>
  BY <1>1 DEF BufferOK, Buffered, Flushed
<1>2. CASE late' = Flushed
  BY <1>2, ZeroIsWord DEF BufferOK, Buffered, Flushed
<1>3. CASE LateRefCount
  <2> DEFINE a == RefEntry(L1Of(Off)).n + L2Of(Off)
  <2>1. a \in Nat /\ At(a) \in Word
    BY EntryPlaceType, AtType
  <2>2. late' = [at |-> a, was |-> At(a), size |-> eof, of |-> Index(Off)]
    BY <1>3, Zenon DEF LateRefCount
  <2>3. PutWord(a, One)
    BY <1>3, Zenon DEF LateRefCount
  <2> HIDE DEF a
  <2>4. eof \in Nat /\ eof' >= eof
    BY <2>1, <2>3 DEF FileOK, PutWord, Larger
  <2> QED
    BY <2>1, <2>2, <2>4, IndexType DEF BufferOK, Buffered
<1> QED
  BY <1>1, <1>2, <1>3, BufferStep DEF LateMoves

LEMMA MarksStep ==
  ASSUME MarksOK, FrameOK, BufferOK, [Next]_vars
  PROVE  /\ unseen' \in {unseen, {}, unseen \cup {"data"}, unseen \cup {"entry", "data"}}
         /\ retried' \in {retried, retried \/ Index(Off) \in stray}
         /\ stray' \in {stray, {}, stray \cup {Index(Off)}}
         /\ uncounted' \in {uncounted, uncounted \ {Index(Off)}, uncounted \cup {late.of}}
<1>1. CASE UNCHANGED vars
  BY <1>1, Zenon DEF vars
<1>2. CASE Open \/ OpenFails \/ Close \/ StartWrite
  BY <1>2, Zenon DEF Open, OpenFails, Close, StartWrite, Release, ghosts, marks
<1>3. CASE Lookup
  BY <1>3, Zenon DEF Lookup, LookupFails, LookupUnallocated, LookupUnreferenced, LookupInPlace,
                     LookupShared, UseMapped, Release, marks
<1>4. CASE ExtendData \/ SetEntry \/ ExtendL2 \/ LinkL2 \/ WriteData \/ ExtendRef \/ LinkRef
  BY <1>4, Zenon DEF ExtendData, SetEntry, ExtendL2, LinkL2, WriteData, ExtendRef, LinkRef, marks
<1>5. CASE UpdateRef
  BY <1>5, Zenon DEF UpdateRef
<1>6. CASE ExtendFails \/ ExtendFailsMapped \/ ReadLinkFails \/ SetEntryFails \/ LinkL2Fails
  BY <1>6, Zenon DEF ExtendFails, ExtendFailsMapped, ReadLinkFails, SetEntryFails, LinkL2Fails, marks
<1>7. CASE WriteDataFails \/ FlushDataFails \/ ExtendRefFails \/ LinkRefFails \/ UpdateRefFails
  BY <1>7, Zenon DEF WriteDataFails, FlushDataFails, ExtendRefFails, LinkRefFails,
                     UpdateRefFails, marks
<1>8. CASE FlushFails \/ CloseFails
  BY <1>8, Zenon DEF FlushFails, CloseFails, Release
<1>9. CASE Crash
  BY <1>9, Zenon DEF Crash, Release
<1> QED
  BY <1>1, <1>2, <1>3, <1>4, <1>5, <1>6, <1>7, <1>8, <1>9, Zenon DEF Next, Step, Failure

LEMMA MarksType ==
  ASSUME MarksOK, FrameOK, BufferOK, [Next]_vars
  PROVE  MarksOK'
<1>1. Index(Off) \in Nat \X Nat /\ late.of \in Nat \X Nat
  BY IndexType DEF BufferOK
<1> QED
  BY <1>1, MarksStep DEF MarksOK

LEMMA TypeStep ==
  ASSUME TypeOK, [Next]_vars
  PROVE  TypeOK'
<1>1. CoreOK'
  BY OpenType, StartWriteType, LookupType, StepType, RefStepType, FailureType,
     DataFailureType, RefFailureType, FlushFailureType, CrashType, StutterType
     DEF Next, Step, Failure
<1>2. BufferOK' /\ MarksOK'
  BY BufferType, MarksType DEF TypeOK
<1> QED
  BY <1>1, <1>2 DEF TypeOK, CoreOK

(* Whatever the sizes, the images and the requests, and wherever the file  *)
(* or the library fails or the process stops, every variable of qwrite,    *)
(* of the context and of the file holds a value of its type.               *)
THEOREM TypeCorrect == Spec => []TypeOK
<1>1. Init => TypeOK
  BY InitType
<1>2. TypeOK /\ [Next]_vars => TypeOK'
  BY TypeStep
<1> QED
  BY <1>1, <1>2, PTL DEF Spec

-----------------------------------------------------------------------------
(* No two clusters overlap.  What the tables of the file own is not        *)
(* inductive: a cluster has an owner from the moment extend_img_file       *)
(* returns its position, and keeps one in memory when the write that links *)
(* it in the file fails.  The invariant is about these claims too.  A      *)
(* stray entry in memory claims nothing: its place is handed out again.    *)

(* The mapping that the L2 table in memory holds.                          *)
MemPlace(i, k) == IF l1[i] = NoTable THEN 0 ELSE Mask(l1[i][k].n)

AfterLookup == {"extend_data", "set_entry", "link_l2", "write_data", "update_ref", "link_ref"}

(* The call on its way holds a cluster for data, and the L2 table or the   *)
(* refcount block that it is about to link.                                *)
HeldByCall(o, s) ==
  \/ /\ pc \in {"set_entry", "link_l2", "write_data"}
     /\ o = <<"data", L1Of(Off), L2Of(Off)>>
     /\ s = Mask(entry.n)
  \/ /\ pc = "link_l2"
     /\ o = <<"l2", L1Of(Off), 0>>
     /\ s = Mask(pos)
  \/ /\ pc = "link_ref"
     /\ o = <<"ref", L1Of(Off), 0>>
     /\ s = Mask(pos)

HeldInMemory(o, s) ==
  \E i \in L1Index, k \in Slots :
    o = <<"data", i, k>> /\ <<i, k>> \notin stray /\ s = MemPlace(i, k)

Claimed(o, s) == s # 0 /\ (s = Place(o) \/ HeldInMemory(o, s) \/ HeldByCall(o, s))

(* The part of the file that is not lost with the buffer.                  *)
Reached == IF Buffered THEN late.size ELSE eof

(* A place that collides with nothing that is always in the file.          *)
Placed(s) ==
  /\ s <= Reached
  /\ s % Sector = 0
  /\ Disjoint(s, ClusterSize, 0, ClusterSize)
  /\ Disjoint(s, ClusterSize, L1Off, L1Size)
  /\ Disjoint(s, ClusterSize, RefTableOff, RefTableSize)

ClaimsPlaced == \A o \in Owners, s \in Nat : Claimed(o, s) => Placed(s)

ClaimsApart ==
  \A o, p \in Owners, s, t \in Nat :
    Claimed(o, s) /\ Claimed(p, t) =>
      (o = p /\ s = t) \/ Disjoint(s, ClusterSize, t, ClusterSize)

TablesInFile == L1Off + L1Size <= Reached /\ RefTableOff + RefTableSize <= Reached

(* The word in the buffer is a refcount in a block of the refcount table,  *)
(* and there is nothing else in the file past what it reached before.      *)
RefCountPlace(a, j, k) ==
  j \in RefIndex /\ k \in Slots /\ LowBits(RefEntry(j).n) = 0 /\ a = RefEntry(j).n + k

LateCounted ==
  Buffered =>
    /\ RefCountPlace(late.at, late.of[1], late.of[2])
    /\ At(late.at) = One
    /\ \A x \in Nat : x >= late.size /\ x # late.at => At(x) = Zero

(* The index that the lookup accepted is that of both tables.              *)
IndexChecked == pc \in AfterLookup => L1Of(Off) \in L1Index /\ L1Of(Off) \in RefIndex

(* A new L2 table is empty before it is linked.                            *)
NewTableBlank == pc = "link_l2" => \A k \in Slots : At(Mask(pos) + k) = Zero

IInv == TypeOK /\ TablesInFile /\ IndexChecked /\ NewTableBlank /\ LateCounted
        /\ ClaimsPlaced /\ ClaimsApart

-----------------------------------------------------------------------------
(* Addresses and owners.                                                   *)

LEMMA MaskOfMask ==
  ASSUME NEW n \in Nat
  PROVE  Mask(Mask(n)) = Mask(n)
<1>1. Mask(n) \in Nat /\ Mask(n) % Sector = 0
  BY MaskRange
<1> DEFINE m == Mask(n)
<1>2. m % Sector = 0 /\ m \in Nat
  BY <1>1
<1>3. Mask(m) = m - (m % Sector)
  BY DEF Mask
<1> HIDE DEF m
<1>4. Mask(m) = m
  BY <1>2, <1>3
<1> QED
  BY <1>4 DEF m

LEMMA MaskOfZero == Mask(0) = 0 /\ Mask(Zero.n) = 0
<1>1. Mask(0) \in Nat /\ Mask(0) <= 0
  BY MaskRange
<1> QED
  BY <1>1 DEF Zero

LEMMA OwnerKinds ==
  /\ \A o \in Owners : \/ \E i \in L1Index : o = <<"l2", i, 0>>
                       \/ \E j \in RefIndex : o = <<"ref", j, 0>>
                       \/ \E i \in L1Index, k \in Slots : o = <<"data", i, k>>
  /\ \A i \in L1Index : <<"l2", i, 0>> \in Owners
  /\ \A j \in RefIndex : <<"ref", j, 0>> \in Owners
  /\ \A i \in L1Index, k \in Slots : <<"data", i, k>> \in Owners
  BY DEF Owners

LEMMA PlaceOfKind ==
  /\ \A i : Place(<<"l2", i, 0>>) = L2Table(i)
  /\ \A j : Place(<<"ref", j, 0>>) = RefBlock(j)
  /\ \A i, k : Place(<<"data", i, k>>) = Mask(L2Entry(i, k).n)
  BY DEF Place

LEMMA PlaceType ==
  ASSUME FileOK
  PROVE  /\ \A i : L2Table(i) \in Nat
         /\ \A j : RefBlock(j) \in Nat
         /\ \A i, k : L2Entry(i, k) \in Word /\ Mask(L2Entry(i, k).n) \in Nat
         /\ \A o : Place(o) \in Nat
<1>1. \A x : At(x) \in Word
  BY AtType
<1>2. \A w \in Word : Mask(w.n) \in Nat
  BY MaskRange DEF Word
<1>3. \A i : L2Table(i) \in Nat
  BY <1>1, <1>2 DEF L2Table, L1Entry
<1>4. \A j : RefBlock(j) \in Nat
  BY <1>1, <1>2 DEF RefBlock, RefEntry
<1>5. \A i, k : L2Entry(i, k) \in Word
  BY <1>1, ZeroIsWord DEF L2Entry
<1> QED
  BY <1>2, <1>3, <1>4, <1>5 DEF Place

-----------------------------------------------------------------------------
(* What the writes of the file change.                                     *)

(* An extension adds zeros, which is what was read there before.           *)
LEMMA ZeroToReads ==
  ASSUME FileOK, NEW end \in Nat, end >= eof, ZeroTo(end)
  PROVE  \A x \in Nat : At(x)' = At(x)
<1>1. eof' = end /\ disk' = [x \in 0 .. end - 1 |-> At(x)]
  BY DEF ZeroTo
<1>2. ASSUME NEW x \in Nat
      PROVE  At(x)' = At(x)
  <2>1. At(x)' = IF x \in 0 .. eof' - 1 THEN disk'[x] ELSE Zero
    BY DEF At, Zero
  <2>2. CASE x \in 0 .. end - 1
    BY <1>1, <2>1, <2>2
  <2>3. CASE x \notin 0 .. end - 1
    <3>1. x \notin 0 .. eof - 1
      BY <2>3 DEF FileOK
    <3>2. At(x) = Zero
      BY <3>1 DEF At
    <3> QED
      BY <1>1, <2>1, <2>3, <3>2
  <2> QED
    BY <2>2, <2>3
<1> QED
  BY <1>2

LEMMA PutWordReads ==
  ASSUME FileOK, NEW a \in Nat, NEW w, PutWord(a, w)
  PROVE  eof' >= eof /\ \A x \in Nat : At(x)' = IF x = a THEN w ELSE At(x)
<1> DEFINE end == Larger(eof, a + 1)
<1>1. eof' = end /\ disk' = [x \in 0 .. end - 1 |-> IF x = a THEN w ELSE At(x)]
  BY DEF PutWord
<1>2. end \in Nat /\ end >= eof /\ a < end
  BY DEF FileOK, Larger
<1> HIDE DEF end
<1>3. ASSUME NEW x \in Nat
      PROVE  At(x)' = IF x = a THEN w ELSE At(x)
  <2>1. At(x)' = IF x \in 0 .. eof' - 1 THEN disk'[x] ELSE Zero
    BY DEF At, Zero
  <2>2. CASE x \in 0 .. end - 1
    BY <1>1, <2>1, <2>2
  <2>3. CASE x \notin 0 .. end - 1
    <3>1. x \notin 0 .. eof - 1 /\ x # a
      BY <1>2, <2>3 DEF FileOK
    <3>2. At(x) = Zero
      BY <3>1 DEF At
    <3> QED
      BY <1>1, <2>1, <2>3, <3>1, <3>2
  <2> QED
    BY <2>2, <2>3
<1> QED
  BY <1>1, <1>2, <1>3

(* The data of a chunk stays in its cluster.                               *)
LEMMA PutDataReads ==
  ASSUME TypeOK, NEW m \in 0 .. Chunk, PutData(m)
  PROVE  /\ eof' >= eof
         /\ \A x \in Nat : ~(Mask(entry.n) <= x /\ x < Mask(entry.n) + ClusterSize)
                             => At(x)' = At(x)
<1> DEFINE at == Mask(entry.n) + (Off % ClusterSize)
           end == IF m = 0 THEN eof ELSE Larger(eof, at + m)
<1>1. /\ eof' = end
      /\ disk' = [x \in 0 .. end - 1 |->
           IF x >= at /\ x < at + m THEN Payload(calls, done + (x - at)) ELSE At(x)]
  BY DEF PutData
<1>2. at \in Nat /\ m \in Nat /\ Mask(entry.n) <= at /\ at + m <= Mask(entry.n) + ClusterSize
  <2> DEFINE base0 == Mask(entry.n)
             r == Off % ClusterSize
             left == req.len - done
  <2>1. base0 \in Nat
    BY MaskRange DEF TypeOK, FrameOK, Word
  <2>2. r \in 0 .. ClusterSize - 1 /\ ClusterSize \in Nat
    BY OffType, SizesAssumption, RemainderRange DEF TypeOK
  <2>3. left \in Nat
    BY DEF TypeOK, FrameOK
  <2>4. Chunk = Smaller(left, ClusterSize - r)
    BY DEF Chunk
  <2>5. at = base0 + r
    OBVIOUS
  <2> HIDE DEF base0, r, left, at
  <2>6. Chunk \in Nat /\ Chunk <= ClusterSize - r
    BY <2>2, <2>3, <2>4 DEF Smaller
  <2> QED
    BY <2>1, <2>2, <2>5, <2>6 DEF base0
<1>3. eof \in Nat /\ Mask(entry.n) \in Nat /\ ClusterSize \in Nat
  BY MaskRange, SizesAssumption DEF TypeOK, FileOK, FrameOK, Word
<1> HIDE DEF at
<1>4. end \in Nat /\ end >= eof /\ (m = 0 \/ at + m <= end)
  BY <1>2, <1>3 DEF Larger
<1> HIDE DEF end
<1>5. ASSUME NEW x \in Nat, ~(Mask(entry.n) <= x /\ x < Mask(entry.n) + ClusterSize)
      PROVE  At(x)' = At(x)
  <2>1. At(x)' = IF x \in 0 .. eof' - 1 THEN disk'[x] ELSE Zero
    BY DEF At, Zero
  <2>2. ~(x >= at /\ x < at + m)
    BY <1>2, <1>3, <1>5
  <2>3. CASE x \in 0 .. end - 1
    BY <1>1, <2>1, <2>2, <2>3
  <2>4. CASE x \notin 0 .. end - 1
    <3>1. x \notin 0 .. eof - 1
      BY <1>3, <1>4, <2>4
    <3>2. At(x) = Zero
      BY <3>1 DEF At
    <3> QED
      BY <1>1, <2>1, <2>4, <3>2
  <2> QED
    BY <2>3, <2>4
<1> QED
  BY <1>1, <1>3, <1>4, <1>5

(* An entry changes only with its word of the file.                        *)
LEMMA L1EntryKept ==
  ASSUME NEW i \in L1Index, \A x \in Nat : x = L1Off + i => At(x)' = At(x)
  PROVE  L2Table(i)' = L2Table(i)
<1>1. L1Off + i \in Nat
  BY SizesAssumption DEF L1Index
<1> QED
  BY <1>1 DEF L2Table, L1Entry, Mask

LEMMA RefEntryKept ==
  ASSUME NEW j \in RefIndex, \A x \in Nat : x = RefTableOff + j => At(x)' = At(x)
  PROVE  RefEntry(j)' = RefEntry(j)
<1>1. RefTableOff + j \in Nat
  BY SizesAssumption DEF RefIndex
<1> QED
  BY <1>1 DEF RefEntry

LEMMA L2EntryKept ==
  ASSUME FileOK, NEW i \in L1Index, NEW k \in Slots, L2Table(i)' = L2Table(i),
         \A x \in Nat : L2Table(i) # 0 /\ x = L2Table(i) + k => At(x)' = At(x)
  PROVE  L2Entry(i, k)' = L2Entry(i, k)
<1>1. L2Table(i) \in Nat
  BY PlaceType
<1>2. CASE L2Table(i) = 0
  BY <1>2 DEF L2Entry, Zero
<1>3. CASE L2Table(i) # 0
  <2>1. PICK x \in Nat : x = L2Table(i) + k
    BY <1>1 DEF Slots
  <2>2. At(L2Table(i) + k)' = At(L2Table(i) + k)
    BY <1>3, <2>1 DEF At
  <2> QED
    BY <1>3, <2>2 DEF L2Entry
<1> QED
  BY <1>2, <1>3

(* The tables own the same places as long as their words are the same.     *)
InTables(x) ==
  \/ \E i \in L1Index : x = L1Off + i
  \/ \E j \in RefIndex : x = RefTableOff + j
  \/ \E i \in L1Index, k \in Slots : L2Table(i) # 0 /\ x = L2Table(i) + k

EntriesKept ==
  /\ \A i \in L1Index : L2Table(i)' = L2Table(i)
  /\ \A j \in RefIndex : RefEntry(j)' = RefEntry(j)
  /\ \A i \in L1Index, k \in Slots : L2Entry(i, k)' = L2Entry(i, k)

LEMMA PlacesOfEntries ==
  ASSUME EntriesKept
  PROVE  \A o \in Owners : Place(o)' = Place(o)
<1>1. ASSUME NEW o \in Owners
      PROVE  Place(o)' = Place(o)
  <2>1. CASE \E i \in L1Index : o = <<"l2", i, 0>>
    BY <2>1 DEF Place, EntriesKept
  <2>2. CASE \E j \in RefIndex : o = <<"ref", j, 0>>
    BY <2>2 DEF Place, RefBlock, Mask, EntriesKept
  <2>3. CASE \E i \in L1Index, k \in Slots : o = <<"data", i, k>>
    BY <2>3 DEF Place, Mask, EntriesKept
  <2> QED
    BY <2>1, <2>2, <2>3, OwnerKinds
<1> QED
  BY <1>1

LEMMA PlacesKept ==
  ASSUME FileOK, \A x \in Nat : InTables(x) => At(x)' = At(x)
  PROVE  EntriesKept /\ \A o \in Owners : Place(o)' = Place(o)
<1>1. \A i \in L1Index : L2Table(i)' = L2Table(i)
  BY L1EntryKept DEF InTables
<1>2. \A j \in RefIndex : RefEntry(j)' = RefEntry(j)
  BY RefEntryKept DEF InTables
<1>3. \A i \in L1Index, k \in Slots : L2Entry(i, k)' = L2Entry(i, k)
  BY <1>1, L2EntryKept DEF InTables
<1>4. EntriesKept
  BY <1>1, <1>2, <1>3 DEF EntriesKept
<1> QED
  BY <1>4, PlacesOfEntries

-----------------------------------------------------------------------------
(* Claims from one state to the next.                                      *)

(* Each claim after the step was there before, or is that of q on p.       *)
Inherited(q, p) ==
  \A o \in Owners, s \in Nat : Claimed(o, s)' => Claimed(o, s) \/ (o = q /\ s = p)

LEMMA ReachedType ==
  ASSUME TypeOK
  PROVE  Reached \in Nat /\ eof \in Nat /\ Reached <= eof
  BY DEF TypeOK, FileOK, BufferOK, Reached

LEMMA ReachedTypeNext ==
  ASSUME TypeOK'
  PROVE  Reached' \in Nat
  BY DEF TypeOK, FileOK, BufferOK, Reached

LEMMA ReachedGrows ==
  ASSUME TypeOK, TypeOK', LateMoves, eof' >= eof \/ Lose
  PROVE  Reached' >= Reached
<1>1. Reached \in Nat /\ eof \in Nat /\ Reached <= eof
  BY ReachedType
<1>2. Reached' = IF Buffered' THEN late'.size ELSE eof'
  BY DEF Reached
<1>3. Lose => eof' = Reached
  BY DEF Lose, Reached
<1>4. CASE UNCHANGED <<disk, eof, late>>
  <2>1. Reached' = Reached
    BY <1>4 DEF Reached, Buffered, Flushed, Zero
  <2> QED
    BY <1>1, <2>1
<1>5. CASE late' = Flushed
  <2>1. Reached' = eof'
    BY <1>2, <1>5 DEF Buffered, Flushed, Zero
  <2>2. eof' \in Nat
    BY DEF TypeOK, FileOK
  <2> QED
    BY <1>1, <1>3, <2>1, <2>2
<1>6. CASE LateRefCount
  <2>1. late'.size = eof
    BY <1>6 DEF LateRefCount
  <2>2. eof' \in Nat
    BY DEF TypeOK, FileOK
  <2> QED
    BY <1>1, <1>2, <1>3, <2>1, <2>2
<1> QED
  BY <1>4, <1>5, <1>6 DEF LateMoves

LEMMA ClaimsKept ==
  ASSUME TypeOK, TypeOK', ClaimsPlaced, ClaimsApart, Reached' >= Reached,
         \A o \in Owners, s \in Nat : Claimed(o, s)' => Claimed(o, s)
  PROVE  ClaimsPlaced' /\ ClaimsApart'
<1>1. \A s \in Nat : Placed(s) => Placed(s)'
  <2>1. Reached \in Nat /\ Reached' \in Nat
    BY ReachedType, ReachedTypeNext
  <2> QED
    BY <2>1 DEF Placed, Disjoint
<1>2. ClaimsPlaced'
  BY <1>1 DEF ClaimsPlaced
<1>3. ClaimsApart'
  BY Zenon DEF ClaimsApart, Disjoint
<1> QED
  BY <1>2, <1>3

(* Only an extension makes a claim, on the position that it returns.       *)
OnlyExtended ==
  \A o \in Owners, s \in Nat : Claimed(o, s)' => Claimed(o, s) \/ s = Mask(ExtendedEof)

(* The position of an extension begins past every word of the file.        *)
LEMMA FreshPlace ==
  ASSUME TypeOK, TablesInFile
  PROVE  /\ Mask(ExtendedEof) \in Nat
         /\ Mask(ExtendedEof) >= eof
         /\ Mask(ExtendedEof) <= ExtendedEof
         /\ Mask(ExtendedEof) >= ClusterSize
         /\ Mask(ExtendedEof) % Sector = 0
         /\ \A s \in Nat : s <= Reached /\ s % Sector = 0 => s + ClusterSize <= Mask(ExtendedEof)
<1>0. Reached \in Nat /\ eof \in Nat /\ Reached <= eof
  BY ReachedType
<1>1. /\ ExtendedEof \in Nat /\ ExtendedEof >= eof + ClusterSize
      /\ eof \in Nat
      /\ ClusterSize \in Nat \ {0} /\ Sector \in Nat \ {0} /\ ClusterSize % Sector = 0
  BY ExtendedEofRange, SizesAssumption DEF TypeOK, FileOK, ContextOK
<1>2. /\ Mask(ExtendedEof) \in Nat /\ Mask(ExtendedEof) <= ExtendedEof
      /\ ExtendedEof < Mask(ExtendedEof) + Sector
      /\ Mask(ExtendedEof) % Sector = 0
  BY <1>1, MaskRange
<1>3. ASSUME NEW m \in Nat, m <= ExtendedEof, m % Sector = 0
      PROVE  m <= Mask(ExtendedEof)
  <2>1. Mask(ExtendedEof) = RoundDown(ExtendedEof, Sector)
    BY DEF Mask, RoundDown
  <2> QED
    BY <1>1, <1>3, <2>1, RoundDownGreatest
<1>4. ASSUME NEW s \in Nat, s <= Reached, s % Sector = 0
      PROVE  s + ClusterSize <= Mask(ExtendedEof)
  <2>1. (s + ClusterSize) % Sector = 0
    BY <1>1, <1>4, SumOfMultiples
  <2>2. s + ClusterSize \in Nat /\ s + ClusterSize <= ExtendedEof
    BY <1>0, <1>1, <1>4
  <2> QED
    BY <1>3, <2>1, <2>2
<1>5. Sector <= ClusterSize
  BY <1>1, SMT
<1>6. ClusterSize <= Mask(ExtendedEof)
  BY <1>1, <1>3
<1>7. Mask(ExtendedEof) >= eof
  <2> DEFINE p == Mask(ExtendedEof)
  <2>1. p \in Nat /\ ExtendedEof < p + Sector
    BY <1>2
  <2> HIDE DEF p
  <2>2. p >= eof
    BY <1>1, <1>5, <2>1
  <2> QED
    BY <2>2 DEF p
<1> QED
  BY <1>2, <1>4, <1>6, <1>7

LEMMA ClaimsGrow ==
  ASSUME TypeOK, TypeOK', TablesInFile, ClaimsPlaced, ClaimsApart, eof' = ExtendedEof,
         late' = Flushed,
         NEW q \in Owners, Inherited(q, Mask(ExtendedEof))
  PROVE  ClaimsPlaced' /\ ClaimsApart'
<1>0. PICK p \in Nat : p = Mask(ExtendedEof)
  BY FreshPlace
<1>1. /\ p \in Nat /\ p >= eof /\ p <= eof' /\ p >= ClusterSize /\ p % Sector = 0
      /\ \A s \in Nat : s <= Reached /\ s % Sector = 0 => s + ClusterSize <= p
  BY <1>0, FreshPlace
<1>2. \A o \in Owners, s \in Nat : Claimed(o, s)' => Claimed(o, s) \/ (o = q /\ s = p)
  BY <1>0 DEF Inherited
<1>3. /\ Reached \in Nat /\ Reached' \in Nat /\ Reached' >= Reached
      /\ eof \in Nat /\ Reached <= eof /\ Reached' = eof'
  <2>1. Reached' = eof'
    BY DEF Reached, Buffered, Flushed, Zero
  <2> QED
    BY <1>1, <2>1, ReachedType, ReachedTypeNext
<1>4. /\ ClusterSize \in Nat /\ L1Off \in Nat /\ L1Size \in Nat
      /\ RefTableOff \in Nat /\ RefTableSize \in Nat
  BY SizesAssumption
<1>5. \A s \in Nat : Placed(s) => Placed(s)' /\ s + ClusterSize <= p
  BY <1>1, <1>3 DEF Placed, Disjoint
<1>6. Placed(p)'
  BY <1>1, <1>3, <1>4 DEF Placed, Disjoint, TablesInFile
<1>7. ClaimsPlaced'
  BY <1>2, <1>5, <1>6 DEF ClaimsPlaced
<1>8. ASSUME NEW o \in Owners, NEW r \in Owners, NEW s \in Nat, NEW t \in Nat,
             Claimed(o, s)', Claimed(r, t)'
      PROVE  (o = r /\ s = t) \/ Disjoint(s, ClusterSize, t, ClusterSize)
  <2>1. CASE Claimed(o, s) /\ Claimed(r, t)
    BY <2>1 DEF ClaimsApart
  <2>2. CASE Claimed(o, s) /\ r = q /\ t = p
    <3>1. s + ClusterSize <= p
      BY <1>5, <2>2 DEF ClaimsPlaced
    <3> QED
      BY <2>2, <3>1 DEF Disjoint
  <2>3. CASE Claimed(r, t) /\ o = q /\ s = p
    <3>1. t + ClusterSize <= p
      BY <1>5, <2>3 DEF ClaimsPlaced
    <3> QED
      BY <2>3, <3>1 DEF Disjoint
  <2>4. CASE o = q /\ s = p /\ r = q /\ t = p
    BY <2>4
  <2> QED
    BY <1>2, <1>8, <2>1, <2>2, <2>3, <2>4
<1>9. ClaimsApart'
  BY <1>8, Zenon DEF ClaimsApart, Disjoint
<1> QED
  BY <1>7, <1>9

(* A step that leaves the call where it was leaves its index.              *)
LEMMA OffKept ==
  ASSUME req' = req, done' = done
  PROVE  Off' = Off /\ L1Of(Off)' = L1Of(Off) /\ L2Of(Off)' = L2Of(Off)
<1>1. Off' = Off
  BY DEF Off
<1> QED
  BY <1>1 DEF L1Of, L2Of, ClusterOf

LEMMA MemoryKept ==
  ASSUME l1' = l1, stray' = stray
  PROVE  \A o, s : HeldInMemory(o, s)' = HeldInMemory(o, s)
  BY DEF HeldInMemory, MemPlace, Mask

(* The claim of a call outlives a step that keeps its place in the call.   *)
LEMMA EmptyHands ==
  ASSUME pc' \notin {"set_entry", "link_l2", "write_data", "link_ref"}
  PROVE  \A o, s : ~HeldByCall(o, s)'
  BY DEF HeldByCall

(* The claims after a step, when each of them was there before.            *)
LEMMA ClaimsFollow ==
  ASSUME IInv, TypeOK', LateMoves, eof' >= eof \/ Lose,
         \A o \in Owners, s \in Nat : s = Place(o)' => s = 0 \/ Claimed(o, s),
         \A o \in Owners, s \in Nat : HeldInMemory(o, s)' => s = 0 \/ Claimed(o, s),
         \A o \in Owners, s \in Nat : HeldByCall(o, s)' => s = 0 \/ Claimed(o, s)
  PROVE  TablesInFile' /\ ClaimsPlaced' /\ ClaimsApart' /\ OnlyExtended
<1>1. \A o \in Owners, s \in Nat : Claimed(o, s)' => Claimed(o, s)
  BY Zenon DEF Claimed
<1>2. Reached' >= Reached /\ Reached \in Nat /\ Reached' \in Nat
  BY ReachedGrows, ReachedType, ReachedTypeNext DEF IInv
<1>3. ClaimsPlaced' /\ ClaimsApart'
  BY <1>1, <1>2, ClaimsKept DEF IInv
<1>4. TablesInFile'
  BY <1>2, SizesAssumption DEF IInv, TablesInFile
<1> QED
  BY <1>1, <1>3, <1>4 DEF OnlyExtended

LEMMA FileKept ==
  ASSUME FileOK, UNCHANGED file
  PROVE  /\ FileOK' /\ eof' >= eof
         /\ \A x : At(x)' = At(x)
         /\ EntriesKept
         /\ \A o \in Owners : Place(o)' = Place(o)
<1>1. disk' = disk /\ eof' = eof
  BY DEF file
<1>2. \A x : At(x)' = At(x)
  BY <1>1 DEF At, Zero
<1>3. EntriesKept /\ \A o \in Owners : Place(o)' = Place(o)
  BY <1>2, PlacesKept
<1> QED
  BY <1>1, <1>2, <1>3 DEF FileOK

(* An L2 table shares no word with a cluster of another owner, nor with    *)
(* the header and the two tables.                                          *)
LEMMA L2TablePlaced ==
  ASSUME IInv, NEW i \in L1Index, L2Table(i) # 0
  PROVE  Placed(L2Table(i)) /\ Claimed(<<"l2", i, 0>>, L2Table(i))
<1>1. L2Table(i) \in Nat
  BY PlaceType DEF IInv, TypeOK
<1>2. Claimed(<<"l2", i, 0>>, L2Table(i))
  BY PlaceOfKind DEF Claimed
<1> QED
  BY <1>1, <1>2, OwnerKinds DEF IInv, ClaimsPlaced

LEMMA L2TableApart ==
  ASSUME IInv, NEW i \in L1Index, L2Table(i) # 0,
         NEW q \in Owners, NEW c \in Nat, Claimed(q, c), q # <<"l2", i, 0>>
  PROVE  Disjoint(L2Table(i), ClusterSize, c, ClusterSize)
<1>1. L2Table(i) \in Nat
  BY PlaceType DEF IInv, TypeOK
<1> QED
  BY <1>1, L2TablePlaced, OwnerKinds DEF IInv, ClaimsApart

(* A write within a claimed cluster that is no L2 table, or within the     *)
(* header, leaves the tables as they are.                                  *)
LEMMA ClusterWritten ==
  ASSUME IInv, NEW c \in Nat, NEW q \in Owners, \A i \in L1Index : q # <<"l2", i, 0>>,
         c = 0 \/ Claimed(q, c),
         \A x \in Nat : ~(c <= x /\ x < c + ClusterSize) => At(x)' = At(x)
  PROVE  EntriesKept /\ \A o \in Owners : Place(o)' = Place(o)
<1>1. /\ ClusterSize \in Nat /\ L1Off \in Nat /\ L1Size \in Nat
      /\ RefTableOff \in Nat /\ RefTableSize \in Nat
  BY SizesAssumption
<1>2. /\ Disjoint(c, ClusterSize, L1Off, L1Size)
      /\ Disjoint(c, ClusterSize, RefTableOff, RefTableSize)
  BY <1>1, LayoutAssumption DEF IInv, ClaimsPlaced, Placed, Disjoint
<1>3. ASSUME NEW x \in Nat, InTables(x)
      PROVE  At(x)' = At(x)
  <2>1. CASE \E i \in L1Index : x = L1Off + i
    BY <1>1, <1>2, <2>1 DEF L1Index, Disjoint
  <2>2. CASE \E j \in RefIndex : x = RefTableOff + j
    BY <1>1, <1>2, <2>2 DEF RefIndex, Disjoint
  <2>3. CASE \E i \in L1Index, k \in Slots : L2Table(i) # 0 /\ x = L2Table(i) + k
    <3>1. PICK i \in L1Index, k \in Slots : L2Table(i) # 0 /\ x = L2Table(i) + k
      BY <2>3
    <3>2. L2Table(i) \in Nat
      BY PlaceType DEF IInv, TypeOK
    <3>3. Disjoint(L2Table(i), ClusterSize, c, ClusterSize)
      <4>1. CASE c = 0
        BY <3>1, <4>1, L2TablePlaced DEF Placed
      <4>2. CASE Claimed(q, c)
        BY <3>1, <4>2, L2TableApart
      <4> QED
        BY <4>1, <4>2
    <3> QED
      BY <1>1, <3>1, <3>2, <3>3 DEF Disjoint, Slots
  <2> QED
    BY <1>3, <2>1, <2>2, <2>3 DEF InTables
<1> QED
  BY <1>3, PlacesKept DEF IInv, TypeOK

(* A write in a cluster of another owner, in the header, or in one of the  *)
(* two tables leaves the words of a cluster.                               *)
LEMMA ClusterKept ==
  ASSUME IInv, NEW o \in Owners, NEW s \in Nat, Claimed(o, s),
         NEW q \in Owners, q # o, NEW c \in Nat, c = 0 \/ Claimed(q, c),
         \A x \in Nat : ~(c <= x /\ x < c + ClusterSize) => At(x)' = At(x)
  PROVE  \A x \in Nat : s <= x /\ x < s + ClusterSize => At(x)' = At(x)
<1>1. ClusterSize \in Nat
  BY SizesAssumption
<1>2. Disjoint(s, ClusterSize, c, ClusterSize)
  <2>1. CASE c = 0
    BY <2>1 DEF IInv, ClaimsPlaced, Placed
  <2>2. CASE Claimed(q, c)
    BY <2>2 DEF IInv, ClaimsApart
  <2> QED
    BY <2>1, <2>2
<1> QED
  BY <1>1, <1>2 DEF Disjoint

LEMMA ClusterKeptByTables ==
  ASSUME IInv, NEW o \in Owners, NEW s \in Nat, Claimed(o, s), NEW a \in Nat,
         \/ L1Off <= a /\ a < L1Off + L1Size
         \/ RefTableOff <= a /\ a < RefTableOff + RefTableSize,
         \A x \in Nat : x # a => At(x)' = At(x)
  PROVE  \A x \in Nat : s <= x /\ x < s + ClusterSize => At(x)' = At(x)
<1>1. /\ ClusterSize \in Nat /\ L1Off \in Nat /\ L1Size \in Nat
      /\ RefTableOff \in Nat /\ RefTableSize \in Nat
  BY SizesAssumption
<1>2. Placed(s)
  BY DEF IInv, ClaimsPlaced
<1> QED
  BY <1>1, <1>2 DEF Placed, Disjoint

(* A refcount is written in the block that the refcount table has.         *)
LEMMA RefCountWritten ==
  ASSUME IInv, pc = "update_ref", LowBits(RefEntry(L1Of(Off)).n) = 0,
         PutWord(RefEntry(L1Of(Off)).n + L2Of(Off), One)
  PROVE  eof' >= eof /\ EntriesKept /\ \A o \in Owners : Place(o)' = Place(o)
<1>1. PICK j \in RefIndex, k \in Slots : j = L1Of(Off) /\ k = L2Of(Off)
  BY OffType DEF IInv, TypeOK, IndexChecked, AfterLookup
<1>2. RefEntry(j).n \in Nat
  BY AtType DEF IInv, TypeOK, RefEntry, Word
<1>3. PICK c \in Nat : c = RefEntry(j).n
  BY <1>2
<1>4. c = RefBlock(j)
  BY <1>1, <1>3 DEF LowBits, RefBlock, Mask
<1>5. PICK q \in Owners : q = <<"ref", j, 0>>
  BY OwnerKinds
<1>6. c = 0 \/ Claimed(q, c)
  BY <1>4, <1>5, PlaceOfKind DEF Claimed
<1>7. PICK a \in Nat : a = c + k
  BY DEF Slots
<1>8. eof' >= eof /\ \A x \in Nat : At(x)' = IF x = a THEN One ELSE At(x)
  BY <1>1, <1>3, <1>7, PutWordReads DEF IInv, TypeOK
<1>9. \A x \in Nat : ~(c <= x /\ x < c + ClusterSize) => At(x)' = At(x)
  BY <1>7, <1>8, SizesAssumption DEF Slots
<1>10. \A i \in L1Index : q # <<"l2", i, 0>>
  BY <1>5
<1> QED
  BY <1>6, <1>8, <1>9, <1>10, ClusterWritten

(* What the buffer loses is such a refcount.                               *)
LEMMA LoseReads ==
  ASSUME IInv, Lose
  PROVE  \A x \in Nat : x # late.at => At(x)' = At(x)
<1>1. /\ Buffered /\ late.size \in Nat /\ eof \in Nat
      /\ eof' = late.size
      /\ disk' = [x \in 0 .. late.size - 1 |-> IF x = late.at THEN late.was ELSE At(x)]
  BY DEF Lose, IInv, TypeOK, FileOK, BufferOK
<1>2. ASSUME NEW x \in Nat, x # late.at
      PROVE  At(x)' = At(x)
  <2>1. At(x)' = IF x \in 0 .. eof' - 1 THEN disk'[x] ELSE Zero
    BY DEF At, Zero
  <2>2. CASE x \in 0 .. late.size - 1
    BY <1>1, <1>2, <2>1, <2>2
  <2>3. CASE x \notin 0 .. late.size - 1
    <3>1. x >= late.size
      BY <1>1, <2>3
    <3>2. At(x) = Zero
      BY <1>1, <1>2, <3>1 DEF IInv, LateCounted
    <3> QED
      BY <1>1, <2>1, <2>3, <3>2
  <2> QED
    BY <2>2, <2>3
<1> QED
  BY <1>2

LEMMA LoseKept ==
  ASSUME IInv, Lose
  PROVE  EntriesKept /\ \A o \in Owners : Place(o)' = Place(o)
<1>1. PICK j \in RefIndex, k \in Slots : RefCountPlace(late.at, j, k)
  BY DEF IInv, LateCounted, RefCountPlace, Lose
<1>2. PICK c \in Nat : c = RefEntry(j).n
  BY AtType DEF IInv, TypeOK, RefEntry, Word
<1>3. c = RefBlock(j) /\ late.at = c + k
  BY <1>1, <1>2 DEF RefCountPlace, LowBits, RefBlock, Mask
<1>4. PICK q \in Owners : q = <<"ref", j, 0>>
  BY OwnerKinds
<1>5. c = 0 \/ Claimed(q, c)
  BY <1>3, <1>4, PlaceOfKind DEF Claimed
<1>6. \A x \in Nat : ~(c <= x /\ x < c + ClusterSize) => At(x)' = At(x)
  BY <1>3, LoseReads, SizesAssumption DEF Slots
<1>7. \A i \in L1Index : q # <<"l2", i, 0>>
  BY <1>4
<1> QED
  BY <1>5, <1>6, <1>7, ClusterWritten

LEMMA LateStep ==
  ASSUME IInv, TypeOK', LateMoves
  PROVE  LateCounted'
<1>1. CASE UNCHANGED <<disk, eof, late>>
  <2>1. \A x : At(x)' = At(x)
    BY <1>1 DEF At, Zero
  <2>2. \A a, j, k : RefCountPlace(a, j, k)' = RefCountPlace(a, j, k)
    BY <2>1, Zenon DEF RefCountPlace, RefEntry, LowBits
  <2>3. Buffered' = Buffered /\ late' = late
    BY <1>1 DEF Buffered, Flushed, Zero
  <2> QED
    BY <2>1, <2>2, <2>3 DEF IInv, LateCounted, Zero, One
<1>2. CASE late' = Flushed
  BY <1>2 DEF LateCounted, Buffered, Flushed, Zero
<1>3. CASE LateRefCount
  <2>1. PICK j \in RefIndex, k \in Slots : j = L1Of(Off) /\ k = L2Of(Off)
    BY <1>3, OffType DEF LateRefCount, IInv, TypeOK, IndexChecked, AfterLookup
  <2>2. /\ pc = "update_ref" /\ LowBits(RefEntry(j).n) = 0
        /\ PutWord(RefEntry(j).n + k, One)
        /\ late'.at = RefEntry(j).n + k /\ late'.size = eof /\ late'.of = <<j, k>>
    BY <1>3, <2>1 DEF LateRefCount, Index
  <2>3. EntriesKept
    BY <2>1, <2>2, RefCountWritten
  <2>4. PICK c \in Nat : c = RefEntry(j).n
    BY AtType DEF IInv, TypeOK, RefEntry, Word
  <2>5. PICK a \in Nat : a = c + k
    BY <2>4 DEF Slots
  <2>6. \A x \in Nat : At(x)' = IF x = a THEN One ELSE At(x)
    BY <2>2, <2>4, <2>5, PutWordReads DEF IInv, TypeOK
  <2>7. ASSUME NEW x \in Nat, x >= late'.size, x # late'.at
        PROVE  At(x)' = Zero
    <3>1. x \notin 0 .. eof - 1 /\ x # a
      BY <2>2, <2>4, <2>5, <2>7 DEF IInv, TypeOK, FileOK
    <3> QED
      BY <2>6, <3>1 DEF At
  <2>8. RefEntry(j)' = RefEntry(j)
    BY <2>3 DEF EntriesKept
  <2>9. RefCountPlace(late.at, late.of[1], late.of[2])'
    BY <2>2, <2>8 DEF RefCountPlace, LowBits
  <2>10. At(late.at)' = One'
    <3>1. late'.at = a
      BY <2>2, <2>4, <2>5
    <3>2. At(a)' = One
      BY <2>6
    <3> QED
      BY <3>1, <3>2 DEF At, One
  <2> QED
    BY <2>7, <2>9, <2>10 DEF LateCounted, Zero
<1> QED
  BY <1>1, <1>2, <1>3 DEF LateMoves

(* A step that ends a call, or its iteration, over the same places.        *)
LEMMA CallEnds ==
  ASSUME IInv, TypeOK', LateMoves, eof' >= eof \/ Lose, pc' \in {"idle", "lookup"},
         \A o \in Owners, s \in Nat : s = Place(o)' => s = 0 \/ Claimed(o, s),
         \A o \in Owners, s \in Nat : HeldInMemory(o, s)' => s = 0 \/ Claimed(o, s)
  PROVE  IInv' /\ OnlyExtended
<1>1. IndexChecked' /\ NewTableBlank'
  BY DEF IndexChecked, NewTableBlank, AfterLookup
<1>2. \A o \in Owners, s \in Nat : HeldByCall(o, s)' => s = 0 \/ Claimed(o, s)
  BY EmptyHands
<1>3. TablesInFile' /\ ClaimsPlaced' /\ ClaimsApart' /\ OnlyExtended
  BY <1>2, ClaimsFollow
<1>4. LateCounted'
  BY LateStep
<1> QED
  BY <1>1, <1>3, <1>4 DEF IInv

LEMMA OldPlaces ==
  ASSUME \A o \in Owners : Place(o)' = Place(o)
  PROVE  \A o \in Owners, s \in Nat : s = Place(o)' => s = 0 \/ Claimed(o, s)
  BY DEF Claimed

LEMMA OldMemory ==
  ASSUME (l1' = l1 /\ stray' = stray) \/ Release
  PROVE  \A o \in Owners, s \in Nat : HeldInMemory(o, s)' => s = 0 \/ Claimed(o, s)
<1>1. CASE l1' = l1 /\ stray' = stray
  BY <1>1, MemoryKept DEF Claimed
<1>2. CASE Release
  BY <1>2 DEF Release, HeldInMemory, MemPlace
<1> QED
  BY <1>1, <1>2

-----------------------------------------------------------------------------
(* The session and the lookup.                                             *)

(* init_qcow copies the tables, and with them the places of the clusters.  *)
LEMMA LoadedPlaces ==
  ASSUME FileOK, l1' = LoadedL1
  PROVE  \A i \in L1Index, k \in Slots : MemPlace(i, k)' \in {0, Place(<<"data", i, k>>)}
<1>1. ASSUME NEW i \in L1Index, NEW k \in Slots
      PROVE  MemPlace(i, k)' \in {0, Place(<<"data", i, k>>)}
  <2>1. CASE l1'[i] = NoTable
    BY <2>1 DEF MemPlace
  <2>2. CASE l1'[i] # NoTable
    <3>1. L2Table(i) # 0 /\ l1'[i][k] = At(L2Table(i) + k)
      BY <2>2 DEF LoadedL1
    <3>2. L2Entry(i, k) = l1'[i][k]
      BY <3>1 DEF L2Entry
    <3>3. MemPlace(i, k)' = Mask(l1'[i][k].n)
      BY <2>2 DEF MemPlace, Mask
    <3> QED
      BY <3>2, <3>3, PlaceOfKind
  <2> QED
    BY <2>1, <2>2
<1> QED
  BY <1>1

LEMMA SessionKeeps ==
  ASSUME IInv, TypeOK', LateMoves, Open \/ OpenFails \/ Close \/ StartWrite \/ UNCHANGED vars
  PROVE  IInv' /\ OnlyExtended
<1>1. UNCHANGED file
  BY DEF Open, OpenFails, Close, StartWrite, vars, file
<1>2. /\ eof' >= eof /\ FileOK'
      /\ \A x : At(x)' = At(x)
      /\ \A o \in Owners : Place(o)' = Place(o)
  BY <1>1, FileKept DEF IInv, TypeOK
<1>3. \A o \in Owners, s \in Nat : s = Place(o)' => s = 0 \/ Claimed(o, s)
  BY <1>2, OldPlaces
<1>4. \A o \in Owners, s \in Nat : HeldInMemory(o, s)' => s = 0 \/ Claimed(o, s)
  <2>1. CASE Open
    <3>1. \A i \in L1Index, k \in Slots : MemPlace(i, k)' \in {0, Place(<<"data", i, k>>)}
      BY <2>1, LoadedPlaces DEF Open, IInv, TypeOK
    <3> QED
      BY <3>1 DEF HeldInMemory, Claimed
  <2>2. CASE ~Open
    <3>1. (l1' = l1 /\ stray' = stray) \/ Release
      BY <2>2 DEF OpenFails, Close, StartWrite, vars, context, ghosts, marks
    <3> QED
      BY <3>1, OldMemory
  <2> QED
    BY <2>1, <2>2
<1>5. CASE StartWrite
  BY <1>2, <1>3, <1>4, <1>5, CallEnds DEF StartWrite
<1>6. CASE ~StartWrite
  <2>1. pc' = pc /\ UNCHANGED frame
    BY <1>6 DEF Open, OpenFails, Close, vars, frame
  <2>2. /\ Off' = Off /\ L1Of(Off)' = L1Of(Off) /\ L2Of(Off)' = L2Of(Off)
        /\ entry' = entry /\ pos' = pos
    BY <2>1, OffKept DEF frame
  <2>3. \A o \in Owners, s \in Nat : HeldByCall(o, s)' => s = 0 \/ Claimed(o, s)
    BY <2>1, <2>2 DEF HeldByCall, Claimed, Mask
  <2>4. TablesInFile' /\ ClaimsPlaced' /\ ClaimsApart' /\ OnlyExtended
    BY <1>2, <1>3, <1>4, <2>3, ClaimsFollow
  <2>5. IndexChecked'
    BY <2>1, <2>2 DEF IInv, IndexChecked
  <2>6. NewTableBlank'
    <3>1. \A k : At(Mask(pos) + k)' = At(Mask(pos) + k)
      BY <1>1, <2>2 DEF file, At, Mask, Zero
    <3> QED
      BY <2>1, <3>1 DEF IInv, NewTableBlank, Zero
  <2>7. LateCounted'
    BY LateStep
  <2> QED
    BY <2>4, <2>5, <2>6, <2>7 DEF IInv
<1> QED
  BY <1>5, <1>6

(* The lookup hands the call the cluster that the L2 table in memory has.  *)
LEMMA LookupKeeps ==
  ASSUME IInv, TypeOK', LateMoves, ~retried', Lookup
  PROVE  IInv' /\ OnlyExtended
<1>1. UNCHANGED file
  BY DEF Lookup, LookupFails, LookupUnallocated, LookupUnreferenced, LookupInPlace, LookupShared
<1>2. /\ eof' >= eof /\ FileOK' /\ \A o \in Owners : Place(o)' = Place(o)
  BY <1>1, FileKept DEF IInv, TypeOK
<1>3. \A o \in Owners, s \in Nat : s = Place(o)' => s = 0 \/ Claimed(o, s)
  BY <1>2, OldPlaces
<1>4. (l1' = l1 /\ stray' = stray) \/ Release
  BY DEF Lookup, LookupFails, LookupUnallocated, LookupUnreferenced, LookupInPlace,
         LookupShared, UseMapped, context, marks
<1>5. \A o \in Owners, s \in Nat : HeldInMemory(o, s)' => s = 0 \/ Claimed(o, s)
  BY <1>4, OldMemory
<1>6. CASE pc' = "idle"
  BY <1>2, <1>3, <1>5, <1>6, CallEnds
<1>7. CASE pc' # "idle"
  <2>1. /\ pc' \in {"extend_data", "set_entry", "write_data"}
        /\ req' = req /\ done' = done
        /\ L1Of(Off) \in RefIndex
        /\ Lba(Off) \in {"no_error", "unallocated_cluster", "unallocated_l1_table"}
    BY <1>7 DEF Lookup, LookupFails, LookupUnallocated, LookupUnreferenced, LookupInPlace,
                LookupShared, ReturnError, EmptyFrame, Continue, RefInRange
  <2>2. L1Of(Off) \in L1Index
    BY <2>1 DEF Lba
  <2>3. L1Of(Off)' = L1Of(Off) /\ L2Of(Off)' = L2Of(Off)
    BY <2>1, OffKept
  <2>4. IndexChecked' /\ NewTableBlank'
    BY <2>1, <2>2, <2>3 DEF IndexChecked, NewTableBlank
  <2>5. pc' \in {"set_entry", "write_data"} =>
          /\ Lba(Off) = "no_error"
          /\ entry'.n \in {Mask(Mapped(Off).n), Mapped(Off).n}
          /\ UseMapped
    BY <1>7 DEF Lookup, LookupFails, LookupUnallocated, LookupUnreferenced, LookupInPlace,
                LookupShared, ReturnError, EmptyFrame, Continue
  <2>11. UseMapped => <<L1Of(Off), L2Of(Off)>> \notin stray
    BY Zenon DEF UseMapped, Index
  <2>6. ASSUME pc' \in {"set_entry", "write_data"}
        PROVE  Mask(entry.n)' = MemPlace(L1Of(Off), L2Of(Off))
    <3>1. Mapped(Off) \in Word
      BY <2>5, <2>6, MappedType DEF IInv, TypeOK
    <3>2. Mapped(Off).n \in Nat
      BY <3>1 DEF Word
    <3>3. Mask(entry.n)' = Mask(entry'.n)
      BY DEF Mask
    <3>4. Mask(entry.n)' = Mask(Mapped(Off).n)
      BY <2>5, <2>6, <3>2, <3>3, MaskOfMask
    <3>5. l1[L1Of(Off)] # NoTable
      BY <2>5, <2>6 DEF Lba
    <3> QED
      BY <3>4, <3>5 DEF MemPlace, Mapped
  <2>7. L2Of(Off) \in Slots
    BY OffType DEF IInv, TypeOK
  <2>8. ASSUME NEW o \in Owners, NEW s \in Nat, HeldByCall(o, s)'
        PROVE  s = 0 \/ Claimed(o, s)
    <3>1. pc' \in {"set_entry", "write_data"} /\ o = <<"data", L1Of(Off), L2Of(Off)>>
          /\ s = Mask(entry.n)'
      BY <2>1, <2>3, <2>8 DEF HeldByCall
    <3>2. HeldInMemory(o, s)
      BY <2>2, <2>5, <2>11, <2>6, <2>7, <3>1 DEF HeldInMemory
    <3> QED
      BY <3>2 DEF Claimed
  <2>9. TablesInFile' /\ ClaimsPlaced' /\ ClaimsApart' /\ OnlyExtended
    BY <1>2, <1>3, <1>5, <2>8, ClaimsFollow
  <2>10. LateCounted'
    BY LateStep
  <2> QED
    BY <2>4, <2>9, <2>10 DEF IInv
<1> QED
  BY <1>6, <1>7

-----------------------------------------------------------------------------
(* The extensions.                                                         *)

(* An extension leaves the places, whatever part of it was done.           *)
LEMMA ExtensionKept ==
  ASSUME IInv, NEW end \in Nat, end >= eof, ZeroTo(end)
  PROVE  /\ eof' = end /\ FileOK'
         /\ \A x \in Nat : At(x)' = At(x)
         /\ EntriesKept
         /\ \A o \in Owners : Place(o)' = Place(o)
<1>1. \A x \in Nat : At(x)' = At(x)
  BY ZeroToReads DEF IInv, TypeOK
<1>2. EntriesKept /\ \A o \in Owners : Place(o)' = Place(o)
  BY <1>1, PlacesKept DEF IInv, TypeOK
<1>3. FileOK'
  BY ZeroToType DEF IInv, TypeOK
<1> QED
  BY <1>1, <1>2, <1>3 DEF ZeroTo

LEMMA ExtendKeeps ==
  ASSUME IInv, TypeOK', LateMoves, ExtendData \/ ExtendL2 \/ ExtendRef
  PROVE  IInv' /\ OnlyExtended
<1>1. /\ ZeroTo(ExtendedEof) /\ req' = req /\ done' = done /\ l1' = l1
      /\ stray' = stray /\ late' = Flushed
      /\ pc \in AfterLookup /\ pc' \in AfterLookup
  BY DEF ExtendData, ExtendL2, ExtendRef, Continue, context, marks, AfterLookup
<1>2. ExtendedEof \in Nat /\ ExtendedEof >= eof
  BY ExtendedEofRange, SizesAssumption DEF IInv, TypeOK, FileOK, ContextOK
<1>3. /\ eof' = ExtendedEof /\ FileOK'
      /\ \A x \in Nat : At(x)' = At(x)
      /\ \A o \in Owners : Place(o)' = Place(o)
  BY <1>1, <1>2, ExtensionKept
<1>4. L1Of(Off)' = L1Of(Off) /\ L2Of(Off)' = L2Of(Off)
  BY <1>1, OffKept
<1>5. IndexChecked' /\ L1Of(Off) \in L1Index /\ L1Of(Off) \in RefIndex
  BY <1>1, <1>4 DEF IInv, IndexChecked
<1>6. L2Of(Off) \in Slots
  BY OffType DEF IInv, TypeOK
<1>7. PICK p \in Nat : p = Mask(ExtendedEof)
  BY FreshPlace DEF IInv
<1>8. Mask(p) = p /\ p >= eof
  BY <1>2, <1>7, MaskOfMask, FreshPlace DEF IInv
<1>9. NewTableBlank'
  <2>1. CASE pc' = "link_l2"
    <3>1. pos' = p
      BY <1>7, <2>1 DEF ExtendData, ExtendL2, ExtendRef, Continue
    <3>2. Mask(pos') = p
      BY <1>8, <3>1
    <3>3. ASSUME NEW k \in Slots
          PROVE  At(p + k)' = Zero
      <4>1. PICK x \in Nat : x = p + k
        BY DEF Slots
      <4>2. x \notin 0 .. eof - 1
        BY <1>8, <4>1 DEF Slots, IInv, TypeOK, FileOK
      <4>3. At(x)' = Zero
        BY <1>3, <4>2 DEF At
      <4> QED
        BY <4>1, <4>3 DEF At
    <3> QED
      BY <3>2, <3>3 DEF NewTableBlank, At, Mask, Zero
  <2> QED
    BY <2>1 DEF NewTableBlank
<1>10. \A o \in Owners, s \in Nat : HeldInMemory(o, s)' => HeldInMemory(o, s)
  BY <1>1, MemoryKept
<1>11. PICK q \in Owners :
         \A o \in Owners, s \in Nat : HeldByCall(o, s)' => HeldByCall(o, s) \/ (o = q /\ s = p)
  <2>1. CASE ExtendData
    <3>1. Mask(entry.n)' = p /\ pc' = "set_entry"
      BY <1>7, <1>8, <2>1 DEF ExtendData, Continue, Mask
    <3>2. <<"data", L1Of(Off), L2Of(Off)>> \in Owners
      BY <1>5, <1>6, OwnerKinds
    <3> QED
      BY <1>4, <3>1, <3>2 DEF HeldByCall
  <2>2. CASE ExtendL2
    <3>1. Mask(pos)' = p /\ pc' = "link_l2" /\ entry' = entry /\ pc = "set_entry"
      BY <1>7, <1>8, <2>2 DEF ExtendL2, Continue, Mask
    <3>2. <<"l2", L1Of(Off), 0>> \in Owners
      BY <1>5, OwnerKinds
    <3>3. Mask(entry.n)' = Mask(entry.n)
      BY <3>1 DEF Mask
    <3> QED
      BY <1>4, <3>1, <3>2, <3>3 DEF HeldByCall
  <2>3. CASE ExtendRef
    <3>1. pos' = ExtendedEof /\ pc' = "link_ref"
      BY <2>3 DEF ExtendRef, Continue
    <3>2. Mask(pos)' = p
      BY <1>7, <3>1 DEF Mask
    <3>3. <<"ref", L1Of(Off), 0>> \in Owners
      BY <1>5, OwnerKinds
    <3> QED
      BY <1>4, <3>1, <3>2, <3>3 DEF HeldByCall
  <2> QED
    BY <2>1, <2>2, <2>3
<1>12. Inherited(q, Mask(ExtendedEof))
  BY <1>3, <1>7, <1>10, <1>11 DEF Inherited, Claimed
<1>13. ClaimsPlaced' /\ ClaimsApart'
  BY <1>1, <1>3, <1>12, ClaimsGrow DEF IInv
<1>14. OnlyExtended
  BY <1>12 DEF Inherited, OnlyExtended
<1>15. TablesInFile'
  <2>1. /\ Reached' >= Reached /\ Reached \in Nat /\ Reached' \in Nat
    BY <1>2, <1>3, ReachedGrows, ReachedType, ReachedTypeNext DEF IInv
  <2> QED
    BY <2>1, SizesAssumption DEF IInv, TablesInFile
<1>16. LateCounted'
  BY LateStep
<1> QED
  BY <1>5, <1>9, <1>13, <1>14, <1>15, <1>16 DEF IInv

LEMMA PartOfZerosKept ==
  ASSUME IInv, PartOfZeros
  PROVE  eof' >= eof /\ FileOK' /\ EntriesKept /\ \A o \in Owners : Place(o)' = Place(o)
<1>1. PICK end \in eof .. ExtendedEof - 1 : ZeroTo(end)
  BY DEF PartOfZeros
<1>2. end \in Nat /\ end >= eof
  BY <1>1, ExtendedEofRange DEF IInv, TypeOK, FileOK, ContextOK
<1> QED
  BY <1>1, <1>2, ExtensionKept DEF IInv, TypeOK, FileOK

LEMMA ExtendFailsKeeps ==
  ASSUME IInv, TypeOK', LateMoves, ExtendFails \/ ExtendRefFails
  PROVE  IInv' /\ OnlyExtended
<1>1. eof' >= eof /\ \A o \in Owners : Place(o)' = Place(o)
  BY PartOfZerosKept DEF ExtendFails, ExtendRefFails
<1>2. pc' \in {"idle", "lookup"} /\ l1' = l1 /\ stray' = stray
  BY DEF ExtendFails, ExtendRefFails, ReturnError, NextCluster, ReturnOk, EmptyFrame, context, marks
<1> QED
  BY <1>1, <1>2, OldPlaces, OldMemory, CallEnds

(* The entry that only memory gets claims nothing, and the others stay.    *)
LEMMA MappedStray ==
  ASSUME IInv, ExtendFailsMapped
  PROVE  \A o \in Owners, s \in Nat : HeldInMemory(o, s)' => s = 0 \/ Claimed(o, s)
<1>1. /\ pc = "extend_data" /\ l1[L1Of(Off)] # NoTable
      /\ stray' = stray \cup {Index(Off)}
  BY DEF ExtendFailsMapped
<1>2. L1Of(Off) \in L1Index /\ L2Of(Off) \in Slots
  BY <1>1, OffType DEF IInv, TypeOK, IndexChecked, AfterLookup
<1>3. PICK w : l1' = [l1 EXCEPT ![L1Of(Off)] = [l1[L1Of(Off)] EXCEPT ![L2Of(Off)] = w]]
  BY Zenon DEF ExtendFailsMapped
<1>4. l1 \in [L1Index -> Table \cup {NoTable}]
  BY DEF IInv, TypeOK, ContextOK
<1>5. ASSUME NEW i \in L1Index, NEW k \in Slots, <<i, k>> # Index(Off)
      PROVE  MemPlace(i, k)' \in {0, MemPlace(i, k)}
  <2>1. CASE i # L1Of(Off)
    <3>1. l1'[i] = l1[i]
      BY <1>3, <1>4, <2>1
    <3> QED
      BY <3>1 DEF MemPlace, Mask
  <2>2. CASE i = L1Of(Off)
    <3>1. k # L2Of(Off)
      BY <1>5, <2>2 DEF Index
    <3>2. l1[i] \in Table /\ l1'[i] = [l1[i] EXCEPT ![L2Of(Off)] = w]
      BY <1>1, <1>2, <1>3, <1>4, <2>2
    <3>3. l1'[i][k] = l1[i][k]
      BY <1>2, <3>1, <3>2 DEF Table
    <3> QED
      BY <1>1, <2>2, <3>3 DEF MemPlace, Mask
  <2> QED
    BY <2>1, <2>2
<1>6. ASSUME NEW o \in Owners, NEW s \in Nat, HeldInMemory(o, s)'
      PROVE  s = 0 \/ Claimed(o, s)
  <2>1. PICK i \in L1Index, k \in Slots :
          o = <<"data", i, k>> /\ <<i, k>> \notin stray' /\ s = MemPlace(i, k)'
    BY <1>6 DEF HeldInMemory
  <2>2. <<i, k>> \notin stray /\ <<i, k>> # Index(Off)
    BY <1>1, <2>1
  <2>3. s = 0 \/ HeldInMemory(o, s)
    BY <1>5, <2>1, <2>2 DEF HeldInMemory
  <2> QED
    BY <2>3 DEF Claimed
<1> QED
  BY <1>6

LEMMA ExtendFailsMappedKeeps ==
  ASSUME IInv, TypeOK', LateMoves, ExtendFailsMapped
  PROVE  IInv' /\ OnlyExtended
<1>1. eof' >= eof /\ \A o \in Owners : Place(o)' = Place(o)
  BY PartOfZerosKept DEF ExtendFailsMapped
<1>2. pc' = "idle"
  BY DEF ExtendFailsMapped, ReturnError, EmptyFrame
<1> QED
  BY <1>1, <1>2, MappedStray, OldPlaces, CallEnds

-----------------------------------------------------------------------------
(* The writes of the tables.                                               *)

(* The L2 entry in memory becomes the one that the call holds.             *)
LEMMA MappedMemory ==
  ASSUME IInv, pc = "set_entry", l1[L1Of(Off)] # NoTable, PutMapping, stray' = stray
  PROVE  \A o \in Owners, s \in Nat : HeldInMemory(o, s)' => s = 0 \/ Claimed(o, s)
<1>1. L1Of(Off) \in L1Index /\ L2Of(Off) \in Slots
  BY OffType DEF IInv, TypeOK, IndexChecked, AfterLookup
<1>2. ASSUME NEW i \in L1Index, NEW k \in Slots
      PROVE  \/ MemPlace(i, k)' \in {0, MemPlace(i, k)}
             \/ i = L1Of(Off) /\ k = L2Of(Off) /\ MemPlace(i, k)' = Mask(entry.n)
  <2>1. l1 \in [L1Index -> Table \cup {NoTable}]
    BY DEF IInv, TypeOK, ContextOK
  <2>2. l1' = [l1 EXCEPT ![L1Of(Off)] = [l1[L1Of(Off)] EXCEPT ![L2Of(Off)] = entry]]
    BY DEF PutMapping
  <2>3. CASE i # L1Of(Off)
    <3>1. l1'[i] = l1[i]
      BY <2>1, <2>2, <2>3
    <3> QED
      BY <3>1 DEF MemPlace, Mask
  <2>4. CASE i = L1Of(Off) /\ k # L2Of(Off)
    <3>1. l1[i] \in Table
      BY <2>1, <2>4
    <3>2. l1'[i][k] = l1[i][k]
      BY <1>1, <2>1, <2>2, <2>4, <3>1 DEF Table
    <3> QED
      BY <2>4, <3>2 DEF MemPlace, Mask
  <2>5. CASE i = L1Of(Off) /\ k = L2Of(Off)
    <3>1. l1[i] \in Table
      BY <2>1, <2>5
    <3>2. l1'[i][k] = entry
      BY <1>1, <2>1, <2>2, <2>5, <3>1 DEF Table
    <3> QED
      BY <2>5, <3>2 DEF MemPlace, Mask
  <2> QED
    BY <2>3, <2>4, <2>5
<1>3. ASSUME NEW o \in Owners, NEW s \in Nat, HeldInMemory(o, s)'
      PROVE  s = 0 \/ Claimed(o, s)
  <2>1. PICK i \in L1Index, k \in Slots :
          o = <<"data", i, k>> /\ <<i, k>> \notin stray /\ s = MemPlace(i, k)'
    BY <1>3 DEF HeldInMemory
  <2>2. CASE s \in {0, MemPlace(i, k)}
    BY <2>1, <2>2 DEF Claimed, HeldInMemory
  <2>3. CASE i = L1Of(Off) /\ k = L2Of(Off) /\ s = Mask(entry.n)
    BY <2>1, <2>3 DEF Claimed, HeldByCall
  <2> QED
    BY <1>2, <2>1, <2>2, <2>3
<1> QED
  BY <1>3

(* The L2 entry of the file becomes the one that the call holds, and no    *)
(* other entry changes.                                                    *)
LEMMA MappedEntries ==
  ASSUME IInv, pc = "set_entry", PutWord(L2Table(L1Of(Off)) + L2Of(Off), entry)
  PROVE  /\ eof' >= eof
         /\ \A i \in L1Index : L2Table(i)' = L2Table(i)
         /\ \A j \in RefIndex : RefEntry(j)' = RefEntry(j)
         /\ \A i \in L1Index, k \in Slots :
              L2Entry(i, k)' = IF i = L1Of(Off) /\ k = L2Of(Off) /\ L2Table(i) # 0
                               THEN entry ELSE L2Entry(i, k)
<1>1. PICK i0 \in L1Index, k0 \in Slots : i0 = L1Of(Off) /\ k0 = L2Of(Off)
  BY OffType DEF IInv, TypeOK, IndexChecked, AfterLookup
<1>2. /\ FileOK /\ entry \in Word
      /\ L2Table(i0) + k0 \in Nat
      /\ \A i : L2Table(i) \in Nat
  BY <1>1, EntryPlaceType, PlaceType DEF IInv, TypeOK, FrameOK
<1>3. eof' >= eof /\ \A x \in Nat : At(x)' = IF x = L2Table(i0) + k0 THEN entry ELSE At(x)
  BY <1>1, <1>2, PutWordReads
<1>4. CASE L2Table(i0) = 0
  <2>1. <<"data", i0, k0>> \in Owners /\ \A i \in L1Index : <<"data", i0, k0>> # <<"l2", i, 0>>
    BY <1>1, OwnerKinds
  <2>2. \A x \in Nat : ~(0 <= x /\ x < 0 + ClusterSize) => At(x)' = At(x)
    BY <1>1, <1>3, <1>4, SizesAssumption DEF Slots
  <2>3. EntriesKept
    BY <2>1, <2>2, ClusterWritten
  <2> QED
    BY <1>1, <1>3, <1>4, <2>3, Zenon DEF EntriesKept
<1>5. CASE L2Table(i0) # 0
  <2>1. Placed(L2Table(i0)) /\ Claimed(<<"l2", i0, 0>>, L2Table(i0)) /\ <<"l2", i0, 0>> \in Owners
    BY <1>1, <1>5, L2TablePlaced, OwnerKinds
  <2>2. \A i \in L1Index : L2Table(i)' = L2Table(i)
    <3>1. ASSUME NEW i \in L1Index
          PROVE  L2Table(i0) + k0 # L1Off + i
      BY <1>1, <1>2, <2>1, SizesAssumption DEF Placed, Disjoint, L1Index, Slots
    <3> QED
      BY <1>3, <3>1, L1EntryKept
  <2>3. \A j \in RefIndex : RefEntry(j)' = RefEntry(j)
    <3>1. ASSUME NEW j \in RefIndex
          PROVE  L2Table(i0) + k0 # RefTableOff + j
      BY <1>1, <1>2, <2>1, SizesAssumption DEF Placed, Disjoint, RefIndex, Slots
    <3> QED
      BY <1>3, <3>1, RefEntryKept
  <2>4. ASSUME NEW i \in L1Index, NEW k \in Slots, i # i0 \/ k # k0
        PROVE  L2Entry(i, k)' = L2Entry(i, k)
    <3>1. L2Table(i) # 0 => L2Table(i) + k # L2Table(i0) + k0
      <4>1. CASE i = i0
        BY <1>1, <1>2, <2>4, <4>1 DEF Slots
      <4>2. CASE i # i0 /\ L2Table(i) # 0
        <5>1. <<"l2", i0, 0>> # <<"l2", i, 0>>
          BY <4>2
        <5>2. Disjoint(L2Table(i), ClusterSize, L2Table(i0), ClusterSize)
          BY <1>2, <2>1, <4>2, <5>1, L2TableApart
        <5> QED
          BY <1>1, <1>2, <5>2, SizesAssumption DEF Disjoint, Slots
      <4> QED
        BY <4>1, <4>2
    <3> QED
      BY <1>2, <1>3, <2>2, <3>1, L2EntryKept
  <2>5. L2Entry(i0, k0)' = entry
    <3>1. L2Table(i0)' = L2Table(i0)
      BY <1>1, <2>2
    <3>2. PICK x \in Nat : x = L2Table(i0) + k0
      BY <1>2
    <3>3. At(x)' = entry
      BY <1>3, <3>2
    <3> QED
      BY <1>5, <3>1, <3>2, <3>3 DEF L2Entry, At
  <2> QED
    BY <1>1, <1>3, <1>5, <2>2, <2>3, <2>4, <2>5
<1> QED
  BY <1>4, <1>5

LEMMA MappedPlaces ==
  ASSUME IInv, pc = "set_entry", PutWord(L2Table(L1Of(Off)) + L2Of(Off), entry)
  PROVE  /\ eof' >= eof
         /\ \A o \in Owners, s \in Nat : s = Place(o)' => s = 0 \/ Claimed(o, s)
<1>1. ASSUME NEW o \in Owners, NEW s \in Nat, s = Place(o)'
      PROVE  s = 0 \/ Claimed(o, s)
  <2>1. \/ Place(o)' = Place(o)
        \/ o = <<"data", L1Of(Off), L2Of(Off)>> /\ Place(o)' = Mask(entry.n)
    <3>1. CASE \E i \in L1Index : o = <<"l2", i, 0>>
      BY <3>1, MappedEntries DEF Place
    <3>2. CASE \E j \in RefIndex : o = <<"ref", j, 0>>
      BY <3>2, MappedEntries DEF Place, RefBlock, Mask
    <3>3. CASE \E i \in L1Index, k \in Slots : o = <<"data", i, k>>
      <4>1. PICK i \in L1Index, k \in Slots : o = <<"data", i, k>>
        BY <3>3
      <4>2. Place(o)' = Mask(L2Entry(i, k)'.n)
        BY <4>1 DEF Place, Mask
      <4> QED
        BY <4>1, <4>2, MappedEntries, PlaceOfKind
    <3> QED
      BY <3>1, <3>2, <3>3, OwnerKinds
  <2> QED
    BY <1>1, <2>1 DEF Claimed, HeldByCall
<1> QED
  BY <1>1, MappedEntries

(* The L1 entry becomes the table that the call holds, which has no entry, *)
(* and no other entry changes.                                             *)
LEMMA LinkedL2Entries ==
  ASSUME IInv, pc = "link_l2", PutWord(L1Off + L1Of(Off), [n |-> pos, copied |-> FALSE])
  PROVE  /\ eof' >= eof
         /\ \A i \in L1Index :
              L2Table(i)' = IF i = L1Of(Off) THEN Mask(pos) ELSE L2Table(i)
         /\ \A j \in RefIndex : RefEntry(j)' = RefEntry(j)
         /\ \A i \in L1Index, k \in Slots :
              L2Entry(i, k)' = IF i = L1Of(Off) THEN Zero ELSE L2Entry(i, k)
<1>1. PICK i0 \in L1Index : i0 = L1Of(Off)
  BY DEF IInv, IndexChecked, AfterLookup
<1>2. PICK new \in Nat : new = Mask(pos)
  BY MaskRange DEF IInv, TypeOK, FrameOK
<1> DEFINE w == [n |-> pos, copied |-> FALSE]
<1>3. /\ FileOK /\ L1Off + i0 \in Nat
      /\ \A i : L2Table(i) \in Nat
  BY <1>1, EntryPlaceType, PlaceType DEF IInv, TypeOK
<1>4. eof' >= eof /\ \A x \in Nat : At(x)' = IF x = L1Off + i0 THEN w ELSE At(x)
  BY <1>1, <1>3, PutWordReads
<1>5. /\ ClusterSize \in Nat /\ L1Off \in Nat /\ L1Size \in Nat
      /\ RefTableOff \in Nat /\ RefTableSize \in Nat
  BY SizesAssumption
<1>6. L2Table(i0)' = new
  <2>1. PICK x \in Nat : x = L1Off + i0
    BY <1>3
  <2>2. At(x)' = w
    BY <1>4, <2>1
  <2>3. At(L1Off + i0)' = w
    BY <2>1, <2>2
  <2>4. w.n = pos
    OBVIOUS
  <2> HIDE DEF w
  <2> QED
    BY <1>2, <2>3, <2>4 DEF L2Table, L1Entry, Mask
<1>7. \A i \in L1Index : i # i0 => L2Table(i)' = L2Table(i)
  <2>1. ASSUME NEW i \in L1Index, i # i0
        PROVE  L1Off + i # L1Off + i0
    BY <1>5, <2>1 DEF L1Index
  <2> QED
    BY <1>4, <2>1, L1EntryKept
<1>8. \A j \in RefIndex : RefEntry(j)' = RefEntry(j)
  <2>1. ASSUME NEW j \in RefIndex
        PROVE  RefTableOff + j # L1Off + i0
    BY <1>5, LayoutAssumption DEF L1Index, RefIndex, Disjoint
  <2> QED
    BY <1>4, <2>1, RefEntryKept
<1>9. ASSUME NEW i \in L1Index, NEW k \in Slots, i # i0
      PROVE  L2Entry(i, k)' = L2Entry(i, k)
  <2>1. ASSUME L2Table(i) # 0
        PROVE  L2Table(i) + k # L1Off + i0
    <3>1. Disjoint(L2Table(i), ClusterSize, L1Off, L1Size)
      BY <2>1, L2TablePlaced DEF Placed
    <3> QED
      BY <1>3, <1>5, <3>1 DEF Disjoint, L1Index, Slots
  <2> QED
    BY <1>3, <1>4, <1>7, <1>9, <2>1, L2EntryKept
<1>10. ASSUME NEW k \in Slots
       PROVE  L2Entry(i0, k)' = Zero
  <2>1. CASE new = 0
    BY <1>6, <2>1 DEF L2Entry, Zero
  <2>2. CASE new # 0
    <3>1. PICK x \in Nat : x = new + k
      BY DEF Slots
    <3>2. At(x) = Zero
      BY <1>2, <3>1 DEF IInv, NewTableBlank
    <3>3. Disjoint(new, ClusterSize, L1Off, L1Size)
      <4>1. Claimed(<<"l2", i0, 0>>, new) /\ <<"l2", i0, 0>> \in Owners
        BY <1>1, <1>2, <2>2, OwnerKinds DEF Claimed, HeldByCall, IInv
      <4> QED
        BY <4>1 DEF IInv, ClaimsPlaced, Placed
    <3>4. x # L1Off + i0
      BY <1>5, <3>1, <3>3 DEF Disjoint, L1Index, Slots
    <3>5. At(x)' = Zero
      BY <1>4, <3>2, <3>4
    <3> QED
      BY <1>6, <2>2, <3>1, <3>5 DEF L2Entry, At, Zero
  <2> QED
    BY <2>1, <2>2
<1> QED
  BY <1>1, <1>2, <1>4, <1>6, <1>7, <1>8, <1>9, <1>10

LEMMA LinkedL2Places ==
  ASSUME IInv, pc = "link_l2", PutWord(L1Off + L1Of(Off), [n |-> pos, copied |-> FALSE])
  PROVE  /\ eof' >= eof
         /\ \A o \in Owners, s \in Nat : s = Place(o)' => s = 0 \/ Claimed(o, s)
<1>1. ASSUME NEW o \in Owners, NEW s \in Nat, s = Place(o)'
      PROVE  s = 0 \/ Claimed(o, s)
  <2>1. Place(o)' \in {0, Place(o)} \/ (o = <<"l2", L1Of(Off), 0>> /\ Place(o)' = Mask(pos))
    <3>1. CASE \E i \in L1Index : o = <<"l2", i, 0>>
      BY <3>1, LinkedL2Entries DEF Place
    <3>2. CASE \E j \in RefIndex : o = <<"ref", j, 0>>
      BY <3>2, LinkedL2Entries DEF Place, RefBlock, Mask
    <3>3. CASE \E i \in L1Index, k \in Slots : o = <<"data", i, k>>
      <4>1. PICK i \in L1Index, k \in Slots : o = <<"data", i, k>>
        BY <3>3
      <4>2. Place(o)' = Mask(L2Entry(i, k)'.n)
        BY <4>1 DEF Place, Mask
      <4> QED
        BY <4>1, <4>2, LinkedL2Entries, PlaceOfKind, MaskOfZero
    <3> QED
      BY <3>1, <3>2, <3>3, OwnerKinds
  <2> QED
    BY <1>1, <2>1 DEF Claimed, HeldByCall
<1> QED
  BY <1>1, LinkedL2Entries

(* The same for the refcount table.                                        *)
LEMMA LinkedRefEntries ==
  ASSUME IInv, pc = "link_ref", PutWord(RefTableOff + L1Of(Off), [n |-> pos, copied |-> FALSE])
  PROVE  /\ eof' >= eof
         /\ \A i \in L1Index : L2Table(i)' = L2Table(i)
         /\ \A j \in RefIndex : RefEntry(j)' =
              IF j = L1Of(Off) THEN [n |-> pos, copied |-> FALSE] ELSE RefEntry(j)
         /\ \A i \in L1Index, k \in Slots : L2Entry(i, k)' = L2Entry(i, k)
<1>1. PICK j0 \in RefIndex : j0 = L1Of(Off)
  BY DEF IInv, IndexChecked, AfterLookup
<1> DEFINE w == [n |-> pos, copied |-> FALSE]
<1>3. /\ FileOK /\ RefTableOff + j0 \in Nat
      /\ \A i : L2Table(i) \in Nat
  BY <1>1, EntryPlaceType, PlaceType DEF IInv, TypeOK
<1>4. eof' >= eof /\ \A x \in Nat : At(x)' = IF x = RefTableOff + j0 THEN w ELSE At(x)
  BY <1>1, <1>3, PutWordReads
<1>5. /\ ClusterSize \in Nat /\ L1Off \in Nat /\ L1Size \in Nat
      /\ RefTableOff \in Nat /\ RefTableSize \in Nat
  BY SizesAssumption
<1>6. RefEntry(j0)' = w
  <2>1. PICK x \in Nat : x = RefTableOff + j0
    BY <1>3
  <2>2. At(x)' = w
    BY <1>4, <2>1
  <2> HIDE DEF w
  <2> QED
    BY <2>1, <2>2 DEF RefEntry
<1>7. \A j \in RefIndex : j # j0 => RefEntry(j)' = RefEntry(j)
  <2>1. ASSUME NEW j \in RefIndex, j # j0
        PROVE  RefTableOff + j # RefTableOff + j0
    BY <1>5, <2>1 DEF RefIndex
  <2> QED
    BY <1>4, <2>1, RefEntryKept
<1>8. \A i \in L1Index : L2Table(i)' = L2Table(i)
  <2>1. ASSUME NEW i \in L1Index
        PROVE  L1Off + i # RefTableOff + j0
    BY <1>5, LayoutAssumption DEF L1Index, RefIndex, Disjoint
  <2> QED
    BY <1>4, <2>1, L1EntryKept
<1>9. ASSUME NEW i \in L1Index, NEW k \in Slots
      PROVE  L2Entry(i, k)' = L2Entry(i, k)
  <2>1. ASSUME L2Table(i) # 0
        PROVE  L2Table(i) + k # RefTableOff + j0
    <3>1. Disjoint(L2Table(i), ClusterSize, RefTableOff, RefTableSize)
      BY <2>1, L2TablePlaced DEF Placed
    <3> QED
      BY <1>3, <1>5, <3>1 DEF Disjoint, RefIndex, Slots
  <2> QED
    BY <1>3, <1>4, <1>8, <2>1, L2EntryKept
<1> QED
  BY <1>1, <1>4, <1>6, <1>7, <1>8, <1>9

LEMMA LinkedRefPlaces ==
  ASSUME IInv, pc = "link_ref", PutWord(RefTableOff + L1Of(Off), [n |-> pos, copied |-> FALSE])
  PROVE  /\ eof' >= eof
         /\ \A o \in Owners, s \in Nat : s = Place(o)' => s = 0 \/ Claimed(o, s)
<1>1. ASSUME NEW o \in Owners, NEW s \in Nat, s = Place(o)'
      PROVE  s = 0 \/ Claimed(o, s)
  <2>1. Place(o)' = Place(o) \/ (o = <<"ref", L1Of(Off), 0>> /\ Place(o)' = Mask(pos))
    <3>1. CASE \E i \in L1Index : o = <<"l2", i, 0>>
      BY <3>1, LinkedRefEntries DEF Place
    <3>2. CASE \E j \in RefIndex : o = <<"ref", j, 0>>
      BY <3>2, LinkedRefEntries DEF Place, RefBlock, Mask
    <3>3. CASE \E i \in L1Index, k \in Slots : o = <<"data", i, k>>
      BY <3>3, LinkedRefEntries DEF Place, Mask
    <3> QED
      BY <3>1, <3>2, <3>3, OwnerKinds
  <2> QED
    BY <1>1, <2>1 DEF Claimed, HeldByCall
<1> QED
  BY <1>1, LinkedRefEntries

-----------------------------------------------------------------------------
(* The steps of qwrite after the lookup.                                   *)

LEMMA SetEntryKeeps ==
  ASSUME IInv, TypeOK', LateMoves, SetEntry \/ SetEntryFails
  PROVE  IInv' /\ OnlyExtended
<1>1. /\ pc = "set_entry" /\ l1[L1Of(Off)] # NoTable /\ PutMapping /\ stray' = stray
      /\ req' = req /\ done' = done /\ entry' = entry /\ pc' \in {"write_data", "update_ref"}
  BY DEF SetEntry, SetEntryFails, Continue, marks
<1>2. \A o \in Owners, s \in Nat : HeldInMemory(o, s)' => s = 0 \/ Claimed(o, s)
  BY <1>1, MappedMemory
<1>3. /\ eof' >= eof
      /\ \A o \in Owners, s \in Nat : s = Place(o)' => s = 0 \/ Claimed(o, s)
  <2>1. CASE SetEntry
    BY <1>1, <2>1, MappedPlaces DEF SetEntry
  <2>2. CASE SetEntryFails
    BY <2>2, FileKept, OldPlaces DEF SetEntryFails, IInv, TypeOK
  <2> QED
    BY <2>1, <2>2
<1>4. L1Of(Off)' = L1Of(Off) /\ L2Of(Off)' = L2Of(Off)
  BY <1>1, OffKept
<1>5. \A o, s : HeldByCall(o, s)' => HeldByCall(o, s)
  BY <1>1, <1>4 DEF HeldByCall, Mask
<1>6. \A o \in Owners, s \in Nat : HeldByCall(o, s)' => s = 0 \/ Claimed(o, s)
  BY <1>5 DEF Claimed
<1>7. TablesInFile' /\ ClaimsPlaced' /\ ClaimsApart' /\ OnlyExtended
  BY <1>2, <1>3, <1>6, ClaimsFollow
<1>8. IndexChecked' /\ NewTableBlank'
  BY <1>1, <1>4 DEF IInv, IndexChecked, NewTableBlank, AfterLookup
<1> QED
  BY <1>7, <1>8, LateStep DEF IInv

LEMMA ReadLinkFailsKeeps ==
  ASSUME IInv, TypeOK', LateMoves, ReadLinkFails
  PROVE  IInv' /\ OnlyExtended
<1>1. /\ pc = "set_entry" /\ l1[L1Of(Off)] # NoTable /\ PutMapping /\ stray' = stray
      /\ UNCHANGED file /\ pc' = "idle"
  BY DEF ReadLinkFails, ReturnError, EmptyFrame, marks
<1>2. eof' >= eof /\ \A o \in Owners : Place(o)' = Place(o)
  BY <1>1, FileKept DEF IInv, TypeOK
<1> QED
  BY <1>1, <1>2, MappedMemory, OldPlaces, CallEnds

LEMMA LinkL2Keeps ==
  ASSUME IInv, TypeOK', LateMoves, LinkL2
  PROVE  IInv' /\ OnlyExtended
<1>1. /\ pc = "link_l2" /\ pc' = "set_entry"
      /\ PutWord(L1Off + L1Of(Off), [n |-> pos, copied |-> FALSE])
      /\ l1' = [l1 EXCEPT ![L1Of(Off)] = [k \in Slots |-> Zero]]
      /\ req' = req /\ done' = done /\ entry' = entry /\ stray' = stray
  BY DEF LinkL2, Continue, marks
<1>2. /\ eof' >= eof
      /\ \A o \in Owners, s \in Nat : s = Place(o)' => s = 0 \/ Claimed(o, s)
  BY <1>1, LinkedL2Places
<1>3. ASSUME NEW i \in L1Index, NEW k \in Slots
      PROVE  MemPlace(i, k)' \in {0, MemPlace(i, k)}
  <2>1. l1 \in [L1Index -> Table \cup {NoTable}]
    BY DEF IInv, TypeOK, ContextOK
  <2>2. CASE i = L1Of(Off)
    <3>1. l1'[i][k] = Zero
      BY <1>1, <2>1, <2>2
    <3> QED
      BY <3>1, MaskOfZero DEF MemPlace, Mask
  <2>3. CASE i # L1Of(Off)
    <3>1. l1'[i] = l1[i]
      BY <1>1, <2>1, <2>3
    <3> QED
      BY <3>1 DEF MemPlace, Mask
  <2> QED
    BY <2>2, <2>3
<1>4. \A o \in Owners, s \in Nat : HeldInMemory(o, s)' => s = 0 \/ Claimed(o, s)
  BY <1>1, <1>3 DEF HeldInMemory, Claimed
<1>5. L1Of(Off)' = L1Of(Off) /\ L2Of(Off)' = L2Of(Off)
  BY <1>1, OffKept
<1>6. \A o, s : HeldByCall(o, s)' => HeldByCall(o, s)
  BY <1>1, <1>5 DEF HeldByCall, Mask
<1>7. \A o \in Owners, s \in Nat : HeldByCall(o, s)' => s = 0 \/ Claimed(o, s)
  BY <1>6 DEF Claimed
<1>8. TablesInFile' /\ ClaimsPlaced' /\ ClaimsApart' /\ OnlyExtended
  BY <1>2, <1>4, <1>7, ClaimsFollow
<1>9. IndexChecked' /\ NewTableBlank'
  BY <1>1, <1>5 DEF IInv, IndexChecked, NewTableBlank, AfterLookup
<1> QED
  BY <1>8, <1>9, LateStep DEF IInv

LEMMA LinkRefKeeps ==
  ASSUME IInv, TypeOK', LateMoves, LinkRef
  PROVE  IInv' /\ OnlyExtended
<1>1. /\ pc = "link_ref" /\ pc' = "update_ref"
      /\ PutWord(RefTableOff + L1Of(Off), [n |-> pos, copied |-> FALSE])
      /\ l1' = l1 /\ stray' = stray /\ req' = req /\ done' = done
  BY DEF LinkRef, Continue, marks
<1>2. /\ eof' >= eof
      /\ \A o \in Owners, s \in Nat : s = Place(o)' => s = 0 \/ Claimed(o, s)
  BY <1>1, LinkedRefPlaces
<1>3. \A o \in Owners, s \in Nat : HeldInMemory(o, s)' => s = 0 \/ Claimed(o, s)
  BY <1>1, OldMemory
<1>4. \A o \in Owners, s \in Nat : HeldByCall(o, s)' => s = 0 \/ Claimed(o, s)
  BY <1>1, EmptyHands
<1>5. TablesInFile' /\ ClaimsPlaced' /\ ClaimsApart' /\ OnlyExtended
  BY <1>2, <1>3, <1>4, ClaimsFollow
<1>6. L1Of(Off)' = L1Of(Off)
  BY <1>1, OffKept
<1>7. IndexChecked' /\ NewTableBlank'
  BY <1>1, <1>6 DEF IInv, IndexChecked, NewTableBlank, AfterLookup
<1> QED
  BY <1>5, <1>7, LateStep DEF IInv

(* A new table whose entry of the L1 table is lost is in memory with the   *)
(* cluster that the call holds.                                            *)
LEMMA UnlinkedMemory ==
  ASSUME IInv, pc = "link_l2", stray' = stray,
         l1' = [l1 EXCEPT ![L1Of(Off)] = [[k \in Slots |-> Zero] EXCEPT ![L2Of(Off)] = entry]]
  PROVE  \A o \in Owners, s \in Nat : HeldInMemory(o, s)' => s = 0 \/ Claimed(o, s)
<1>1. L1Of(Off) \in L1Index /\ L2Of(Off) \in Slots
  BY OffType DEF IInv, TypeOK, IndexChecked, AfterLookup
<1>2. l1 \in [L1Index -> Table \cup {NoTable}]
  BY DEF IInv, TypeOK, ContextOK
<1>3. ASSUME NEW i \in L1Index, NEW k \in Slots
      PROVE  \/ MemPlace(i, k)' \in {0, MemPlace(i, k)}
             \/ i = L1Of(Off) /\ k = L2Of(Off) /\ MemPlace(i, k)' = Mask(entry.n)
  <2>1. CASE i # L1Of(Off)
    <3>1. l1'[i] = l1[i]
      BY <1>2, <2>1
    <3> QED
      BY <3>1 DEF MemPlace, Mask
  <2>2. CASE i = L1Of(Off)
    <3>1. l1'[i][k] = IF k = L2Of(Off) THEN entry ELSE Zero
      BY <1>1, <1>2, <2>2
    <3>2. MemPlace(i, k)' \in {0, Mask(l1'[i][k].n)}
      BY DEF MemPlace, Mask
    <3> QED
      BY <2>2, <3>1, <3>2, MaskOfZero
  <2> QED
    BY <2>1, <2>2
<1>4. ASSUME NEW o \in Owners, NEW s \in Nat, HeldInMemory(o, s)'
      PROVE  s = 0 \/ Claimed(o, s)
  <2>1. PICK i \in L1Index, k \in Slots :
          o = <<"data", i, k>> /\ <<i, k>> \notin stray /\ s = MemPlace(i, k)'
    BY <1>4 DEF HeldInMemory
  <2>2. CASE s \in {0, MemPlace(i, k)}
    BY <2>1, <2>2 DEF Claimed, HeldInMemory
  <2>3. CASE i = L1Of(Off) /\ k = L2Of(Off) /\ s = Mask(entry.n)
    BY <2>1, <2>3 DEF Claimed, HeldByCall
  <2> QED
    BY <1>3, <2>1, <2>2, <2>3
<1> QED
  BY <1>4

LEMMA LinkFailsKeeps ==
  ASSUME IInv, TypeOK', LateMoves, LinkL2Fails \/ LinkRefFails
  PROVE  IInv' /\ OnlyExtended
<1>1. pc' \in {"idle", "lookup"} /\ stray' = stray
  BY DEF LinkL2Fails, LinkRefFails, ReturnError, NextCluster, ReturnOk, EmptyFrame, marks
<1>2. /\ eof' >= eof
      /\ \A o \in Owners, s \in Nat : s = Place(o)' => s = 0 \/ Claimed(o, s)
  <2>1. CASE UNCHANGED file
    BY <2>1, FileKept, OldPlaces DEF IInv, TypeOK
  <2>2. CASE LinkL2Fails /\ ~UNCHANGED file
    BY <2>2, LinkedL2Places DEF LinkL2Fails
  <2>3. CASE LinkRefFails /\ ~UNCHANGED file
    BY <2>3, LinkedRefPlaces DEF LinkRefFails
  <2> QED
    BY <2>1, <2>2, <2>3
<1>3. \A o \in Owners, s \in Nat : HeldInMemory(o, s)' => s = 0 \/ Claimed(o, s)
  <2>1. CASE l1' = l1
    BY <1>1, <2>1, OldMemory
  <2>2. CASE l1' # l1
    <3>1. LinkL2Fails
      BY <2>2 DEF LinkRefFails
    <3> QED
      BY <1>1, <2>2, <3>1, UnlinkedMemory DEF LinkL2Fails
  <2> QED
    BY <2>1, <2>2
<1> QED
  BY <1>1, <1>2, <1>3, CallEnds

(* The data of a call goes to the cluster that the call holds.             *)
LEMMA DataWritten ==
  ASSUME IInv, pc = "write_data", NEW m \in 0 .. Chunk, PutData(m)
  PROVE  eof' >= eof /\ EntriesKept /\ \A o \in Owners : Place(o)' = Place(o)
<1>1. L1Of(Off) \in L1Index /\ L2Of(Off) \in Slots
  BY OffType DEF IInv, TypeOK, IndexChecked, AfterLookup
<1>2. PICK c \in Nat : c = Mask(entry.n)
  BY MaskRange DEF IInv, TypeOK, FrameOK, Word
<1>3. PICK q \in Owners : q = <<"data", L1Of(Off), L2Of(Off)>>
  BY <1>1, OwnerKinds
<1>4. c = 0 \/ Claimed(q, c)
  BY <1>2, <1>3 DEF Claimed, HeldByCall
<1>5. eof' >= eof /\ \A x \in Nat : ~(c <= x /\ x < c + ClusterSize) => At(x)' = At(x)
  BY <1>2, PutDataReads DEF IInv
<1>6. \A i \in L1Index : q # <<"l2", i, 0>>
  BY <1>3
<1> QED
  BY <1>4, <1>5, <1>6, ClusterWritten

LEMMA PartOfDataWritten ==
  ASSUME IInv, pc = "write_data", PartOfData
  PROVE  eof' >= eof /\ EntriesKept /\ \A o \in Owners : Place(o)' = Place(o)
<1>1. 0 .. Chunk - 1 \subseteq 0 .. Chunk
  BY OffType DEF IInv, TypeOK
<1> QED
  BY <1>1, DataWritten DEF PartOfData

LEMMA WriteDataKeeps ==
  ASSUME IInv, TypeOK', LateMoves, WriteData \/ WriteDataFails
  PROVE  IInv' /\ OnlyExtended
<1>1. PICK m \in 0 .. Chunk : PutData(m)
  BY OffType DEF WriteData, WriteDataFails, PartOfData, IInv, TypeOK
<1>2. /\ pc = "write_data" /\ pc' = "update_ref"
      /\ l1' = l1 /\ stray' = stray /\ req' = req /\ done' = done
  BY DEF WriteData, WriteDataFails, Continue, context, marks
<1>3. eof' >= eof /\ \A o \in Owners : Place(o)' = Place(o)
  BY <1>1, <1>2, DataWritten
<1>4. \A o \in Owners, s \in Nat : s = Place(o)' => s = 0 \/ Claimed(o, s)
  BY <1>3, OldPlaces
<1>5. \A o \in Owners, s \in Nat : HeldInMemory(o, s)' => s = 0 \/ Claimed(o, s)
  BY <1>2, OldMemory
<1>6. \A o \in Owners, s \in Nat : HeldByCall(o, s)' => s = 0 \/ Claimed(o, s)
  BY <1>2, EmptyHands
<1>7. TablesInFile' /\ ClaimsPlaced' /\ ClaimsApart' /\ OnlyExtended
  BY <1>3, <1>4, <1>5, <1>6, ClaimsFollow
<1>8. L1Of(Off)' = L1Of(Off)
  BY <1>2, OffKept
<1>9. IndexChecked' /\ NewTableBlank'
  BY <1>2, <1>8 DEF IInv, IndexChecked, NewTableBlank, AfterLookup
<1> QED
  BY <1>7, <1>9, LateStep DEF IInv

LEMMA UpdateRefKeeps ==
  ASSUME IInv, TypeOK', LateMoves, UpdateRef \/ UpdateRefFails
  PROVE  IInv' /\ OnlyExtended
<1>1. l1' = l1 /\ stray' = stray /\ pc = "update_ref" /\ pc' \in {"idle", "lookup"}
  BY DEF UpdateRef, UpdateRefFails, NextCluster, ReturnOk, EmptyFrame, marks
<1>2. eof' >= eof /\ \A o \in Owners : Place(o)' = Place(o)
  <2>1. CASE UNCHANGED file
    BY <2>1, FileKept DEF IInv, TypeOK
  <2>2. CASE ~UNCHANGED file
    BY <1>1, <2>2, RefCountWritten DEF UpdateRef, UpdateRefFails
  <2> QED
    BY <2>1, <2>2
<1> QED
  BY <1>1, <1>2, OldPlaces, OldMemory, CallEnds

LEMMA FlushDataFailsKeeps ==
  ASSUME IInv, TypeOK', LateMoves, FlushDataFails
  PROVE  IInv' /\ OnlyExtended
<1>1. l1' = l1 /\ stray' = stray /\ pc = "write_data" /\ pc' \in {"idle", "lookup"}
  BY DEF FlushDataFails, NextCluster, ReturnOk, EmptyFrame
<1>2. eof' >= eof /\ \A o \in Owners : Place(o)' = Place(o)
  BY <1>1, PartOfDataWritten DEF FlushDataFails
<1> QED
  BY <1>1, <1>2, OldPlaces, OldMemory, CallEnds

(* The buffer loses a refcount, whatever comes next.                       *)
LEMMA FlushFailsKeeps ==
  ASSUME IInv, TypeOK', LateMoves, FlushFails
  PROVE  IInv' /\ OnlyExtended
<1>1. Lose /\ stray' = stray /\ req' = req
  BY DEF FlushFails
<1>2. \A o \in Owners : Place(o)' = Place(o)
  BY <1>1, LoseKept
<1>3. \A o \in Owners, s \in Nat : s = Place(o)' => s = 0 \/ Claimed(o, s)
  BY <1>2, OldPlaces
<1>4. \A o \in Owners, s \in Nat : HeldInMemory(o, s)' => s = 0 \/ Claimed(o, s)
  <2>1. CASE l1' = l1
    BY <1>1, <2>1, OldMemory
  <2>2. CASE l1' # l1
    <3>1. pc = "set_entry" /\ l1[L1Of(Off)] # NoTable /\ PutMapping
      BY <2>2 DEF FlushFails, context
    <3> QED
      BY <1>1, <3>1, MappedMemory
  <2> QED
    BY <2>1, <2>2
<1>5. CASE pc' = "idle"
  BY <1>1, <1>3, <1>4, <1>5, CallEnds
<1>6. CASE pc' # "idle"
  <2>1. pc = "write_data" /\ pc' = "update_ref" /\ done' = done
    BY <1>6 DEF FlushFails, Continue, ReturnError, EmptyFrame
  <2>2. \A o \in Owners, s \in Nat : HeldByCall(o, s)' => s = 0 \/ Claimed(o, s)
    BY <2>1, EmptyHands
  <2>3. TablesInFile' /\ ClaimsPlaced' /\ ClaimsApart' /\ OnlyExtended
    BY <1>1, <1>3, <1>4, <2>2, ClaimsFollow
  <2>4. L1Of(Off)' = L1Of(Off)
    BY <1>1, <2>1, OffKept
  <2>5. IndexChecked' /\ NewTableBlank'
    BY <2>1, <2>4 DEF IInv, IndexChecked, NewTableBlank, AfterLookup
  <2> QED
    BY <2>3, <2>5, LateStep DEF IInv
<1> QED
  BY <1>5, <1>6

(* The context is gone, and of the file the buffer or a part of the write  *)
(* on its way is lost.                                                     *)
LEMMA KilledFileKept ==
  ASSUME IInv, KilledFile
  PROVE  eof' >= eof /\ EntriesKept /\ \A o \in Owners : Place(o)' = Place(o)
<1>1. CASE UNCHANGED file
  BY <1>1, FileKept DEF IInv, TypeOK
<1>2. CASE pc = "write_data" /\ \E m \in 1 .. Chunk : PutData(m)
  <2>1. 1 .. Chunk \subseteq 0 .. Chunk
    BY OffType DEF IInv, TypeOK
  <2> QED
    BY <1>2, <2>1, DataWritten
<1>3. CASE \E end \in eof .. ExtendedEof : ZeroTo(end)
  <2>1. PICK end \in eof .. ExtendedEof : ZeroTo(end)
    BY <1>3
  <2>2. end \in Nat /\ end >= eof
    BY <2>1, ExtendedEofRange DEF IInv, TypeOK, FileOK, ContextOK
  <2> QED
    BY <2>1, <2>2, ExtensionKept DEF IInv, TypeOK, FileOK
<1> QED
  BY <1>1, <1>2, <1>3 DEF KilledFile

LEMMA CrashKeeps ==
  ASSUME IInv, TypeOK', LateMoves, Crash \/ CloseFails
  PROVE  IInv' /\ OnlyExtended
<1>1. (eof' >= eof \/ Lose) /\ \A o \in Owners : Place(o)' = Place(o)
  BY KilledFileKept, LoseKept DEF Crash, CloseFails
<1>2. Release /\ pc' = "idle"
  BY DEF Crash, CloseFails, EmptyFrame
<1> QED
  BY <1>1, <1>2, OldPlaces, OldMemory, CallEnds

-----------------------------------------------------------------------------
(* The theorem.                                                            *)

(* An image that is sound has its claims placed and apart.                 *)
LEMMA InitClaims ==
  ASSUME Init
  PROVE  IInv
<1>1. TypeOK
  BY InitType
<1>2. TablesInFile
  BY ImagesAssumption DEF Init, TablesInFile, Reached, Buffered
<1>3. IndexChecked /\ NewTableBlank /\ LateCounted
  BY DEF Init, IndexChecked, NewTableBlank, LateCounted, Buffered, AfterLookup
<1>4. \A o \in Owners, s \in Nat : Claimed(o, s) => o \in Live /\ s = Place(o)
  BY DEF Init, Claimed, HeldInMemory, HeldByCall, MemPlace, Live
<1>5. \A o \in Owners : Place(o) % Sector = 0
  <2>1. ASSUME NEW n \in Nat
        PROVE  Mask(n) % Sector = 0
    BY MaskRange
  <2>2. \A x : At(x).n \in Nat
    BY <1>1, AtType DEF TypeOK, Word
  <2>3. \A i, k : L2Entry(i, k).n \in Nat
    BY <2>2 DEF L2Entry, Zero
  <2> QED
    BY <2>1, <2>2, <2>3 DEF Place, L2Table, L1Entry, RefBlock, RefEntry
<1>6. ClaimsPlaced
  <2>1. SoundImage
    BY DEF Init
  <2> QED
    BY <1>4, <1>5, <2>1 DEF ClaimsPlaced, Placed, SoundImage, Apart, Init, Reached, Buffered
<1>7. ClaimsApart
  <2>1. SoundImage
    BY DEF Init
  <2> QED
    BY <1>4, <2>1 DEF ClaimsApart, SoundImage, Apart
<1> QED
  BY <1>1, <1>2, <1>3, <1>6, <1>7 DEF IInv

LEMMA StepKeeps ==
  ASSUME IInv, ~retried', [Next]_vars
  PROVE  IInv' /\ OnlyExtended
<1>1. TypeOK' /\ LateMoves
  BY TypeStep, BufferStep DEF IInv
<1> QED
  BY <1>1, SessionKeeps, LookupKeeps, ExtendKeeps, ExtendFailsKeeps, ExtendFailsMappedKeeps,
     SetEntryKeeps, ReadLinkFailsKeeps, LinkL2Keeps, LinkRefKeeps, LinkFailsKeeps,
     WriteDataKeeps, UpdateRefKeeps, FlushDataFailsKeeps, FlushFailsKeeps, CrashKeeps
     DEF Next, Step, Failure

(* A stray cluster that was used stays so.                                 *)
LEMMA RetriedStays ==
  ASSUME TypeOK, [Next]_vars, retried
  PROVE  retried'
<1>1. retried' \in {retried, retried \/ Index(Off) \in stray}
  BY MarksStep DEF TypeOK
<1> QED
  BY <1>1

LEMMA ClaimsSuffice ==
  ASSUME IInv
  PROVE  Apart
<1>1. ASSUME NEW o \in Live
      PROVE  o \in Owners /\ Place(o) \in Nat /\ Claimed(o, Place(o))
  BY PlaceType DEF IInv, TypeOK, Live, Claimed
<1>2. ASSUME NEW o \in Live, NEW p \in Live, o # p
      PROVE  Disjoint(Place(o), ClusterSize, Place(p), ClusterSize)
  BY <1>1, <1>2 DEF IInv, ClaimsApart
<1>3. ASSUME NEW o \in Live
      PROVE  Placed(Place(o))
  BY <1>1 DEF IInv, ClaimsPlaced
<1> QED
  BY <1>2, <1>3 DEF Apart, Placed

(* Until a cluster whose extension failed is used once more.               *)
SoundClaims == TypeOK /\ (~retried => IInv)

LEMMA SoundClaimsStep ==
  ASSUME SoundClaims, [Next]_vars
  PROVE  SoundClaims'
<1>1. TypeOK'
  BY TypeStep DEF SoundClaims
<1>2. ~retried' => ~retried
  BY RetriedStays DEF SoundClaims
<1>3. ~retried' => IInv'
  BY <1>2, StepKeeps DEF SoundClaims
<1> QED
  BY <1>1, <1>3 DEF SoundClaims

(* Whatever the sizes, the requests and the failures, until a cluster that *)
(* only memory maps, its extension having failed in the buffer, is written *)
(* to again: two clusters that the tables of the file refer to share no    *)
(* word, and none shares one with the header, the L1 table or the refcount *)
(* table: extend_img_file hands out no other place twice.                  *)
THEOREM NoOverlapAlways == Spec => []NoOverlap
<1>1. Init => SoundClaims
  BY InitClaims DEF SoundClaims, IInv
<1>2. SoundClaims /\ [Next]_vars => SoundClaims'
  BY SoundClaimsStep
<1>3. SoundClaims => NoOverlap
  BY ClaimsSuffice DEF SoundClaims, NoOverlap
<1> QED
  BY <1>1, <1>2, <1>3, PTL DEF Spec

=============================================================================
