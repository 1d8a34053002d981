---------------------------- MODULE QcowCompressed ----------------------------
(***************************************************************************)
(* Writing to compressed clusters, in src/qcow-parser/qcow_parser.h: the   *)
(* branch of qwrite for them, read_compressed_cluster,                     *)
(* write_compressed_cluster, alloc_cluster for a cluster that has an entry *)
(* and cow_alloc_cluster, write by write.                                  *)
(*                                                                         *)
(* The file is a sequence of units, C to a cluster and S to a sector, the  *)
(* first behind the header at the beginning of a cluster; clusters_file is *)
(* the image.  A guest cluster holds a value, deflate makes Size[v] units  *)
(* of a value v, and unit i of them is the pair <<v, i>>.  Inflate reads   *)
(* the value that begins at a position, or fails; the codecs are in        *)
(* Deflate and Huffman.                                                    *)
(* A request is about one guest cluster, and what it makes of the cluster  *)
(* is the new value.  Guest clusters without an entry are in QcowImage.    *)
(***************************************************************************)
EXTENDS Integers, Sequences

CONSTANTS
  C, S,        \* units of a cluster and of a sector
  Size,        \* the units of each value when it is deflated
  Kept, Far,   \* how many of an entry's additional sectors lie below bit 56, and
               \* how far one of them puts an offset that is read up to that bit
  Guests,      \* the guest clusters, each with an L2 entry
  Images,      \* what the file and the L2 tables may hold
  NULL,        \* no value
  MaxCalls,    \* bound on the calls of qwrite
  MaxFaults    \* bound on the calls of stdio or of the codec that fail

Values == DOMAIN Size

ASSUME SizesAssumption ==
  /\ C \in Nat \ {0} /\ S \in Nat \ {0} /\ C % S = 0
  /\ Size \in [Values -> Nat \ {0}]
  /\ NULL \notin Values
  /\ Kept \in Nat \ {0} /\ Far \in Nat

VARIABLES
  file,        \* clusters_file
  base,        \* clusters_file_base: its size when it was opened
  entry,       \* the L2 entry of each guest cluster, as qwrite and qread see it
  ref,         \* the refcount that get_ref_cnt finds for each guest cluster
  pc,          \* what qwrite does next
  req,         \* the cluster it writes, and the value that makes
  result,      \* what the last call returned
  death,       \* how the process ended
  spent,       \* how much of each bound is used
  want,        \* ghost: the value of each guest cluster, for its owner
  erred,       \* ghost: the guest clusters that a failed call was about
  reached      \* ghost: those with units where a call about another one may write

vars == <<file, base, entry, ref, pc, req, result, death, spent, want, erred, reached>>

-----------------------------------------------------------------------------
(* Regions of the file                                                     *)

Zero == <<NULL, 0>>
Plain == <<NULL, 1>>                       \* guest data that is not deflated
Deflated(v) == [i \in 1 .. Size[v] |-> <<v, i>>]
Unit == (Values \cup {NULL}) \X Nat

(* The file after units, at a position, within it or beyond its end.       *)
Overwritten(f, pos, units) ==
  [i \in 1 .. IF pos + Len(units) > Len(f) THEN pos + Len(units) ELSE Len(f) |->
    IF i \in pos + 1 .. pos + Len(units) THEN units[i - pos]
    ELSE IF i <= Len(f) THEN f[i] ELSE Zero]

Zeros(n) == [i \in 1 .. n |-> Zero]
Plains(n) == [i \in 1 .. n |-> Plain]

(* compressed_clusters_size: a whole cluster and the additional sectors.   *)
Region(e) == C + e.additional_sectors * S
Short(f, e) == e.pos + Region(e) > Len(f)

(* What begins at the position of an entry, of which the region is read:   *)
(* one value at most.                                                      *)
Begins(f, e) ==
  {v \in Values : Size[v] <= Region(e) /\ SubSeq(f, e.pos + 1, e.pos + Size[v]) = Deflated(v)}

(* qread of a cluster.                                                     *)
Inflated(g) ==
  LET found == IF Short(file, entry[g]) THEN {} ELSE Begins(file, entry[g])
  IN  IF found = {} THEN NULL ELSE CHOOSE v \in found : TRUE

(* The number is shifted by x + 1 into the entry and by x out of it.       *)
additional_sectors(v) == IF Size[v] > C THEN 2 * ((Size[v] - C) \div S) ELSE 0
NewEntry(e, v) == [e EXCEPT !.additional_sectors = additional_sectors(v)]

(* Bits 9 to 55 of an entry, as of a plain cluster: of a plain one they    *)
(* are the offset.                                                         *)
AsPlain(e) ==
  IF ~e.compressed THEN e
  ELSE [pos |-> (e.pos \div S) * S + (e.additional_sectors % Kept) * Far,
        additional_sectors |-> 0, compressed |-> FALSE]

(* The units of a cluster that inflates to a value, and those that a call  *)
(* about a cluster reads and may write: none that are in use for a copy.   *)
Span(pos, n) == pos .. pos + n - 1
Occupied(g) == Span(entry[g].pos, Size[want[g]])
Rewritten(e, v) == Span(e.pos, IF Size[v] > Region(e) THEN Size[v] ELSE Region(e))
Reach(g, v) ==
  IF ref[g] > 1 THEN {}
  ELSE IF ref[g] = 1 /\ entry[g].compressed THEN Rewritten(entry[g], v)
  ELSE Span(AsPlain(entry[g]).pos, C)

-----------------------------------------------------------------------------
(* qwrite                                                                  *)

PlaceEntry == [pos : Nat, additional_sectors : Nat, compressed : BOOLEAN]

ASSUME ImagesAssumption ==
  \A img \in Images :
    /\ img.file \in Seq(Unit)
    /\ img.entry \in [Guests -> PlaceEntry] /\ img.ref \in [Guests -> Nat]

Init ==
  /\ \E img \in Images :
       /\ file = img.file /\ entry = img.entry /\ ref = img.ref
       /\ base = Len(img.file)
  /\ want = [g \in Guests |-> IF entry[g].compressed THEN Inflated(g) ELSE NULL]
  /\ pc = "idle" /\ req = [g |-> NULL, v |-> NULL]
  /\ result = "none" /\ death = "none"
  /\ spent = [calls |-> 0, faults |-> 0]
  /\ erred = {} /\ reached = {}

Old == entry[req.g]
At(step) == death = "none" /\ pc = step
Fault == spent.faults < MaxFaults /\ spent' = [spent EXCEPT !.faults = @ + 1]
Steady == UNCHANGED <<base, ref, req, death, spent>>

ReturnOk ==
  /\ pc' = "idle" /\ result' = "ok"
  /\ want' = [want EXCEPT ![req.g] = req.v]
  /\ erred' = erred \ {req.g} /\ reached' = reached \ {req.g}
ReturnError ==
  /\ pc' = "idle" /\ result' = "error"
  /\ erred' = erred \cup {req.g} /\ UNCHANGED <<want, reached>>
GoOn(step) == pc' = step /\ UNCHANGED <<result, want, erred, reached>>
Die(how) ==
  /\ death' = how
  /\ UNCHANGED <<file, base, entry, ref, pc, req, result, want, erred, reached>>

StartWrite ==
  /\ At("idle") /\ spent.calls < MaxCalls
  /\ \E g \in Guests, v \in Values :
       /\ req' = [g |-> g, v |-> v]
       /\ reached' = reached \cup
            {h \in Guests \ {g} : want[h] # NULL /\ Occupied(h) \cap Reach(g, v) # {}}
  /\ spent' = [spent EXCEPT !.calls = @ + 1]
  /\ pc' = "lookup"
  /\ UNCHANGED <<file, base, entry, ref, result, death, want, erred>>

(* An entry that is used is one of a compressed cluster, or is aligned.    *)
Usable(e) == e.compressed \/ e.pos % C = 0

RefuseEntry ==
  /\ At("lookup") /\ ~Usable(Old)
  /\ ReturnError
  /\ UNCHANGED <<file, entry>> /\ Steady

(* Nothing counted at the address of the guest cluster: alloc_cluster      *)
(* links the place that the entry names, as a plain one, in memory and     *)
(* then on the file.                                                       *)
MakePlain ==
  /\ At("lookup") /\ ref[req.g] = 0 /\ Usable(Old)
  /\ entry' = [entry EXCEPT ![req.g] = AsPlain(@)]
  /\ \/ GoOn("plain") /\ UNCHANGED spent
     \/ Fault /\ ReturnError
  /\ UNCHANGED <<file, base, ref, req, death>>

FindPlain ==
  /\ At("lookup") /\ ref[req.g] = 1 /\ ~Old.compressed /\ Usable(Old)
  /\ GoOn("plain")
  /\ UNCHANGED <<file, entry>> /\ Steady

(* read_compressed_cluster: a region that ends beyond the file is read     *)
(* short, or cannot be read, and inflate gets the pointer that was freed   *)
(* and set to NULL.                                                        *)
ReadShort ==
  /\ At("lookup") /\ ref[req.g] = 1 /\ Old.compressed
  /\ \/ Short(file, Old) /\ UNCHANGED spent
     \/ Fault
  /\ Die("null_stream")

ReadOld ==
  /\ At("lookup") /\ ref[req.g] = 1 /\ Old.compressed /\ ~Short(file, Old)
  /\ IF Begins(file, Old) = {} THEN ReturnError ELSE GoOn("zero")
  /\ UNCHANGED <<file, entry>> /\ Steady

(* write_compressed_cluster: deflate, which may fail, and cannot be done   *)
(* for zstd; zeros over the region that was read; the new units.           *)
DeflateFails ==
  /\ At("zero") /\ Fault
  /\ ReturnError
  /\ UNCHANGED <<file, base, entry, ref, req, death>>

ZeroOld ==
  /\ At("zero")
  /\ file' = Overwritten(file, Old.pos, Zeros(Region(Old)))
  /\ GoOn("write")
  /\ UNCHANGED entry /\ Steady

ZeroOldFails ==
  /\ At("zero") /\ Fault
  /\ \E n \in 0 .. Region(Old) - 1 : file' = Overwritten(file, Old.pos, Zeros(n))
  /\ ReturnError
  /\ UNCHANGED <<base, entry, ref, req, death>>

WriteNew ==
  /\ At("write")
  /\ file' = Overwritten(file, Old.pos, Deflated(req.v))
  /\ GoOn("entry")
  /\ UNCHANGED entry /\ Steady

(* Variant: the result of write_at is not looked at.                       *)
WriteNewFailsUnseen ==
  /\ At("write") /\ Fault
  /\ \E n \in 0 .. Size[req.v] - 1 :
       file' = Overwritten(file, Old.pos, SubSeq(Deflated(req.v), 1, n))
  /\ GoOn("entry")
  /\ UNCHANGED <<base, entry, ref, req, death>>
WriteNewFails ==
  /\ At("write") /\ Fault
  /\ \E n \in 0 .. Size[req.v] - 1 :
       file' = Overwritten(file, Old.pos, SubSeq(Deflated(req.v), 1, n))
  /\ entry' = entry \/ entry' = [entry EXCEPT ![req.g] = NewEntry(@, req.v)]
  /\ ReturnError
  /\ UNCHANGED <<base, ref, req, death>>

(* set_lba_at_img_offset changes the table in memory, then the file; the   *)
(* refcount that update_ref_cnt then sets is 1 already.                    *)
SetEntry ==
  /\ At("entry")
  /\ entry' = [entry EXCEPT ![req.g] = NewEntry(@, req.v)]
  /\ \/ ReturnOk /\ UNCHANGED spent
     \/ Fault /\ ReturnError
  /\ UNCHANGED <<file, base, ref, req, death>>

(* cow_alloc_cluster: the units of the region, deflated as they are, go to *)
(* new clusters that the entry takes for plain ones, from the sector on    *)
(* that they begin in.  It returns when the entry is set, and a failure to *)
(* set it, or to write the last of the copy, is a success, too.  A plain   *)
(* cluster divides by zero.                                                *)
CopyUnits == C * (1 + (Old.additional_sectors * S + C - 1) \div C)
Aligned(f) == base + ((Len(f) - base + C - 1) \div C) * C
NewPos == Aligned(file) + CopyUnits

CopyPlain ==
  /\ At("lookup") /\ ref[req.g] > 1 /\ ~Old.compressed /\ Usable(Old)
  /\ Die("division") /\ UNCHANGED spent

Extended == Overwritten(file, NewPos, <<>>)
Copied == Overwritten(Extended, NewPos, SubSeq(Extended, Old.pos + 1, Old.pos + CopyUnits))
PartCopied == \E n \in NewPos .. Len(Copied) : file' = SubSeq(Copied, 1, n)
Copying == At("lookup") /\ ref[req.g] > 1 /\ Old.compressed
CopyRead == Old.pos + CopyUnits <= NewPos
CopyEntry == [pos |-> (NewPos \div S) * S, additional_sectors |-> 0, compressed |-> FALSE]
LinkCopy == entry' = [entry EXCEPT ![req.g] = CopyEntry]

CopyShared ==
  /\ Copying /\ CopyRead
  /\ \/ file' = Copied /\ UNCHANGED spent
     \/ Fault /\ PartCopied
  /\ LinkCopy
  /\ GoOn("plain")
  /\ UNCHANGED <<base, ref, req, death>>

CopySharedFails ==
  /\ Copying
  /\ \/ ~CopyRead /\ file' = Extended /\ UNCHANGED <<entry, spent>>
     \/ Fault /\ UNCHANGED entry /\ \E n \in Len(file) .. NewPos : file' = SubSeq(Extended, 1, n)
     \/ CopyRead /\ Fault /\ (LinkCopy \/ UNCHANGED entry) /\ PartCopied
  /\ ReturnError
  /\ UNCHANGED <<base, ref, req, death>>

(* The data of a plain cluster is written where the entry says; whether it *)
(* could be, and whether the refcount could be set, is not looked at.  A   *)
(* refcount block that there is not yet is put behind a gap at the end.    *)
NewBlock(f) == Overwritten(f, Aligned(f) + C, <<Plain>>)

WritePlain ==
  /\ At("plain")
  /\ \E a, n \in 0 .. C :
       /\ a + n <= C
       /\ LET written == Overwritten(file, Old.pos + a, Plains(n))
          IN  file' = written \/ (ref[req.g] = 0 /\ file' = NewBlock(written))
       /\ \/ n > 0 /\ ref' = [ref EXCEPT ![req.g] = 1] /\ UNCHANGED spent
          \/ Fault /\ (ref' = [ref EXCEPT ![req.g] = 1] \/ UNCHANGED ref)
  /\ ReturnOk
  /\ UNCHANGED <<base, entry, req, death>>

Step ==
  \/ RefuseEntry \/ MakePlain \/ FindPlain \/ ReadShort \/ ReadOld \/ DeflateFails
  \/ ZeroOld \/ ZeroOldFails \/ WriteNew \/ WriteNewFails \/ SetEntry
  \/ CopyPlain \/ CopyShared \/ CopySharedFails \/ WritePlain
Next == StartWrite \/ Step
Spec == Init /\ [][Next]_vars

-----------------------------------------------------------------------------
(* Properties                                                              *)

(* Entries stay entries, and the call one of the steps.                    *)
TypeOK ==
  /\ \A g \in Guests : entry[g].pos \in Nat /\ entry[g].additional_sectors \in Nat
  /\ \A i \in DOMAIN file : file[i][1] \in Values \cup {NULL} /\ file[i][2] \in Nat
  /\ pc \in {"idle", "lookup", "zero", "write", "entry", "plain"}
  /\ result \in {"none", "ok", "error"} /\ death \in {"none", "null_stream", "division"}
  /\ ref \in [Guests -> Nat] /\ want \in [Guests -> Values \cup {NULL}]
  /\ erred \subseteq Guests /\ reached \subseteq Guests

(* A compressed cluster is read whole.                                     *)
Readable(g) == entry[g].compressed /\ ~(pc # "idle" /\ req.g = g) /\ ~Short(file, entry[g])

(* A compressed cluster reads as what was written to it last, or what it   *)
(* held at first, unless a failed call was about it, a call about another  *)
(* cluster reaches its units, or its entry names too small a region for    *)
(* the value: whatever is rewritten in place, copied or made plain, at     *)
(* whatever place, and wherever a call fails.  So data is lost by a call   *)
(* that returns an error, or by one that reaches it.                       *)
ClustersKept ==
  /\ TypeOK
  /\ \A g \in Guests :
       Readable(g) /\ want[g] # NULL /\ g \notin erred \cup reached
         /\ Size[want[g]] <= Region(entry[g]) => Inflated(g) = want[g]

(* Without these: only a call that failed takes what a cluster held.       *)
OnlyErrorsLose ==
  \A g \in Guests : Readable(g) /\ want[g] # NULL /\ g \notin erred => Inflated(g) = want[g]

-----------------------------------------------------------------------------
(* What a comment or a message of the repository says, and the code does   *)
(* not do.                                                                 *)

(* A compressed cluster that cannot be read whole is an error that qwrite  *)
(* returns.                                                                *)
ShortReadReturned == death # "null_stream"

(* What cow_alloc_cluster copies to a plain cluster is the guest's data.   *)
CopiedIsPlain ==
  \A g \in Guests : ~entry[g].compressed =>
    \A i \in 1 .. C : file[entry[g].pos + i] \in {Plain, Zero}

=============================================================================
