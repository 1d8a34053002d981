------------------------------- MODULE DataProofs -------------------------------
(***************************************************************************)
(* Two layers of theorems about QcowImage on top of QcowImageProofs.       *)
(*                                                                         *)
(* The first: the tables of the context are those of its file, and what    *)
(* the file links stays linked.  Between two calls this is not inductive:  *)
(* a call carries an entry and a position from one write to the next, and  *)
(* what the file held when it looked them up must still be there when it   *)
(* puts them down.                                                         *)
(*                                                                         *)
(* The second: what an image holds for its guest, the words that the       *)
(* tables of the file lead to, and those that qread returns.  qwrite       *)
(* writes a cluster first and counts it last, so between two of its writes *)
(* the file holds part of a call.  The invariant says which part.          *)
(***************************************************************************)
EXTENDS QcowImageProofs

-----------------------------------------------------------------------------
(* The tables and the links.                                               *)


(* While no call of the handle reported the failure of a write, and no     *)
(* entry was lost in the write of the data.                                *)
Reported == faults = 0 \/ (~erred /\ "entry" \notin unseen)

InSession == pc # "idle" => handle = "open"

TablesCoherent == handle = "open" /\ Reported => TablesAgree

NewTable == pc = "link_l2" => Mask(pos) = pos /\ pos # 0 /\ l1[L1Of(Off)] = NoTable

(* What the file holds where the call puts its entry: nothing yet, or an   *)
(* entry that refers to the same cluster.                                  *)
Here == L2Entry(L1Of(Off), L2Of(Off))

EntryFits ==
  Reported =>
    /\ pc = "extend_data" => Here.n = 0
    /\ pc \in {"set_entry", "link_l2"} => Mask(Here.n) \in {0, Mask(entry.n)}
    /\ pc \in {"write_data", "update_ref", "link_ref"} =>
         l1[L1Of(Off)] # NoTable /\ Here = entry

MapInv == InSession /\ TablesCoherent /\ NewTable /\ EntryFits

-----------------------------------------------------------------------------
(* The L2 tables from one state to the next.                               *)

MapKept ==
  /\ \A i \in L1Index : L2Table(i)' = L2Table(i)
  /\ \A i \in L1Index, k \in Slots : L2Entry(i, k)' = L2Entry(i, k)

LEMMA MapOfEntries ==
  ASSUME EntriesKept
  PROVE  MapKept
  BY DEF EntriesKept, MapKept

LEMMA AgreeKept ==
  ASSUME MapKept, l1' = l1, TablesAgree
  PROVE  TablesAgree'
  BY DEF MapKept, TablesAgree

LEMMA HereKept ==
  ASSUME IInv, MapKept, req' = req, done' = done, pc \in AfterLookup
  PROVE  Here' = Here
<1>1. L1Of(Off) \in L1Index /\ L2Of(Off) \in Slots
  BY OffType DEF IInv, TypeOK, IndexChecked
<1>2. L1Of(Off)' = L1Of(Off) /\ L2Of(Off)' = L2Of(Off)
  BY OffKept
<1>3. L2Entry(L1Of(Off), L2Of(Off))' = L2Entry(L1Of(Off), L2Of(Off))
  BY <1>1, <1>2 DEF MapKept
<1> QED
  BY <1>2, <1>3 DEF Here

(* A step that ends a call, or its iteration.                              *)
LEMMA CallEndsMap ==
  ASSUME MapInv, MapKept, l1' = l1, Reported' => Reported, pc' \in {"idle", "lookup"},
         handle' = handle, pc' = "lookup" => handle = "open"
  PROVE  MapInv'
<1>1. TablesCoherent'
  BY AgreeKept DEF MapInv, TablesCoherent
<1> QED
  BY <1>1 DEF MapInv, InSession, NewTable, EntryFits

LEMMA ReleaseMap ==
  ASSUME Release, pc' = "idle"
  PROVE  MapInv'
  BY DEF Release, MapInv, InSession, TablesCoherent, NewTable, EntryFits

(* In a call, the entry in memory is the entry of the file.                *)
LEMMA MappedHere ==
  ASSUME IInv, MapInv, Reported, pc # "idle", L1Of(Off) \in L1Index
  PROVE  /\ l1[L1Of(Off)] = NoTable => Here = Zero
         /\ l1[L1Of(Off)] # NoTable => Mapped(Off) = Here /\ L2Table(L1Of(Off)) # 0
<1>1. TablesAgree
  BY DEF MapInv, InSession, TablesCoherent
<1>2. L2Of(Off) \in Slots
  BY OffType DEF IInv, TypeOK
<1> QED
  BY <1>1, <1>2 DEF TablesAgree, Here, Mapped, L2Entry

-----------------------------------------------------------------------------
(* The steps of the mapping.                                               *)

LEMMA LoadedAgree ==
  ASSUME FileOK, UNCHANGED file, l1' = LoadedL1
  PROVE  TablesAgree'
<1>1. MapKept
  BY FileKept, MapOfEntries
<1>2. ASSUME NEW i \in L1Index
      PROVE  (l1'[i] = NoTable) = (L2Table(i) = 0)
             /\ (l1'[i] # NoTable => \A k \in Slots : l1'[i][k] = L2Entry(i, k))
  <2>1. CASE L2Table(i) = 0
    BY <2>1 DEF LoadedL1
  <2>2. CASE L2Table(i) # 0
    <3>1. l1'[i] = [k \in Slots |-> At(L2Table(i) + k)]
      BY <2>2 DEF LoadedL1
    <3>2. l1'[i] \in Table
      BY <3>1, AtType DEF Table
    <3>3. l1'[i] # NoTable
      BY <3>2, EnvironmentAssumption
    <3> QED
      BY <2>2, <3>1, <3>3 DEF L2Entry
  <2> QED
    BY <2>1, <2>2
<1> QED
  BY <1>1, <1>2 DEF TablesAgree, MapKept

LEMMA SessionMap ==
  ASSUME IInv, MapInv, Open \/ OpenFails \/ Close \/ StartWrite \/ UNCHANGED vars
  PROVE  MapInv'
<1>1. UNCHANGED file
  BY DEF Open, OpenFails, Close, StartWrite, vars, file
<1>2. MapKept /\ FileOK
  BY <1>1, FileKept, MapOfEntries DEF IInv, TypeOK
<1>3. CASE Open
  <2>1. TablesAgree'
    BY <1>1, <1>2, <1>3, LoadedAgree DEF Open
  <2>2. pc' = "idle"
    BY <1>3 DEF Open, MapInv, InSession
  <2> QED
    BY <2>1, <2>2 DEF MapInv, InSession, TablesCoherent, NewTable, EntryFits
<1>4. CASE Close
  BY <1>4, ReleaseMap DEF Close
<1>5. CASE StartWrite
  BY <1>2, <1>5, CallEndsMap DEF StartWrite, context, marks, Reported
<1>6. CASE OpenFails \/ UNCHANGED vars
  <2>1. /\ handle' = handle /\ l1' = l1 /\ pc' = pc /\ UNCHANGED frame
        /\ faults' = faults /\ erred' = erred /\ unseen' = unseen
    BY <1>6 DEF OpenFails, vars, context, frame, ghosts
  <2>2. Reported' = Reported
    BY <2>1 DEF Reported
  <2>3. TablesCoherent' /\ InSession'
    BY <1>2, <2>1, <2>2, AgreeKept DEF MapInv, TablesCoherent, InSession
  <2>4. L1Of(Off)' = L1Of(Off) /\ entry' = entry /\ pos' = pos
    BY <2>1, OffKept DEF frame
  <2>5. NewTable'
    BY <2>1, <2>4 DEF MapInv, NewTable, Mask
  <2>6. pc \in AfterLookup => Here' = Here
    BY <1>2, <2>1, HereKept DEF frame
  <2>7. EntryFits'
    BY <2>1, <2>2, <2>4, <2>6 DEF MapInv, EntryFits, Mask, AfterLookup
  <2> QED
    BY <2>3, <2>5, <2>7 DEF MapInv
<1> QED
  BY <1>3, <1>4, <1>5, <1>6

LEMMA LookupMap ==
  ASSUME IInv, MapInv, Lookup
  PROVE  MapInv'
<1>1. /\ UNCHANGED file /\ pc = "lookup" /\ handle = "open" /\ faults' = faults
  BY DEF Lookup, LookupFails, LookupUnallocated, LookupUnreferenced, LookupInPlace,
         LookupShared, MapInv, InSession, counters
<1>2. MapKept
  BY <1>1, FileKept, MapOfEntries DEF IInv, TypeOK
<1>3. CASE LookupShared
  BY <1>3, ReleaseMap DEF LookupShared, EmptyFrame
<1>4. ASSUME pc' = "idle", ~LookupShared
      PROVE  MapInv'
  <2>1. /\ handle' = handle /\ l1' = l1 /\ (erred' = erred \/ erred' = TRUE)
        /\ unseen' = unseen
    BY <1>4 DEF Lookup, LookupFails, LookupUnallocated, LookupUnreferenced, LookupInPlace,
                ReturnError, Continue, UseMapped, context, marks
  <2>2. Reported' => Reported
    BY <1>1, <2>1 DEF Reported
  <2> QED
    BY <1>2, <1>4, <2>1, <2>2, CallEndsMap
<1>5. ASSUME pc' # "idle", ~LookupShared
      PROVE  MapInv'
  <2>1. /\ handle' = handle /\ l1' = l1 /\ erred' = erred /\ unseen' = unseen
        /\ req' = req /\ done' = done
        /\ pc' \in {"extend_data", "set_entry", "write_data"}
        /\ Lba(Off) \in {"no_error", "unallocated_cluster", "unallocated_l1_table"}
    BY <1>5 DEF Lookup, LookupFails, LookupUnallocated, LookupUnreferenced, LookupInPlace,
                ReturnError, EmptyFrame, Continue, UseMapped, context, marks
  <2>2. Reported' = Reported
    BY <1>1, <2>1 DEF Reported
  <2>3. InSession' /\ TablesCoherent' /\ NewTable'
    BY <1>1, <1>2, <2>1, <2>2, AgreeKept DEF MapInv, InSession, TablesCoherent, NewTable
  <2>4. L1Of(Off) \in L1Index /\ L2Of(Off) \in Slots
    BY <2>1, OffType DEF Lba, IInv, TypeOK
  <2>5. L1Of(Off)' = L1Of(Off) /\ L2Of(Off)' = L2Of(Off)
    BY <2>1, OffKept
  <2>6. Here' = Here
    <3>1. L2Entry(L1Of(Off), L2Of(Off))' = L2Entry(L1Of(Off), L2Of(Off))
      BY <1>2, <2>4, <2>5 DEF MapKept
    <3> QED
      BY <2>5, <3>1 DEF Here
  <2>7. ASSUME Reported
        PROVE  /\ l1[L1Of(Off)] = NoTable => Here = Zero
               /\ l1[L1Of(Off)] # NoTable => Mapped(Off) = Here
    BY <1>1, <2>4, <2>7, MappedHere
  <2>8. CASE LookupUnallocated
    <3>1. Reported => Here.n = 0
      BY <2>7, <2>8 DEF LookupUnallocated, Lba, Zero
    <3> QED
      BY <2>2, <2>3, <2>6, <2>8, <3>1 DEF LookupUnallocated, Continue, MapInv, EntryFits
  <2>9. CASE LookupUnreferenced
    <3>1. l1[L1Of(Off)] # NoTable /\ Mapped(Off) \in Word
      BY <2>9, MappedType DEF LookupUnreferenced, Lba, IInv, TypeOK
    <3>2. entry'.n = Mask(Mapped(Off).n) /\ pc' = "set_entry"
      BY <2>9 DEF LookupUnreferenced, Continue
    <3>3. Mask(entry.n)' = Mask(entry'.n) /\ Mask(Here.n)' = Mask(Here'.n)
      BY DEF Mask
    <3>4. Mask(entry.n)' = Mask(Mapped(Off).n)
      BY <3>1, <3>2, <3>3, MaskOfMask DEF Word
    <3>5. EntryFits'
      BY <2>2, <2>6, <2>7, <3>1, <3>2, <3>3, <3>4 DEF EntryFits
    <3> QED
      BY <2>3, <3>5 DEF MapInv
  <2>10. CASE LookupInPlace
    <3>1. l1[L1Of(Off)] # NoTable
      BY <2>10 DEF LookupInPlace, Lba
    <3>2. entry' = Mapped(Off) /\ pc' = "write_data"
      BY <1>5, <2>10 DEF LookupInPlace, ReturnError, EmptyFrame, Continue
    <3>3. EntryFits'
      BY <2>1, <2>2, <2>5, <2>6, <2>7, <3>1, <3>2 DEF EntryFits
    <3> QED
      BY <2>3, <3>3 DEF MapInv
  <2> QED
    BY <1>5, <2>8, <2>9, <2>10 DEF Lookup, LookupFails, ReturnError, EmptyFrame
<1> QED
  BY <1>3, <1>4, <1>5

(* A step of a call that leaves the L2 tables where the call left them.    *)
LEMMA CallGoesOn ==
  ASSUME IInv, MapInv, MapKept, l1' = l1, handle' = handle, pc # "idle",
         faults' = faults \/ faults' = faults + 1,
         erred' = erred, unseen \subseteq unseen', req' = req, done' = done
  PROVE  /\ Reported' => Reported
         /\ InSession' /\ TablesCoherent'
         /\ L1Of(Off)' = L1Of(Off) /\ L2Of(Off)' = L2Of(Off)
         /\ pc \in AfterLookup => Here' = Here
<1>1. Reported' => Reported
  BY DEF Reported, IInv, TypeOK, CallsOK
<1>2. InSession' /\ TablesCoherent'
  BY <1>1, AgreeKept DEF MapInv, InSession, TablesCoherent
<1> QED
  BY <1>1, <1>2, OffKept, HereKept

LEMMA ExtendMap ==
  ASSUME IInv, MapInv, ExtendData \/ ExtendL2 \/ ExtendRef
  PROVE  MapInv'
<1>1. /\ ZeroTo(ExtendedEof) /\ req' = req /\ done' = done /\ l1' = l1 /\ handle' = handle
      /\ faults' = faults /\ erred' = erred /\ unseen' = unseen
      /\ pc # "idle" /\ pc \in AfterLookup
  BY DEF ExtendData, ExtendL2, ExtendRef, Continue, context, counters, marks, AfterLookup
<1>2. ExtendedEof \in Nat /\ ExtendedEof >= eof
  BY ExtendedEofRange, SizesAssumption DEF IInv, TypeOK, FileOK, ContextOK
<1>3. MapKept
  BY <1>1, <1>2, ExtensionKept, MapOfEntries
<1>4. /\ Reported' => Reported
      /\ InSession' /\ TablesCoherent'
      /\ L1Of(Off)' = L1Of(Off) /\ Here' = Here
  BY <1>1, <1>3, CallGoesOn
<1>5. Mask(Here.n)' = Mask(Here.n)
  BY <1>4 DEF Mask
<1>6. CASE ExtendData
  <2>1. Reported => Mask(Here.n) = 0
    BY <1>6, MaskOfZero DEF ExtendData, MapInv, EntryFits
  <2>2. EntryFits' /\ NewTable'
    BY <1>4, <1>5, <1>6, <2>1 DEF ExtendData, Continue, EntryFits, NewTable
  <2> QED
    BY <1>4, <2>2 DEF MapInv
<1>7. CASE ExtendL2
  <2>1. PICK p \in Nat : p = Mask(ExtendedEof)
    BY FreshPlace DEF IInv
  <2>2. p # 0 /\ Mask(p) = p
    BY <1>2, <2>1, MaskOfMask, FreshPlace, SizesAssumption DEF IInv
  <2>3. pos' = p /\ entry' = entry /\ pc' = "link_l2" /\ pc = "set_entry"
        /\ l1[L1Of(Off)] = NoTable
    BY <1>7, <2>1 DEF ExtendL2, Continue
  <2>4. NewTable'
    BY <1>1, <1>4, <2>2, <2>3 DEF NewTable, Mask
  <2>5. Mask(entry.n)' = Mask(entry.n)
    BY <2>3 DEF Mask
  <2>6. EntryFits'
    BY <1>4, <1>5, <2>3, <2>5 DEF MapInv, EntryFits
  <2> QED
    BY <1>4, <2>4, <2>6 DEF MapInv
<1>8. CASE ExtendRef
  <2>1. EntryFits' /\ NewTable'
    BY <1>1, <1>4, <1>8 DEF ExtendRef, Continue, MapInv, EntryFits, NewTable
  <2> QED
    BY <1>4, <2>1 DEF MapInv
<1> QED
  BY <1>6, <1>7, <1>8

(* The entry goes to the memory and to the file.                           *)
LEMMA SetEntryMap ==
  ASSUME IInv, MapInv, SetEntry
  PROVE  MapInv'
<1>1. /\ pc = "set_entry" /\ l1[L1Of(Off)] # NoTable /\ PutMapping
      /\ PutWord(L2Table(L1Of(Off)) + L2Of(Off), entry)
      /\ pc' = "write_data" /\ req' = req /\ done' = done /\ entry' = entry
      /\ handle' = handle /\ faults' = faults /\ erred' = erred /\ unseen' = unseen
  BY DEF SetEntry, Continue, counters, marks
<1>2. PICK i0 \in L1Index, k0 \in Slots : i0 = L1Of(Off) /\ k0 = L2Of(Off)
  BY <1>1, OffType DEF IInv, TypeOK, IndexChecked, AfterLookup
<1>3. L1Of(Off)' = i0 /\ L2Of(Off)' = k0
  BY <1>1, <1>2, OffKept
<1>4. l1 \in [L1Index -> Table \cup {NoTable}] /\ entry \in Word
  BY DEF IInv, TypeOK, ContextOK, FrameOK
<1>5. l1[i0] \in Table
  BY <1>1, <1>2, <1>4
<1>6. l1' = [l1 EXCEPT ![i0] = [l1[i0] EXCEPT ![k0] = entry]]
  BY <1>1, <1>2 DEF PutMapping
<1>7. l1'[i0] \in Table /\ \A k \in Slots : l1'[i0][k] = IF k = k0 THEN entry ELSE l1[i0][k]
  BY <1>2, <1>4, <1>5, <1>6 DEF Table
<1>8. ASSUME Reported'
      PROVE  TablesAgree' /\ Here' = entry
  <2>1. TablesAgree
    BY <1>1, <1>8 DEF MapInv, InSession, TablesCoherent, Reported
  <2>2. L2Table(i0) # 0
    BY <1>1, <1>2, <2>1 DEF TablesAgree
  <2>3. /\ \A i \in L1Index : L2Table(i)' = L2Table(i)
        /\ \A i \in L1Index, k \in Slots :
             L2Entry(i, k)' = IF i = i0 /\ k = k0 THEN entry ELSE L2Entry(i, k)
    BY <1>1, <1>2, <2>2, MappedEntries
  <2>4. ASSUME NEW i \in L1Index
        PROVE  (l1'[i] = NoTable) = (L2Table(i) = 0)
               /\ (l1'[i] # NoTable => \A k \in Slots : l1'[i][k] = L2Entry(i, k)')
    <3>1. CASE i = i0
      <4>1. l1'[i] # NoTable
        BY <1>7, <3>1, EnvironmentAssumption
      <4>2. \A k \in Slots : l1[i0][k] = L2Entry(i0, k)
        BY <1>1, <1>2, <2>1 DEF TablesAgree
      <4> QED
        BY <1>7, <2>2, <2>3, <3>1, <4>1, <4>2
    <3>2. CASE i # i0
      <4>1. l1'[i] = l1[i]
        BY <1>4, <1>6, <3>2
      <4> QED
        BY <2>1, <2>3, <3>2, <4>1 DEF TablesAgree
    <3> QED
      BY <3>1, <3>2
  <2>5. TablesAgree'
    BY <2>3, <2>4 DEF TablesAgree
  <2>6. Here' = entry
    <3>1. L2Entry(i0, k0)' = entry
      BY <1>2, <2>3
    <3> QED
      BY <1>3, <3>1 DEF Here
  <2> QED
    BY <2>5, <2>6
<1>9. l1'[i0] # NoTable
  BY <1>7, EnvironmentAssumption
<1> QED
  BY <1>1, <1>3, <1>8, <1>9
     DEF MapInv, InSession, TablesCoherent, NewTable, EntryFits

(* The table of the call becomes that of the L1 entry, empty in both.      *)
LEMMA LinkL2Map ==
  ASSUME IInv, MapInv, LinkL2
  PROVE  MapInv'
<1>1. /\ pc = "link_l2" /\ pc' = "set_entry"
      /\ PutWord(L1Off + L1Of(Off), [n |-> pos, copied |-> FALSE])
      /\ l1' = [l1 EXCEPT ![L1Of(Off)] = [k \in Slots |-> Zero]]
      /\ req' = req /\ done' = done /\ entry' = entry
      /\ handle' = handle /\ faults' = faults /\ erred' = erred /\ unseen' = unseen
  BY DEF LinkL2, Continue, counters, marks
<1>2. PICK i0 \in L1Index, k0 \in Slots : i0 = L1Of(Off) /\ k0 = L2Of(Off)
  BY <1>1, OffType DEF IInv, TypeOK, IndexChecked, AfterLookup
<1>3. L1Of(Off)' = i0 /\ L2Of(Off)' = k0
  BY <1>1, <1>2, OffKept
<1>4. l1 \in [L1Index -> Table \cup {NoTable}] /\ [k \in Slots |-> Zero] \in Table
  BY ZeroIsWord DEF IInv, TypeOK, ContextOK, Table
<1>5. Mask(pos) # 0
  BY <1>1 DEF MapInv, NewTable
<1>6. /\ \A i \in L1Index : L2Table(i)' = IF i = i0 THEN Mask(pos) ELSE L2Table(i)
      /\ \A i \in L1Index, k \in Slots : L2Entry(i, k)' = IF i = i0 THEN Zero ELSE L2Entry(i, k)
  BY <1>1, <1>2, LinkedL2Entries
<1>7. ASSUME Reported'
      PROVE  TablesAgree'
  <2>1. TablesAgree
    BY <1>1, <1>7 DEF MapInv, InSession, TablesCoherent, Reported
  <2>2. ASSUME NEW i \in L1Index
        PROVE  (l1'[i] = NoTable) = (L2Table(i)' = 0)
               /\ (l1'[i] # NoTable => \A k \in Slots : l1'[i][k] = L2Entry(i, k)')
    <3>1. CASE i = i0
      <4>1. l1'[i] = [k \in Slots |-> Zero] /\ l1'[i] # NoTable
        BY <1>1, <1>2, <1>4, <3>1, EnvironmentAssumption
      <4> QED
        BY <1>5, <1>6, <3>1, <4>1
    <3>2. CASE i # i0
      <4>1. l1'[i] = l1[i]
        BY <1>1, <1>2, <1>4, <3>2
      <4> QED
        BY <1>6, <2>1, <3>2, <4>1 DEF TablesAgree
    <3> QED
      BY <3>1, <3>2
  <2> QED
    BY <2>2 DEF TablesAgree
<1>8. Mask(Here.n)' = 0
  <2>1. L2Entry(i0, k0)' = Zero
    BY <1>2, <1>6
  <2>2. Here' = Zero
    BY <1>3, <2>1 DEF Here
  <2> QED
    BY <2>2, MaskOfZero DEF Mask
<1> QED
  BY <1>1, <1>7, <1>8 DEF MapInv, InSession, TablesCoherent, NewTable, EntryFits

LEMMA LinkRefMap ==
  ASSUME IInv, MapInv, LinkRef
  PROVE  MapInv'
<1>1. /\ pc = "link_ref" /\ pc' = "update_ref"
      /\ PutWord(RefTableOff + L1Of(Off), [n |-> pos, copied |-> FALSE])
      /\ l1' = l1 /\ req' = req /\ done' = done /\ entry' = entry
      /\ handle' = handle /\ faults' = faults /\ erred' = erred /\ unseen' = unseen
  BY DEF LinkRef, Continue, counters, marks
<1>2. MapKept
  BY <1>1, LinkedRefEntries DEF MapKept
<1>3. /\ Reported' => Reported
      /\ InSession' /\ TablesCoherent'
      /\ L1Of(Off)' = L1Of(Off) /\ Here' = Here
  BY <1>1, <1>2, CallGoesOn DEF AfterLookup
<1>4. EntryFits' /\ NewTable'
  BY <1>1, <1>3 DEF MapInv, EntryFits, NewTable
<1> QED
  BY <1>3, <1>4 DEF MapInv

LEMMA WriteDataMap ==
  ASSUME IInv, MapInv, WriteData \/ WriteDataFails
  PROVE  MapInv'
<1>1. PICK m \in 0 .. Chunk : PutData(m)
  BY OffType DEF WriteData, WriteDataFails, PartOfData, IInv, TypeOK
<1>2. /\ pc = "write_data" /\ pc' = "update_ref"
      /\ l1' = l1 /\ req' = req /\ done' = done /\ entry' = entry
      /\ handle' = handle /\ erred' = erred /\ unseen \subseteq unseen'
      /\ faults' = faults \/ faults' = faults + 1
  BY DEF WriteData, WriteDataFails, Continue, context, counters, marks, CanFail
<1>3. MapKept
  BY <1>1, <1>2, DataWritten, MapOfEntries
<1>4. /\ Reported' => Reported
      /\ InSession' /\ TablesCoherent'
      /\ L1Of(Off)' = L1Of(Off) /\ Here' = Here
  BY <1>2, <1>3, CallGoesOn DEF AfterLookup
<1>5. EntryFits' /\ NewTable'
  BY <1>2, <1>4 DEF MapInv, EntryFits, NewTable
<1> QED
  BY <1>4, <1>5 DEF MapInv

LEMMA UpdateRefMap ==
  ASSUME IInv, MapInv, UpdateRef
  PROVE  MapInv'
<1>1. /\ l1' = l1 /\ pc = "update_ref" /\ pc' \in {"idle", "lookup"} /\ handle' = handle
      /\ faults' = faults /\ erred' = erred /\ unseen' = unseen
  BY DEF UpdateRef, NextCluster, ReturnOk, EmptyFrame, counters
<1>2. EntriesKept
  <2>1. CASE UNCHANGED file
    BY <2>1, FileKept DEF IInv, TypeOK
  <2>2. CASE ~UNCHANGED file
    BY <1>1, <2>2, RefCountWritten DEF UpdateRef
  <2> QED
    BY <2>1, <2>2
<1> QED
  BY <1>1, <1>2, MapOfEntries, CallEndsMap DEF Reported, MapInv, InSession

-----------------------------------------------------------------------------
(* The failures of the mapping.                                            *)

(* A failure that the call reports.                                        *)
LEMMA ReportedFailure ==
  ASSUME IInv, MapInv, ExtendFails \/ ExtendFailsMapped \/ ReadLinkFails \/ LinkL2Fails
  PROVE  MapInv'
<1>1. pc' = "idle" /\ erred' = TRUE /\ faults' = faults + 1
  BY DEF ExtendFails, ExtendFailsMapped, ReadLinkFails, LinkL2Fails, ReturnError, EmptyFrame,
         CanFail
<1>2. ~Reported'
  BY <1>1 DEF Reported, IInv, TypeOK, CallsOK
<1> QED
  BY <1>1, <1>2 DEF MapInv, InSession, TablesCoherent, NewTable, EntryFits

(* An entry that is lost without a report.                                 *)
LEMMA LostEntry ==
  ASSUME IInv, MapInv, SetEntryFails
  PROVE  MapInv'
<1>1. /\ pc = "set_entry" /\ pc' = "update_ref" /\ handle' = handle
      /\ unseen' = unseen \cup {"entry", "data"} /\ faults' = faults + 1
  BY DEF SetEntryFails, Continue, CanFail
<1>2. ~Reported'
  BY <1>1 DEF Reported, IInv, TypeOK, CallsOK
<1> QED
  BY <1>1, <1>2 DEF MapInv, InSession, TablesCoherent, NewTable, EntryFits

(* A failure of update_ref_cnt, which qwrite does not look at.             *)
LEMMA UnseenFailure ==
  ASSUME IInv, MapInv, ExtendRefFails \/ LinkRefFails \/ UpdateRefFails \/ FlushDataFails
  PROVE  MapInv'
<1>1. /\ l1' = l1 /\ pc' \in {"idle", "lookup"} /\ handle' = handle /\ pc # "idle"
      /\ faults' = faults + 1 /\ erred' = erred /\ unseen \subseteq unseen'
  BY DEF ExtendRefFails, LinkRefFails, UpdateRefFails, FlushDataFails, NextCluster, ReturnOk,
         EmptyFrame, context, marks, CanFail
<1>2. MapKept
  <2>1. CASE UNCHANGED file
    BY <2>1, FileKept, MapOfEntries DEF IInv, TypeOK
  <2>2. CASE ExtendRefFails
    BY <2>2, PartOfZerosKept, MapOfEntries DEF ExtendRefFails
  <2>3. CASE LinkRefFails /\ ~UNCHANGED file
    BY <2>3, LinkedRefEntries DEF LinkRefFails, MapKept
  <2>4. CASE UpdateRefFails
    BY <2>1, <2>4 DEF UpdateRefFails
  <2>5. CASE FlushDataFails
    BY <2>5, PartOfDataWritten, MapOfEntries DEF FlushDataFails
  <2> QED
    BY <2>1, <2>2, <2>3, <2>4, <2>5
<1>3. Reported' => Reported
  BY <1>1 DEF Reported, IInv, TypeOK, CallsOK
<1> QED
  BY <1>1, <1>2, <1>3, CallEndsMap DEF MapInv, InSession

(* A refcount that is lost in the buffer, in the call that comes next.     *)
LEMMA FlushFailsMap ==
  ASSUME IInv, MapInv, FlushFails
  PROVE  MapInv'
<1>1. Lose /\ handle = "open" /\ faults' = faults + 1 /\ req' = req /\ handle' = handle
  BY DEF FlushFails, CanFail, context
<1>2. MapKept
  BY <1>1, LoseKept, MapOfEntries
<1>3. CASE erred' = TRUE /\ pc' = "idle"
  <2>1. ~Reported'
    BY <1>1, <1>3 DEF Reported, IInv, TypeOK, CallsOK
  <2> QED
    BY <1>3, <2>1 DEF MapInv, InSession, TablesCoherent, NewTable, EntryFits
<1>4. CASE ~(erred' = TRUE /\ pc' = "idle")
  <2>1. /\ pc = "write_data" /\ pc' = "update_ref" /\ erred' = erred /\ done' = done
        /\ entry' = entry /\ l1' = l1 /\ unseen \subseteq unseen'
    BY <1>4 DEF FlushFails, Continue, ReturnError, EmptyFrame, context
  <2>2. /\ Reported' => Reported
        /\ InSession' /\ TablesCoherent'
        /\ L1Of(Off)' = L1Of(Off) /\ Here' = Here
    BY <1>1, <1>2, <2>1, CallGoesOn DEF AfterLookup
  <2>3. EntryFits' /\ NewTable'
    BY <2>1, <2>2 DEF MapInv, EntryFits, NewTable
  <2> QED
    BY <2>2, <2>3 DEF MapInv
<1> QED
  BY <1>3, <1>4

LEMMA MapStep ==
  ASSUME IInv, MapInv, [Next]_vars
  PROVE  MapInv'
<1>1. CASE Crash \/ CloseFails
  <2>1. pc' = "idle"
    BY <1>1 DEF Crash, CloseFails, EmptyFrame
  <2> QED
    BY <1>1, <2>1, ReleaseMap DEF Crash, CloseFails
<1> QED
  BY <1>1, SessionMap, LookupMap, ExtendMap, SetEntryMap, LinkL2Map, LinkRefMap, WriteDataMap,
     UpdateRefMap, ReportedFailure, LostEntry, UnseenFailure, FlushFailsMap
     DEF Next, Step, Failure

LEMMA MapInit ==
  ASSUME Init
  PROVE  MapInv
  BY DEF Init, MapInv, InSession, TablesCoherent, NewTable, EntryFits

SoundMap == SoundClaims /\ (~retried => MapInv)

LEMMA SoundMapStep ==
  ASSUME SoundMap, [Next]_vars
  PROVE  SoundMap'
<1>1. SoundClaims'
  BY SoundClaimsStep DEF SoundMap
<1>2. ~retried' => ~retried
  BY RetriedStays DEF SoundMap, SoundClaims
<1>3. ~retried' => MapInv'
  BY <1>2, MapStep DEF SoundMap, SoundClaims
<1> QED
  BY <1>1, <1>3 DEF SoundMap

(* Whatever fails and wherever the process stops before, between two calls *)
(* of a handle that reported no failure, and lost no entry in the write of *)
(* the data, the L2 tables of the context are those of the file:           *)
(* set_lba_at_img_offset, the allocation of L2 tables and init_qcow leave  *)
(* no other entry behind on one side only.                                 *)
THEOREM MappingAlways == Spec => []MappingCoherent
<1>1. Init => SoundMap
  BY InitClaims, MapInit DEF SoundMap, SoundClaims, IInv
<1>2. SoundMap /\ [Next]_vars => SoundMap'
  BY SoundMapStep
<1>3. SoundMap => MappingCoherent
  BY DEF SoundMap, MapInv, TablesCoherent, Reported, MappingCoherent
<1> QED
  BY <1>1, <1>2, <1>3, PTL DEF Spec

-----------------------------------------------------------------------------
(* What the counters and the marks say of the history.                     *)

(* A cluster that only memory maps, and so a write to it, comes after a    *)
(* failure that its call reported.                                         *)
Counters ==
  /\ pc # "idle" => handle = "open"
  /\ handle = "open" => opens >= 1
  /\ handle = "closed" => base = 0
  /\ opens = 0 => faults = 0 /\ calls = 0
  /\ stray # {} => handle = "open" /\ erred /\ faults > 0
  /\ retried => opens >= 1 /\ faults > 0 /\ (opens = 1 => erred)
  /\ unseen # {} => faults > 0

LEMMA CountersOfStep ==
  ASSUME TypeOK, Counters, Step
  PROVE  Counters'
<1>1. CASE LookupShared
  BY <1>1 DEF LookupShared, Release, EmptyFrame, Counters, counters
<1>2. CASE LookupUnreferenced \/ LookupInPlace
  <2>1. UNCHANGED <<context, counters>> /\ pc # "idle" /\ (erred' = erred \/ erred' = TRUE)
    BY <1>2 DEF LookupUnreferenced, LookupInPlace, Continue, ReturnError
  <2>2. /\ stray' = stray /\ unseen' = unseen
        /\ retried' = retried \/ (stray # {} /\ retried' = TRUE)
    <3>1. UseMapped \/ UNCHANGED marks
      BY <1>2 DEF LookupUnreferenced, LookupInPlace
    <3>2. CASE UseMapped
      <4>1. stray' = stray /\ unseen' = unseen
        BY <3>2 DEF UseMapped
      <4>2. CASE Index(Off) \in stray
        BY <3>2, <4>1, <4>2, Zenon DEF UseMapped
      <4>3. CASE Index(Off) \notin stray
        <5>1. retried' = (retried \/ FALSE)
          BY <3>2, <4>3, Zenon DEF UseMapped
        <5>2. retried \in BOOLEAN
          BY DEF TypeOK, MarksOK
        <5> QED
          BY <4>1, <5>1, <5>2, Zenon
      <4> QED
        BY <4>2, <4>3
    <3> QED
      BY <3>1, <3>2 DEF marks
  <2> QED
    BY <2>1, <2>2 DEF Counters, context, counters, TypeOK, CallsOK, ContextOK
<1>3. CASE ~LookupShared /\ ~LookupUnreferenced /\ ~LookupInPlace
  <2>1. /\ UNCHANGED <<handle, base, opens, faults, calls, unseen, stray, retried>>
        /\ pc # "idle" /\ (erred' = erred \/ erred' = TRUE)
    BY <1>3 DEF Step, Lookup, LookupFails, LookupUnallocated,
                ExtendData, SetEntry, ExtendL2, LinkL2, WriteData, UpdateRef, ExtendRef, LinkRef,
                Continue, ReturnError, NextCluster, ReturnOk, context, counters, marks
  <2> QED
    BY <2>1 DEF Counters, TypeOK, CallsOK, ContextOK
<1> QED
  BY <1>1, <1>2, <1>3

LEMMA CountersOfFailure ==
  ASSUME TypeOK, Counters, Failure, ~CloseFails
  PROVE  Counters'
<1>1. /\ UNCHANGED <<handle, base, opens, retried>>
      /\ faults' = faults + 1 /\ handle = "open"
      /\ stray' = stray \/ erred' = TRUE
      /\ erred' = erred \/ erred' = TRUE
  <2>1. CASE ExtendFails \/ ExtendFailsMapped \/ ReadLinkFails \/ SetEntryFails \/ LinkL2Fails
    BY <2>1 DEF ExtendFails, ExtendFailsMapped, ReadLinkFails, SetEntryFails, LinkL2Fails,
                Continue, ReturnError, CanFail, context, marks, Counters
  <2>2. CASE WriteDataFails \/ FlushDataFails \/ ExtendRefFails \/ LinkRefFails \/ UpdateRefFails
    BY <2>2 DEF WriteDataFails, FlushDataFails, ExtendRefFails, LinkRefFails, UpdateRefFails,
                Continue, NextCluster, ReturnOk, CanFail, context, marks, Counters
  <2>3. CASE FlushFails
    BY <2>3 DEF FlushFails, Continue, ReturnError, CanFail, context
  <2> QED
    BY <2>1, <2>2, <2>3 DEF Failure
<1> QED
  BY <1>1 DEF Counters, TypeOK, CallsOK, ContextOK

LEMMA CountersStep ==
  ASSUME TypeOK, Counters, [Next]_vars
  PROVE  Counters'
<1>1. CASE Open \/ OpenFails
  <2>1. opens' = opens + 1 /\ opens \in Nat
    BY <1>1 DEF Open, OpenFails, TypeOK, CallsOK
  <2> QED
    BY <1>1, <2>1 DEF Open, OpenFails, Counters, context, ghosts
<1>2. CASE Close
  BY <1>2 DEF Close, Release, Counters, counters
<1>3. CASE Crash
  BY <1>3 DEF Crash, Release, EmptyFrame, Counters
<1>4. CASE CloseFails
  <2>1. faults' = faults + 1 /\ faults \in Nat
    BY <1>4 DEF CloseFails, CanFail, TypeOK, CallsOK
  <2> QED
    BY <1>4, <2>1 DEF CloseFails, Release, Counters
<1>5. CASE StartWrite
  BY <1>5 DEF StartWrite, Counters, context, marks
<1>6. CASE UNCHANGED vars
  BY <1>6 DEF vars, Counters
<1> QED
  BY <1>1, <1>2, <1>3, <1>4, <1>5, <1>6, CountersOfStep, CountersOfFailure DEF Next

LEMMA CountersInit ==
  ASSUME Init
  PROVE  Counters
  BY DEF Init, Counters

(* Until something fails, no cluster is written twice for two guests.      *)
LEMMA NothingRetried ==
  ASSUME TypeOK, Counters, faults = 0
  PROVE  ~retried
  BY DEF Counters, TypeOK, CallsOK

-----------------------------------------------------------------------------
(* The refcounts.                                                          *)

(* A new refcount block is empty before it is linked, and nothing stands   *)
(* in the table where it goes.                                             *)
NewBlock ==
  pc = "link_ref" =>
    /\ Mask(pos) # 0
    /\ rt[L1Of(Off)] = NoTable
    /\ \A k \in Slots : At(Mask(pos) + k) = Zero

(* Memory never forgets a reference that the file has, whatever fails.     *)
RefsRemembered ==
  handle = "open" =>
    \A j \in RefIndex, k \in Slots :
      RefCountOnDisk(j, k).n # 0 => rt[j] # NoTable /\ rt[j][k].n # 0

RefsLinked ==
  handle = "open" /\ faults = 0 =>
    \A j \in RefIndex : (rt[j] = NoTable) = (RefEntry(j).n = 0)

(* Only a file of whole sectors gets blocks whose counts update_ref_cnt    *)
(* writes.                                                                 *)
RefsAgree ==
  handle = "open" /\ faults = 0 /\ base % Sector = 0 =>
    /\ \A j \in RefIndex :
         /\ LowBits(RefEntry(j).n) = 0
         /\ rt[j] # NoTable => \A k \in Slots : rt[j][k] = RefCountOnDisk(j, k)
    /\ pc = "link_ref" => LowBits(pos) = 0

RefInv == NewBlock /\ RefsRemembered /\ RefsLinked /\ RefsAgree

RefsKept ==
  /\ \A j \in RefIndex : RefEntry(j)' = RefEntry(j)
  /\ \A j \in RefIndex, k \in Slots : RefCountOnDisk(j, k)' = RefCountOnDisk(j, k)

(* A count changes only with its entry or its word of the file.            *)
LEMMA RefCountKept ==
  ASSUME FileOK, NEW j \in RefIndex, NEW k \in Slots, RefEntry(j)' = RefEntry(j),
         \A x \in Nat : RefBlock(j) # 0 /\ x = RefBlock(j) + k => At(x)' = At(x)
  PROVE  RefCountOnDisk(j, k)' = RefCountOnDisk(j, k)
<1>1. RefBlock(j)' = RefBlock(j)
  BY DEF RefBlock, Mask
<1>2. CASE RefBlock(j) = 0
  BY <1>1, <1>2 DEF RefCountOnDisk, Zero
<1>3. CASE RefBlock(j) # 0
  <2>1. PICK x \in Nat : x = RefBlock(j) + k
    BY PlaceType DEF Slots
  <2>2. At(x)' = At(x)
    BY <1>3, <2>1
  <2> QED
    BY <1>1, <1>3, <2>1, <2>2 DEF RefCountOnDisk, At
<1> QED
  BY <1>2, <1>3

(* The block of an entry is its owner's.                                   *)
LEMMA BlockClaimed ==
  ASSUME FileOK, NEW j \in RefIndex, RefBlock(j) # 0
  PROVE  /\ <<"ref", j, 0>> \in Owners /\ RefBlock(j) \in Nat
         /\ Claimed(<<"ref", j, 0>>, RefBlock(j))
  BY OwnerKinds, PlaceOfKind, PlaceType DEF Claimed

LEMMA ReadsKept ==
  ASSUME FileOK, EntriesKept, \A x \in Nat : At(x)' = At(x)
  PROVE  RefsKept
  BY RefCountKept DEF EntriesKept, RefsKept

(* A write in a cluster that is no refcount block, or in the header.       *)
LEMMA ClusterRefs ==
  ASSUME IInv, \A j \in RefIndex : RefEntry(j)' = RefEntry(j),
         NEW c \in Nat, NEW q \in Owners, \A j \in RefIndex : q # <<"ref", j, 0>>,
         c = 0 \/ Claimed(q, c),
         \A x \in Nat : ~(c <= x /\ x < c + ClusterSize) => At(x)' = At(x)
  PROVE  RefsKept
<1>1. ASSUME NEW j \in RefIndex, NEW k \in Slots
      PROVE  RefCountOnDisk(j, k)' = RefCountOnDisk(j, k)
  <2>1. ASSUME NEW x \in Nat, RefBlock(j) # 0, x = RefBlock(j) + k
        PROVE  At(x)' = At(x)
    <3>1. PICK o \in Owners : o = <<"ref", j, 0>> /\ Claimed(o, RefBlock(j))
      BY <2>1, BlockClaimed DEF IInv, TypeOK
    <3>2. RefBlock(j) \in Nat /\ RefBlock(j) <= x /\ x < RefBlock(j) + ClusterSize
      BY <2>1, PlaceType, SizesAssumption DEF IInv, TypeOK, Slots
    <3> QED
      BY <3>1, <3>2, ClusterKept
  <2> QED
    BY <2>1, RefCountKept DEF IInv, TypeOK
<1> QED
  BY <1>1 DEF RefsKept

(* A write in the L1 table or the refcount table leaves the block of an    *)
(* entry that stays.                                                       *)
LEMMA TableRefs ==
  ASSUME IInv, NEW j \in RefIndex, RefEntry(j)' = RefEntry(j), NEW a \in Nat,
         \/ L1Off <= a /\ a < L1Off + L1Size
         \/ RefTableOff <= a /\ a < RefTableOff + RefTableSize,
         \A x \in Nat : x # a => At(x)' = At(x)
  PROVE  \A k \in Slots : RefCountOnDisk(j, k)' = RefCountOnDisk(j, k)
<1>1. ASSUME NEW k \in Slots, NEW x \in Nat, RefBlock(j) # 0, x = RefBlock(j) + k
      PROVE  At(x)' = At(x)
  <2>1. PICK o \in Owners : o = <<"ref", j, 0>> /\ Claimed(o, RefBlock(j))
    BY <1>1, BlockClaimed DEF IInv, TypeOK
  <2>2. RefBlock(j) \in Nat /\ RefBlock(j) <= x /\ x < RefBlock(j) + ClusterSize
    BY <1>1, PlaceType, SizesAssumption DEF IInv, TypeOK, Slots
  <2> QED
    BY <2>1, <2>2, ClusterKeptByTables
<1> QED
  BY <1>1, RefCountKept DEF IInv, TypeOK

(* A step that changes no refcount, on the file or in memory.              *)
LEMMA RefsStay ==
  ASSUME IInv, RefInv, RefsKept, UNCHANGED <<handle, base, rt>>,
         faults' = faults \/ faults' = faults + 1, pc' # "link_ref"
  PROVE  RefInv'
<1>1. faults' = 0 => faults = 0
  BY DEF IInv, TypeOK, CallsOK
<1>2. RefsRemembered'
  BY DEF RefInv, RefsRemembered, RefsKept
<1>3. RefsLinked'
  BY <1>1 DEF RefInv, RefsLinked, RefsKept
<1>4. \A j \in RefIndex : LowBits(RefEntry(j).n)' = LowBits(RefEntry(j).n)
  BY DEF RefsKept, LowBits
<1>5. RefsAgree'
  BY <1>1, <1>4 DEF RefInv, RefsAgree, RefsKept
<1> QED
  BY <1>2, <1>3, <1>5 DEF RefInv, NewBlock

LEMMA ReleaseRefs ==
  ASSUME Release, pc' = "idle"
  PROVE  RefInv'
  BY DEF Release, RefInv, NewBlock, RefsRemembered, RefsLinked, RefsAgree

(* init_qcow refuses a refcount block that is not at a whole address, and  *)
(* copies the others.                                                      *)
LEMMA LoadedRefsAgree ==
  ASSUME FileOK, UNCHANGED file, Parsable, rt' = LoadedRefs, NEW j \in RefIndex
  PROVE  /\ LowBits(RefEntry(j).n)' = 0
         /\ (rt'[j] = NoTable) = (RefEntry(j)'.n = 0)
         /\ rt'[j] # NoTable => \A k \in Slots : rt'[j][k] = RefCountOnDisk(j, k)'
<1>1. RefEntry(j)' = RefEntry(j) /\ \A k \in Slots : RefCountOnDisk(j, k)' = RefCountOnDisk(j, k)
  BY FileKept, ReadsKept DEF RefsKept
<1>2. RefEntry(j).n \in Nat /\ LowBits(RefEntry(j).n) = 0
  <2>1. RefEntry(j) \in Word
    BY AtType DEF RefEntry
  <2>2. LowBits(0) = 0
    BY SizesAssumption, SMT DEF LowBits
  <2> QED
    BY <2>1, <2>2 DEF Parsable, Readable, Word
<1>3. RefBlock(j) = RefEntry(j).n
  BY <1>2 DEF RefBlock, Mask, LowBits
<1>4. LowBits(RefEntry(j).n)' = 0
  BY <1>1, <1>2 DEF LowBits
<1>5. CASE RefEntry(j).n = 0
  <2>1. rt'[j] = NoTable
    BY <1>5 DEF LoadedRefs
  <2> QED
    BY <1>1, <1>4, <1>5, <2>1
<1>6. CASE RefEntry(j).n # 0
  <2>1. rt'[j] = [k \in Slots |-> At(RefEntry(j).n + k)]
    BY <1>6 DEF LoadedRefs
  <2>2. rt'[j] \in Table
    BY <2>1, AtType DEF Table
  <2>3. rt'[j] # NoTable
    BY <2>2, EnvironmentAssumption
  <2>4. \A k \in Slots : rt'[j][k] = RefCountOnDisk(j, k)
    BY <1>3, <1>6, <2>1 DEF RefCountOnDisk
  <2> QED
    BY <1>1, <1>4, <1>6, <2>3, <2>4
<1> QED
  BY <1>5, <1>6

LEMMA SessionRefs ==
  ASSUME IInv, MapInv, RefInv, Open \/ OpenFails \/ Close \/ StartWrite \/ UNCHANGED vars
  PROVE  RefInv'
<1>1. UNCHANGED file
  BY DEF Open, OpenFails, Close, StartWrite, vars, file
<1>2. FileOK /\ RefsKept /\ \A x \in Nat : At(x)' = At(x)
  BY <1>1, FileKept, ReadsKept DEF IInv, TypeOK
<1>3. CASE Open
  <2>1. /\ pc' = "idle" /\ Parsable /\ rt' = LoadedRefs
    BY <1>3 DEF Open, MapInv, InSession
  <2>2. \A j \in RefIndex :
          /\ LowBits(RefEntry(j).n)' = 0
          /\ (rt'[j] = NoTable) = (RefEntry(j)'.n = 0)
          /\ rt'[j] # NoTable => \A k \in Slots : rt'[j][k] = RefCountOnDisk(j, k)'
    BY <1>1, <1>2, <2>1, LoadedRefsAgree
  <2>3. RefsLinked' /\ RefsAgree' /\ NewBlock'
    BY <2>1, <2>2 DEF RefsLinked, RefsAgree, NewBlock
  <2>4. ASSUME NEW j \in RefIndex, NEW k \in Slots, RefCountOnDisk(j, k)'.n # 0
        PROVE  rt'[j] # NoTable /\ rt'[j][k].n # 0
    <3>1. rt'[j] # NoTable
      <4>1. ASSUME RefEntry(j)'.n = 0
            PROVE  FALSE
        <5>1. RefBlock(j) = 0
          BY <1>2, <4>1, MaskOfZero DEF RefsKept, RefBlock
        <5>2. RefCountOnDisk(j, k) = Zero
          BY <5>1 DEF RefCountOnDisk
        <5>3. RefCountOnDisk(j, k)' = Zero
          BY <1>2, <5>2 DEF RefsKept
        <5> QED
          BY <2>4, <5>3 DEF Zero
      <4> QED
        BY <2>2, <4>1
    <3> QED
      BY <2>2, <2>4, <3>1
  <2> QED
    BY <2>3, <2>4 DEF RefInv, RefsRemembered
<1>4. CASE Close
  BY <1>4, ReleaseRefs DEF Close
<1>5. CASE StartWrite
  BY <1>2, <1>5, RefsStay DEF StartWrite, context
<1>6. CASE OpenFails \/ UNCHANGED vars
  <2>1. UNCHANGED <<handle, base, rt, faults, pc, req, done, pos>>
    BY <1>6 DEF OpenFails, vars, context, frame
  <2>2. CASE pc = "link_ref"
    <3>1. L1Of(Off)' = L1Of(Off) /\ Mask(pos)' = Mask(pos) /\ LowBits(pos)' = LowBits(pos)
      BY <2>1, OffKept DEF Mask, LowBits
    <3>2. ASSUME NEW k \in Slots
          PROVE  At(Mask(pos) + k)' = At(Mask(pos) + k)
      <4>1. PICK x \in Nat : x = Mask(pos) + k
        BY MaskRange DEF IInv, TypeOK, FrameOK, Slots
      <4>2. x' = x /\ At(x)' = At(x)
        BY <1>2
      <4>3. (Mask(pos) + k)' = x
        BY <3>1, <4>1
      <4> QED
        BY <4>1, <4>2, <4>3 DEF At
    <3>3. NewBlock'
      BY <2>1, <3>1, <3>2 DEF RefInv, NewBlock
    <3>4. \A j \in RefIndex : LowBits(RefEntry(j).n)' = LowBits(RefEntry(j).n)
      BY <1>2 DEF RefsKept, LowBits
    <3>5. RefsRemembered' /\ RefsLinked'
      BY <1>2, <2>1 DEF RefInv, RefsRemembered, RefsLinked, RefsKept
    <3>6. RefsAgree'
      BY <1>2, <2>1, <3>1, <3>4 DEF RefInv, RefsAgree, RefsKept
    <3> QED
      BY <3>3, <3>5, <3>6 DEF RefInv
  <2>3. CASE pc # "link_ref"
    BY <1>2, <2>1, <2>3, RefsStay
  <2> QED
    BY <2>2, <2>3
<1> QED
  BY <1>3, <1>4, <1>5, <1>6

LEMMA LookupRefs ==
  ASSUME IInv, RefInv, Lookup
  PROVE  RefInv'
<1>1. UNCHANGED file /\ faults' = faults /\ pc' # "link_ref"
  BY DEF Lookup, LookupFails, LookupUnallocated, LookupUnreferenced, LookupInPlace,
         LookupShared, ReturnError, EmptyFrame, Continue, counters
<1>2. RefsKept
  BY <1>1, FileKept, ReadsKept DEF IInv, TypeOK
<1>3. CASE LookupShared
  BY <1>3, ReleaseRefs DEF LookupShared, EmptyFrame
<1>4. CASE ~LookupShared
  BY <1>1, <1>2, <1>4, RefsStay
     DEF Lookup, LookupFails, LookupUnallocated, LookupUnreferenced, LookupInPlace, context
<1> QED
  BY <1>3, <1>4

(* An extension keeps to the multiples that the file began with.           *)
LEMMA ExtendedEofMultiple ==
  ASSUME eof \in Nat, base \in Nat, NEW d \in Nat \ {0}, ClusterSize % d = 0, base % d = 0
  PROVE  ExtendedEof % d = 0
<1> DEFINE over == (eof - base) % ClusterSize
           q == (eof - base) \div ClusterSize
           c == ClusterSize \div d
           b == base \div d
           r == IF over = 0 THEN 1 ELSE 2
<1>1. ClusterSize \in Nat \ {0} /\ eof - base \in Int
  BY SizesAssumption
<1>2. over \in 0 .. ClusterSize - 1 /\ q \in Int /\ eof - base = ClusterSize * q + over
  BY <1>1, SMT
<1>3. ExtendedEof = eof + (IF over = 0 THEN 0 ELSE ClusterSize - over) + ClusterSize
  BY DEF ExtendedEof
<1>4. c \in Nat /\ b \in Nat /\ ClusterSize = d * c /\ base = d * b
  <2>1. /\ c \in Nat /\ ClusterSize = d * c + (ClusterSize % d)
        /\ b \in Nat /\ base = d * b + (base % d)
    BY <1>1, RemainderRange, Zenon
  <2> HIDE DEF c, b
  <2>2. d * c \in Nat /\ d * b \in Nat
    BY <2>1, ProductNat, Zenon
  <2> QED
    BY <2>1, <2>2
<1>5. r \in {1, 2} /\ (over = 0 => r = 1) /\ (over # 0 => r = 2)
  OBVIOUS
<1> HIDE DEF over, q, c, b, r
<1>6. ExtendedEof = base + ClusterSize * (q + r)
  <2>1. PICK t \in Int : t = ClusterSize * q
    BY <1>1, <1>2
  <2>2. ClusterSize * (q + r) = t + (IF over = 0 THEN ClusterSize ELSE 2 * ClusterSize)
    BY <1>1, <1>2, <1>5, <2>1
  <2> QED
    BY <1>1, <1>2, <1>3, <2>1, <2>2
<1>7. PICK p \in Int : p = q + r
  BY <1>2, <1>5
<1>8. PICK n \in Int : n = c * p
  BY <1>4, <1>7
<1>9. ClusterSize * p = d * n
  <2>1. (d * c) * p = d * (c * p)
    BY <1>4, <1>7, SMT
  <2> QED
    BY <1>4, <1>8, <2>1
<1>10. PICK m \in Int : m = b + n
  BY <1>4, <1>8
<1>11. ExtendedEof = d * m
  <2>1. d * (b + n) = d * b + d * n
    BY <1>4, <1>8, SMT
  <2> QED
    BY <1>4, <1>6, <1>7, <1>9, <1>10, <2>1
<1>12. (d * m) % d = 0
  BY SMT
<1> QED
  BY <1>11, <1>12

(* What is read past the end of the file is zero.                          *)
LEMMA BeyondTheEnd ==
  ASSUME FileOK, NEW x \in Nat, x >= eof
  PROVE  At(x) = Zero
  BY DEF At, FileOK

LEMMA ExtendRefs ==
  ASSUME IInv, MapInv, RefInv, ExtendData \/ ExtendL2 \/ ExtendRef
  PROVE  RefInv'
<1>1. /\ ZeroTo(ExtendedEof) /\ req' = req /\ done' = done
      /\ UNCHANGED <<handle, base, rt, faults>>
  BY DEF ExtendData, ExtendL2, ExtendRef, Continue, context, counters
<1>2. ExtendedEof \in Nat /\ ExtendedEof >= eof
  BY ExtendedEofRange, SizesAssumption DEF IInv, TypeOK, FileOK, ContextOK
<1>3. RefsKept /\ \A x \in Nat : At(x)' = At(x)
  BY <1>1, <1>2, ExtensionKept, ReadsKept DEF IInv, TypeOK
<1>4. CASE ~ExtendRef
  BY <1>1, <1>3, <1>4, RefsStay DEF ExtendData, ExtendL2, Continue
<1>5. CASE ExtendRef
  <2>1. pos' = ExtendedEof /\ pc' = "link_ref" /\ rt[L1Of(Off)] = NoTable /\ handle = "open"
    BY <1>5 DEF ExtendRef, Continue, MapInv, InSession
  <2>2. L1Of(Off)' = L1Of(Off)
    BY <1>1, OffKept
  <2>3. PICK p \in Nat : p = Mask(ExtendedEof)
    BY FreshPlace DEF IInv
  <2>4. p >= eof /\ p # 0 /\ Mask(pos)' = p
    <3>1. p >= eof /\ p >= ClusterSize
      BY <2>3, FreshPlace DEF IInv
    <3>2. Mask(pos)' = p
      BY <2>1, <2>3 DEF Mask
    <3> QED
      BY <3>1, <3>2, SizesAssumption
  <2>5. ASSUME NEW k \in Slots
        PROVE  At(Mask(pos) + k)' = Zero
    <3>1. PICK x \in Nat : x = p + k
      BY DEF Slots
    <3>2. x >= eof
      BY <2>4, <3>1 DEF Slots, IInv, TypeOK, FileOK
    <3>3. At(x)' = Zero
      BY <1>3, <3>2, BeyondTheEnd DEF IInv, TypeOK
    <3> QED
      BY <2>4, <3>1, <3>3 DEF At
  <2>6. NewBlock'
    BY <1>1, <2>1, <2>2, <2>4, <2>5 DEF NewBlock, Zero
  <2>7. RefsRemembered' /\ RefsLinked'
    BY <1>1, <1>3 DEF RefInv, RefsRemembered, RefsLinked, RefsKept
  <2>8. base % Sector = 0 => LowBits(pos)' = 0
    BY <2>1, ExtendedEofMultiple, SizesAssumption
       DEF LowBits, IInv, TypeOK, FileOK, ContextOK
  <2>9. \A j \in RefIndex : LowBits(RefEntry(j).n)' = LowBits(RefEntry(j).n)
    BY <1>3 DEF RefsKept, LowBits
  <2>10. RefsAgree'
    BY <1>1, <1>3, <2>8, <2>9 DEF RefInv, RefsAgree, RefsKept
  <2> QED
    BY <2>6, <2>7, <2>10 DEF RefInv
<1> QED
  BY <1>4, <1>5

(* The writes of the mapping leave the refcounts.                          *)
LEMMA MappingRefsKept ==
  ASSUME IInv, SetEntry \/ SetEntryFails \/ ReadLinkFails \/ LinkL2 \/ LinkL2Fails
  PROVE  RefsKept
<1>1. CASE UNCHANGED file
  BY <1>1, FileKept, ReadsKept DEF IInv, TypeOK
<1>2. CASE SetEntry
  <2>1. pc = "set_entry" /\ PutWord(L2Table(L1Of(Off)) + L2Of(Off), entry)
    BY <1>2 DEF SetEntry
  <2>2. PICK i0 \in L1Index, k0 \in Slots : i0 = L1Of(Off) /\ k0 = L2Of(Off)
    BY <2>1, OffType DEF IInv, TypeOK, IndexChecked, AfterLookup
  <2>3. PICK c \in Nat : c = L2Table(i0)
    BY PlaceType DEF IInv, TypeOK
  <2>4. PICK a \in Nat : a = c + k0
    BY DEF Slots
  <2>5. \A x \in Nat : At(x)' = IF x = a THEN entry ELSE At(x)
    BY <2>1, <2>2, <2>3, <2>4, PutWordReads DEF IInv, TypeOK
  <2>6. \A x \in Nat : ~(c <= x /\ x < c + ClusterSize) => At(x)' = At(x)
    BY <2>4, <2>5, SizesAssumption DEF Slots
  <2>7. PICK q \in Owners : q = <<"l2", i0, 0>>
    BY OwnerKinds
  <2>8. c = 0 \/ Claimed(q, c)
    BY <2>3, <2>7, PlaceOfKind DEF Claimed
  <2>9. \A j \in RefIndex : q # <<"ref", j, 0>> /\ RefEntry(j)' = RefEntry(j)
    BY <2>1, <2>7, MappedEntries
  <2> QED
    BY <2>6, <2>8, <2>9, ClusterRefs
<1>3. CASE (LinkL2 \/ LinkL2Fails) /\ ~UNCHANGED file
  <2>1. pc = "link_l2" /\ PutWord(L1Off + L1Of(Off), [n |-> pos, copied |-> FALSE])
    BY <1>3 DEF LinkL2, LinkL2Fails
  <2>2. PICK i0 \in L1Index : i0 = L1Of(Off)
    BY <2>1 DEF IInv, IndexChecked, AfterLookup
  <2>3. PICK a \in Nat : a = L1Off + i0 /\ L1Off <= a /\ a < L1Off + L1Size
    BY SizesAssumption DEF L1Index
  <2>4. \A x \in Nat : x # a => At(x)' = At(x)
    BY <2>1, <2>2, <2>3, PutWordReads DEF IInv, TypeOK
  <2>5. \A j \in RefIndex : RefEntry(j)' = RefEntry(j)
    BY <2>1, LinkedL2Entries
  <2> QED
    BY <2>3, <2>4, <2>5, TableRefs DEF RefsKept
<1> QED
  BY <1>1, <1>2, <1>3 DEF SetEntryFails, ReadLinkFails

LEMMA MappingRefs ==
  ASSUME IInv, RefInv, SetEntry \/ SetEntryFails \/ ReadLinkFails \/ LinkL2 \/ LinkL2Fails
  PROVE  RefInv'
<1>1. /\ pc' # "link_ref" /\ UNCHANGED <<handle, base, rt>>
      /\ faults' = faults \/ faults' = faults + 1
  BY DEF SetEntry, SetEntryFails, ReadLinkFails, LinkL2, LinkL2Fails, Continue, ReturnError,
         EmptyFrame, CanFail, context, counters
<1> QED
  BY <1>1, MappingRefsKept, RefsStay

LEMMA DataRefs ==
  ASSUME IInv, RefInv, NEW m \in 0 .. Chunk, pc = "write_data", PutData(m)
  PROVE  RefsKept
<1>1. L1Of(Off) \in L1Index /\ L2Of(Off) \in Slots
  BY OffType DEF IInv, TypeOK, IndexChecked, AfterLookup
<1>2. PICK c \in Nat : c = Mask(entry.n)
  BY MaskRange DEF IInv, TypeOK, FrameOK, Word
<1>3. PICK q \in Owners : q = <<"data", L1Of(Off), L2Of(Off)>>
  BY <1>1, OwnerKinds
<1>4. c = 0 \/ Claimed(q, c)
  BY <1>2, <1>3 DEF Claimed, HeldByCall
<1>5. \A x \in Nat : ~(c <= x /\ x < c + ClusterSize) => At(x)' = At(x)
  BY <1>2, PutDataReads DEF IInv
<1>6. \A j \in RefIndex : q # <<"ref", j, 0>> /\ RefEntry(j)' = RefEntry(j)
  BY <1>3, DataWritten DEF EntriesKept
<1> QED
  BY <1>4, <1>5, <1>6, ClusterRefs

LEMMA WriteDataRefs ==
  ASSUME IInv, RefInv, WriteData \/ WriteDataFails
  PROVE  RefInv'
<1>1. PICK m \in 0 .. Chunk : PutData(m)
  BY OffType DEF WriteData, WriteDataFails, PartOfData, IInv, TypeOK
<1>2. /\ pc = "write_data" /\ pc' # "link_ref" /\ UNCHANGED <<handle, base, rt>>
      /\ faults' = faults \/ faults' = faults + 1
  BY DEF WriteData, WriteDataFails, Continue, context, counters, CanFail
<1> QED
  BY <1>1, <1>2, DataRefs, RefsStay

(* The entry of the refcount table becomes the block that the call holds.  *)
LEMMA LinkedBlocks ==
  ASSUME IInv, RefInv, pc = "link_ref",
         PutWord(RefTableOff + L1Of(Off), [n |-> pos, copied |-> FALSE])
  PROVE  \A j \in RefIndex, k \in Slots :
           RefCountOnDisk(j, k)' = IF j = L1Of(Off) THEN Zero ELSE RefCountOnDisk(j, k)
<1>1. PICK j0 \in RefIndex : j0 = L1Of(Off)
  BY DEF IInv, IndexChecked, AfterLookup
<1>2. PICK a \in Nat : a = RefTableOff + j0 /\ RefTableOff <= a /\ a < RefTableOff + RefTableSize
  BY SizesAssumption DEF RefIndex
<1>3. \A x \in Nat : x # a => At(x)' = At(x)
  BY <1>1, <1>2, PutWordReads DEF IInv, TypeOK
<1>4. \A j \in RefIndex :
        RefEntry(j)' = IF j = j0 THEN [n |-> pos, copied |-> FALSE] ELSE RefEntry(j)
  BY <1>1, LinkedRefEntries
<1>5. ASSUME NEW j \in RefIndex, NEW k \in Slots, j # j0
      PROVE  RefCountOnDisk(j, k)' = RefCountOnDisk(j, k)
  BY <1>2, <1>3, <1>4, <1>5, TableRefs
<1>6. ASSUME NEW k \in Slots
      PROVE  RefCountOnDisk(j0, k)' = Zero
  <2>1. PICK p \in Nat : p = Mask(pos) /\ p # 0
    BY MaskRange DEF RefInv, NewBlock, IInv, TypeOK, FrameOK
  <2>2. PICK q \in Owners : q = <<"ref", j0, 0>> /\ Claimed(q, p)
    BY <1>1, <2>1, OwnerKinds DEF Claimed, HeldByCall
  <2>3. PICK x \in Nat : x = p + k /\ p <= x /\ x < p + ClusterSize
    BY SizesAssumption DEF Slots
  <2>4. At(x)' = At(x)
    BY <1>2, <1>3, <2>1, <2>2, <2>3, ClusterKeptByTables
  <2>5. At(x) = Zero
    BY <2>1, <2>3 DEF RefInv, NewBlock
  <2>6. RefBlock(j0)' = p
    <3>1. RefEntry(j0)'.n = pos
      BY <1>4
    <3> QED
      BY <2>1, <3>1 DEF RefBlock, Mask
  <2> QED
    BY <2>1, <2>3, <2>4, <2>5, <2>6 DEF RefCountOnDisk, At
<1> QED
  BY <1>1, <1>5, <1>6

LEMMA LinkRefRefs ==
  ASSUME IInv, MapInv, RefInv, LinkRef
  PROVE  RefInv'
<1> DEFINE w == [n |-> pos, copied |-> FALSE]
           blank == [k \in Slots |-> Zero]
<1>1. /\ pc = "link_ref" /\ pc' = "update_ref" /\ PutWord(RefTableOff + L1Of(Off), w)
      /\ rt' = [rt EXCEPT ![L1Of(Off)] = blank]
      /\ UNCHANGED <<handle, base, faults>>
  BY DEF LinkRef, Continue, counters
<1>2. PICK j0 \in RefIndex : j0 = L1Of(Off)
  BY <1>1 DEF IInv, IndexChecked, AfterLookup
<1>3. rt \in [RefIndex -> Table \cup {NoTable}] /\ blank \in Table
  BY ZeroIsWord DEF IInv, TypeOK, ContextOK, Table
<1>4. blank # NoTable /\ \A k \in Slots : blank[k] = Zero
  BY <1>3, EnvironmentAssumption
<1> HIDE DEF blank
<1>5. \A j \in RefIndex : rt'[j] = IF j = j0 THEN blank ELSE rt[j]
  BY <1>1, <1>2, <1>3
<1>6. \A j \in RefIndex, k \in Slots :
        RefCountOnDisk(j, k)' = IF j = j0 THEN Zero ELSE RefCountOnDisk(j, k)
  BY <1>1, <1>2, LinkedBlocks
<1>7. \A j \in RefIndex : RefEntry(j)' = IF j = j0 THEN w ELSE RefEntry(j)
  BY <1>1, <1>2, LinkedRefEntries
<1>8. pos # 0
  BY <1>1, MaskOfZero DEF RefInv, NewBlock
<1>9. RefsRemembered'
  <2>1. ASSUME handle = "open", NEW j \in RefIndex, NEW k \in Slots, RefCountOnDisk(j, k)'.n # 0
        PROVE  rt'[j] # NoTable /\ rt'[j][k].n # 0
    <3>1. j # j0
      BY <1>6, <2>1 DEF Zero
    <3> QED
      BY <1>5, <1>6, <2>1, <3>1 DEF RefInv, RefsRemembered
  <2> QED
    BY <1>1, <2>1 DEF RefsRemembered
<1>10. RefsLinked'
  BY <1>1, <1>4, <1>5, <1>7, <1>8 DEF RefInv, RefsLinked
<1>11. RefsAgree'
  <2>1. ASSUME handle = "open", faults = 0, base % Sector = 0, NEW j \in RefIndex
        PROVE  /\ LowBits(RefEntry(j).n)' = 0
               /\ rt'[j] # NoTable => \A k \in Slots : rt'[j][k] = RefCountOnDisk(j, k)'
    <3>1. CASE j = j0
      <4>1. LowBits(RefEntry(j).n)' = LowBits(pos)
        BY <1>7, <3>1 DEF LowBits
      <4> QED
        BY <1>1, <1>4, <1>5, <1>6, <2>1, <3>1, <4>1 DEF RefInv, RefsAgree
    <3>2. CASE j # j0
      <4>1. LowBits(RefEntry(j).n)' = LowBits(RefEntry(j).n)
        BY <1>7, <3>2 DEF LowBits
      <4> QED
        BY <1>5, <1>6, <2>1, <3>2, <4>1 DEF RefInv, RefsAgree
    <3> QED
      BY <3>1, <3>2
  <2> QED
    BY <1>1, <2>1 DEF RefsAgree
<1> QED
  BY <1>1, <1>9, <1>10, <1>11 DEF RefInv, NewBlock

(* The word that update_ref_cnt writes is in the block of its entry.       *)
LEMMA CountWritten ==
  ASSUME IInv, pc = "update_ref", LowBits(RefEntry(L1Of(Off)).n) = 0,
         PutWord(RefEntry(L1Of(Off)).n + L2Of(Off), One)
  PROVE  \A j \in RefIndex, k \in Slots :
           RefCountOnDisk(j, k)' = IF j = L1Of(Off) /\ k = L2Of(Off) /\ RefBlock(j) # 0
                                   THEN One ELSE RefCountOnDisk(j, k)
<1>1. PICK j0 \in RefIndex, k0 \in Slots : j0 = L1Of(Off) /\ k0 = L2Of(Off)
  BY OffType DEF IInv, TypeOK, IndexChecked, AfterLookup
<1>2. PICK c \in Nat : c = RefEntry(j0).n
  BY AtType DEF IInv, TypeOK, RefEntry, Word
<1>3. c = RefBlock(j0)
  BY <1>1, <1>2 DEF LowBits, RefBlock, Mask
<1>4. PICK a \in Nat : a = c + k0 /\ c <= a /\ a < c + ClusterSize
  BY SizesAssumption DEF Slots
<1>5. \A x \in Nat : At(x)' = IF x = a THEN One ELSE At(x)
  BY <1>1, <1>2, <1>4, PutWordReads DEF IInv, TypeOK
<1>6. \A j \in RefIndex : RefEntry(j)' = RefEntry(j)
  BY RefCountWritten DEF EntriesKept
<1>7. PICK q \in Owners : q = <<"ref", j0, 0>>
  BY OwnerKinds
<1>8. c = 0 \/ Claimed(q, c)
  BY <1>3, <1>7, PlaceOfKind DEF Claimed
<1>9. ASSUME NEW j \in RefIndex, NEW k \in Slots, j # j0 \/ k # k0 \/ c = 0
      PROVE  RefCountOnDisk(j, k)' = RefCountOnDisk(j, k)
  <2>1. ASSUME NEW x \in Nat, RefBlock(j) # 0, x = RefBlock(j) + k
        PROVE  At(x)' = At(x)
    <3>1. RefBlock(j) \in Nat /\ RefBlock(j) <= x /\ x < RefBlock(j) + ClusterSize
      BY <2>1, PlaceType, SizesAssumption DEF IInv, TypeOK, Slots
    <3>2. CASE j = j0
      BY <1>3, <1>4, <1>5, <1>9, <2>1, <3>2 DEF Slots
    <3>3. CASE j # j0
      <4>1. PICK o \in Owners : o = <<"ref", j, 0>> /\ Claimed(o, RefBlock(j))
        BY <2>1, BlockClaimed DEF IInv, TypeOK
      <4>2. o # q
        BY <1>7, <3>3, <4>1
      <4>3. \A y \in Nat : ~(c <= y /\ y < c + ClusterSize) => At(y)' = At(y)
        BY <1>4, <1>5
      <4> QED
        BY <1>8, <3>1, <4>1, <4>2, <4>3, ClusterKept
    <3> QED
      BY <3>2, <3>3
  <2> QED
    BY <1>6, <2>1, RefCountKept DEF IInv, TypeOK
<1>10. ASSUME c # 0
       PROVE  RefCountOnDisk(j0, k0)' = One
  <2>1. RefBlock(j0)' = c
    BY <1>3, <1>6 DEF RefBlock, Mask
  <2>2. At(a)' = One
    BY <1>5
  <2> QED
    BY <1>4, <1>10, <2>1, <2>2 DEF RefCountOnDisk, At
<1> QED
  BY <1>1, <1>3, <1>9, <1>10

(* The refcount of the call is one in memory, and on the file if its block *)
(* is at a whole address.                                                  *)
LEMMA CountedRefs ==
  ASSUME IInv, RefInv, pc \in {"write_data", "update_ref"}, rt[L1Of(Off)] # NoTable, PutRefCount,
         UNCHANGED <<handle, base>>, pc' \in {"idle", "lookup"},
         \/ RefsKept /\ (faults' = faults + 1 \/ LowBits(RefEntry(L1Of(Off)).n) # 0)
         \/ /\ faults' = faults
            /\ LowBits(RefEntry(L1Of(Off)).n) = 0
            /\ pc = "update_ref"
            /\ PutWord(RefEntry(L1Of(Off)).n + L2Of(Off), One),
         faults' = faults \/ faults' = faults + 1
  PROVE  RefInv'
<1>1. PICK j0 \in RefIndex, k0 \in Slots : j0 = L1Of(Off) /\ k0 = L2Of(Off)
  BY OffType DEF IInv, TypeOK, IndexChecked, AfterLookup
<1>2. /\ rt \in [RefIndex -> Table \cup {NoTable}] /\ rt[j0] \in Table
      /\ rt' = [rt EXCEPT ![j0] = [rt[j0] EXCEPT ![k0] = One]]
  BY <1>1 DEF IInv, TypeOK, ContextOK, PutRefCount
<1>3. One \in Word /\ One.n # 0
  BY DEF One, Word
<1>4. /\ rt'[j0] \in Table /\ rt'[j0] # NoTable
      /\ \A j \in RefIndex : j # j0 => rt'[j] = rt[j]
      /\ \A k \in Slots : rt'[j0][k] = IF k = k0 THEN One ELSE rt[j0][k]
  <2>1. [rt[j0] EXCEPT ![k0] = One] \in Table
    BY <1>1, <1>2, <1>3 DEF Table
  <2>2. rt'[j0] = [rt[j0] EXCEPT ![k0] = One] /\ \A j \in RefIndex : j # j0 => rt'[j] = rt[j]
    BY <1>1, <1>2
  <2>3. \A k \in Slots : rt'[j0][k] = IF k = k0 THEN One ELSE rt[j0][k]
    BY <1>1, <1>2, <2>2 DEF Table
  <2> QED
    BY <2>1, <2>2, <2>3, EnvironmentAssumption
<1>5. \A j \in RefIndex : (rt'[j] = NoTable) = (rt[j] = NoTable)
  BY <1>1, <1>4
<1>6. \A j \in RefIndex : RefEntry(j)' = RefEntry(j)
  <2>1. CASE RefsKept
    BY <2>1 DEF RefsKept
  <2>2. CASE ~RefsKept
    BY <2>2, RefCountWritten DEF EntriesKept
  <2> QED
    BY <2>1, <2>2
<1>7. /\ \A j \in RefIndex, k \in Slots : j # j0 \/ k # k0 =>
           RefCountOnDisk(j, k)' = RefCountOnDisk(j, k)
      /\ faults' = 0 /\ LowBits(RefEntry(j0).n) = 0 /\ RefBlock(j0) # 0 =>
           RefCountOnDisk(j0, k0)' = One
  <2>1. CASE RefsKept /\ (faults' = faults + 1 \/ LowBits(RefEntry(L1Of(Off)).n) # 0)
    <3>1. RefsKept
      BY <2>1
    <3>2. faults' = faults + 1 => faults' # 0
      BY DEF IInv, TypeOK, CallsOK
    <3> QED
      BY <1>1, <2>1, <3>1, <3>2 DEF RefsKept
  <2>2. CASE /\ LowBits(RefEntry(L1Of(Off)).n) = 0 /\ pc = "update_ref"
             /\ PutWord(RefEntry(L1Of(Off)).n + L2Of(Off), One)
    BY <1>1, <2>2, CountWritten
  <2> QED
    BY <2>1, <2>2
<1>8. RefsRemembered'
  <2>1. ASSUME handle = "open", NEW j \in RefIndex, NEW k \in Slots, RefCountOnDisk(j, k)'.n # 0
        PROVE  rt'[j] # NoTable /\ rt'[j][k].n # 0
    <3>1. CASE j = j0 /\ k = k0
      BY <1>3, <1>4, <3>1
    <3>2. CASE j # j0 \/ k # k0
      <4>1. rt[j] # NoTable /\ rt[j][k].n # 0
        BY <1>7, <2>1, <3>2 DEF RefInv, RefsRemembered
      <4> QED
        BY <1>4, <1>5, <3>2, <4>1
    <3> QED
      BY <3>1, <3>2
  <2> QED
    BY <2>1 DEF RefsRemembered
<1>9. faults' = 0 => faults = 0
  BY DEF IInv, TypeOK, CallsOK
<1>10. RefsLinked'
  BY <1>5, <1>6, <1>9 DEF RefInv, RefsLinked
<1>11. RefsAgree'
  <2>1. ASSUME handle = "open", faults' = 0, base % Sector = 0, NEW j \in RefIndex
        PROVE  /\ LowBits(RefEntry(j).n)' = 0
               /\ rt'[j] # NoTable => \A k \in Slots : rt'[j][k] = RefCountOnDisk(j, k)'
    <3>1. LowBits(RefEntry(j).n)' = LowBits(RefEntry(j).n)
      BY <1>6 DEF LowBits
    <3>2. /\ LowBits(RefEntry(j).n) = 0
          /\ rt[j] # NoTable => \A k \in Slots : rt[j][k] = RefCountOnDisk(j, k)
      BY <1>9, <2>1 DEF RefInv, RefsAgree
    <3>3. CASE j # j0
      BY <1>4, <1>7, <3>1, <3>2, <3>3
    <3>4. CASE j = j0
      <4>1. RefEntry(j0).n # 0
        BY <1>1, <1>9, <2>1 DEF RefInv, RefsLinked
      <4>2. RefBlock(j0) # 0
        <5>1. RefEntry(j0).n \in Nat
          BY AtType DEF IInv, TypeOK, RefEntry, Word
        <5> QED
          BY <3>2, <3>4, <4>1, <5>1 DEF RefBlock, Mask, LowBits
      <4> QED
        BY <1>1, <1>4, <1>7, <2>1, <3>1, <3>2, <3>4, <4>2
    <3> QED
      BY <3>3, <3>4
  <2> QED
    BY <2>1 DEF RefsAgree
<1> QED
  BY <1>8, <1>10, <1>11 DEF RefInv, NewBlock

LEMMA UpdateRefs ==
  ASSUME IInv, RefInv, UpdateRef \/ UpdateRefFails
  PROVE  RefInv'
<1>1. /\ pc = "update_ref" /\ rt[L1Of(Off)] # NoTable /\ PutRefCount
      /\ UNCHANGED <<handle, base>> /\ pc' \in {"idle", "lookup"}
  BY DEF UpdateRef, UpdateRefFails, NextCluster, ReturnOk, EmptyFrame
<1>2. CASE UpdateRef
  <2>1. faults' = faults
    BY <1>2 DEF UpdateRef, counters
  <2>2. \/ RefsKept /\ LowBits(RefEntry(L1Of(Off)).n) # 0
        \/ /\ LowBits(RefEntry(L1Of(Off)).n) = 0
           /\ PutWord(RefEntry(L1Of(Off)).n + L2Of(Off), One)
    BY <1>2, FileKept, ReadsKept DEF UpdateRef, IInv, TypeOK
  <2> QED
    BY <1>1, <2>1, <2>2, CountedRefs
<1>3. CASE UpdateRefFails
  <2>1. RefsKept
    BY <1>3, FileKept, ReadsKept DEF UpdateRefFails, IInv, TypeOK
  <2> QED
    BY <1>1, <1>3, <2>1, CountedRefs DEF UpdateRefFails, CanFail
<1> QED
  BY <1>2, <1>3

(* The data is lost, and the refcount counted in memory or not at all.     *)
LEMMA FlushDataRefs ==
  ASSUME IInv, RefInv, FlushDataFails
  PROVE  RefInv'
<1>1. /\ pc = "write_data" /\ pc' \in {"idle", "lookup"} /\ UNCHANGED <<handle, base>>
      /\ faults' = faults + 1
  BY DEF FlushDataFails, NextCluster, ReturnOk, EmptyFrame, CanFail
<1>2. RefsKept
  <2>1. 0 .. Chunk - 1 \subseteq 0 .. Chunk
    BY OffType DEF IInv, TypeOK
  <2> QED
    BY <1>1, <2>1, DataRefs DEF FlushDataFails, PartOfData
<1>3. CASE rt[L1Of(Off)] = NoTable
  BY <1>1, <1>2, <1>3, RefsStay DEF FlushDataFails
<1>4. CASE rt[L1Of(Off)] # NoTable
  BY <1>1, <1>2, <1>4, CountedRefs DEF FlushDataFails
<1> QED
  BY <1>3, <1>4

(* A block that the refcount table of the file did not get.                *)
LEMMA UnlinkedRefs ==
  ASSUME IInv, RefInv, pc = "link_ref", pc' \in {"idle", "lookup"}, UNCHANGED <<handle, base>>,
         UNCHANGED file, faults' = faults + 1,
         rt' = [rt EXCEPT ![L1Of(Off)] = [[k \in Slots |-> Zero] EXCEPT ![L2Of(Off)] = One]]
  PROVE  RefInv'
<1>1. PICK j0 \in RefIndex : j0 = L1Of(Off)
  BY DEF IInv, IndexChecked, AfterLookup
<1>2. RefsKept
  BY FileKept, ReadsKept DEF IInv, TypeOK
<1>3. rt \in [RefIndex -> Table \cup {NoTable}]
  BY DEF IInv, TypeOK, ContextOK
<1>4. \A j \in RefIndex : j # j0 => rt'[j] = rt[j]
  BY <1>1, <1>3
<1>5. ASSUME handle = "open", NEW j \in RefIndex, NEW k \in Slots, RefCountOnDisk(j, k)'.n # 0
      PROVE  rt'[j] # NoTable /\ rt'[j][k].n # 0
  <2>1. rt[j] # NoTable /\ rt[j][k].n # 0
    BY <1>2, <1>5 DEF RefInv, RefsRemembered, RefsKept
  <2>2. j # j0
    BY <1>1, <2>1 DEF RefInv, NewBlock
  <2> QED
    BY <1>4, <2>1, <2>2
<1>6. faults' # 0
  BY DEF IInv, TypeOK, CallsOK
<1> QED
  BY <1>5, <1>6 DEF RefInv, NewBlock, RefsRemembered, RefsLinked, RefsAgree

LEMMA FailedRefs ==
  ASSUME IInv, RefInv, ExtendFails \/ ExtendFailsMapped \/ ExtendRefFails \/ LinkRefFails
  PROVE  RefInv'
<1>1. UNCHANGED <<handle, base>> /\ pc' \in {"idle", "lookup"} /\ faults' = faults + 1
  BY DEF ExtendFails, ExtendFailsMapped, ExtendRefFails, LinkRefFails, NextCluster, ReturnOk,
         ReturnError, EmptyFrame, context, CanFail
<1>2. CASE LinkRefFails /\ UNCHANGED file
  <2>1. RefsKept
    BY <1>2, FileKept, ReadsKept DEF IInv, TypeOK
  <2>2. CASE UNCHANGED rt
    BY <1>1, <2>1, <2>2, RefsStay
  <2>3. CASE ~UNCHANGED rt
    BY <1>1, <1>2, <2>3, UnlinkedRefs DEF LinkRefFails
  <2> QED
    BY <2>2, <2>3
<1>3. CASE ExtendFails \/ ExtendFailsMapped \/ ExtendRefFails
  <2>1. PICK end \in eof .. ExtendedEof - 1 : ZeroTo(end)
    BY <1>3 DEF ExtendFails, ExtendFailsMapped, ExtendRefFails, PartOfZeros
  <2>2. end \in Nat /\ end >= eof
    BY <2>1, ExtendedEofRange DEF IInv, TypeOK, FileOK, ContextOK
  <2>3. RefsKept
    BY <2>1, <2>2, ExtensionKept, ReadsKept DEF IInv, TypeOK
  <2>4. UNCHANGED rt
    BY <1>3 DEF ExtendFails, ExtendFailsMapped, ExtendRefFails, context
  <2> QED
    BY <1>1, <2>3, <2>4, RefsStay
<1>4. CASE LinkRefFails /\ ~UNCHANGED file
  <2>1. /\ pc = "link_ref" /\ PutWord(RefTableOff + L1Of(Off), [n |-> pos, copied |-> FALSE])
        /\ UNCHANGED rt
    BY <1>4 DEF LinkRefFails
  <2>2. \A j \in RefIndex, k \in Slots :
          RefCountOnDisk(j, k)' = IF j = L1Of(Off) THEN Zero ELSE RefCountOnDisk(j, k)
    BY <2>1, LinkedBlocks
  <2>3. RefsRemembered'
    BY <1>1, <2>1, <2>2 DEF RefInv, RefsRemembered, Zero
  <2>4. faults' # 0
    BY <1>1 DEF IInv, TypeOK, CallsOK
  <2> QED
    BY <1>1, <2>3, <2>4 DEF RefInv, NewBlock, RefsLinked, RefsAgree
<1> QED
  BY <1>2, <1>3, <1>4

(* The refcount that the buffer loses is one in memory.                    *)
LEMMA LoseCounts ==
  ASSUME IInv, Lose
  PROVE  \A j \in RefIndex, k \in Slots :
           \/ RefCountOnDisk(j, k)' = RefCountOnDisk(j, k)
           \/ <<j, k>> = <<late.of[1], late.of[2]>> /\ RefCountOnDisk(j, k).n # 0
<1>1. PICK j0 \in RefIndex, k0 \in Slots :
        /\ j0 = late.of[1] /\ k0 = late.of[2]
        /\ LowBits(RefEntry(j0).n) = 0 /\ late.at = RefEntry(j0).n + k0 /\ At(late.at) = One
  BY DEF Lose, IInv, LateCounted, RefCountPlace
<1>2. PICK c \in Nat : c = RefEntry(j0).n
  BY AtType DEF IInv, TypeOK, RefEntry, Word
<1>3. c = RefBlock(j0)
  BY <1>1, <1>2 DEF LowBits, RefBlock, Mask
<1>4. PICK a \in Nat : a = c + k0 /\ c <= a /\ a < c + ClusterSize
  BY SizesAssumption DEF Slots
<1>5. \A x \in Nat : x # a => At(x)' = At(x)
  BY <1>1, <1>2, <1>4, LoseReads
<1>6. \A j \in RefIndex : RefEntry(j)' = RefEntry(j)
  BY LoseKept DEF EntriesKept
<1>7. PICK q \in Owners : q = <<"ref", j0, 0>>
  BY OwnerKinds
<1>8. c = 0 \/ Claimed(q, c)
  BY <1>3, <1>7, PlaceOfKind DEF Claimed
<1>9. ASSUME NEW j \in RefIndex, NEW k \in Slots, j # j0 \/ k # k0 \/ c = 0
      PROVE  RefCountOnDisk(j, k)' = RefCountOnDisk(j, k)
  <2>1. ASSUME NEW x \in Nat, RefBlock(j) # 0, x = RefBlock(j) + k
        PROVE  At(x)' = At(x)
    <3>1. RefBlock(j) \in Nat /\ RefBlock(j) <= x /\ x < RefBlock(j) + ClusterSize
      BY <2>1, PlaceType, SizesAssumption DEF IInv, TypeOK, Slots
    <3>2. CASE j = j0
      BY <1>3, <1>4, <1>5, <1>9, <2>1, <3>2 DEF Slots
    <3>3. CASE j # j0
      <4>1. PICK o \in Owners : o = <<"ref", j, 0>> /\ Claimed(o, RefBlock(j))
        BY <2>1, BlockClaimed DEF IInv, TypeOK
      <4>2. o # q
        BY <1>7, <3>3, <4>1
      <4>3. \A y \in Nat : ~(c <= y /\ y < c + ClusterSize) => At(y)' = At(y)
        BY <1>4, <1>5
      <4> QED
        BY <1>8, <3>1, <4>1, <4>2, <4>3, ClusterKept
    <3> QED
      BY <3>2, <3>3
  <2> QED
    BY <1>6, <2>1, RefCountKept DEF IInv, TypeOK
<1>10. c # 0 => RefCountOnDisk(j0, k0).n # 0
  BY <1>1, <1>2, <1>3 DEF RefCountOnDisk, One
<1> QED
  BY <1>1, <1>9, <1>10

LEMMA FlushFailsRefs ==
  ASSUME IInv, RefInv, FlushFails
  PROVE  RefInv'
<1>1. /\ Lose /\ faults' = faults + 1 /\ pc' # "link_ref" /\ UNCHANGED <<handle, base, rt>>
  BY DEF FlushFails, CanFail, Continue, ReturnError, EmptyFrame, context
<1>2. RefsRemembered'
  BY <1>1, LoseCounts DEF RefInv, RefsRemembered
<1>3. faults' # 0
  BY <1>1 DEF IInv, TypeOK, CallsOK
<1> QED
  BY <1>1, <1>2, <1>3 DEF RefInv, NewBlock, RefsLinked, RefsAgree

LEMMA RefStep ==
  ASSUME IInv, MapInv, RefInv, [Next]_vars
  PROVE  RefInv'
<1>1. CASE Crash \/ CloseFails
  <2>1. pc' = "idle"
    BY <1>1 DEF Crash, CloseFails, EmptyFrame
  <2> QED
    BY <1>1, <2>1, ReleaseRefs DEF Crash, CloseFails
<1> QED
  BY <1>1, SessionRefs, LookupRefs, ExtendRefs, MappingRefs, WriteDataRefs, LinkRefRefs,
     UpdateRefs, FlushDataRefs, FailedRefs, FlushFailsRefs
     DEF Next, Step, Failure

LEMMA RefInit ==
  ASSUME Init
  PROVE  RefInv
  BY DEF Init, RefInv, NewBlock, RefsRemembered, RefsLinked, RefsAgree

SoundRefs == SoundMap /\ Counters /\ (~retried => RefInv)

LEMMA SoundRefsStep ==
  ASSUME SoundRefs, [Next]_vars
  PROVE  SoundRefs'
<1>1. SoundMap'
  BY SoundMapStep DEF SoundRefs
<1>2. Counters'
  BY CountersStep DEF SoundRefs, SoundMap, SoundClaims
<1>3. ~retried' => ~retried
  BY RetriedStays DEF SoundRefs, SoundMap, SoundClaims
<1>4. ~retried' => RefInv'
  BY <1>3, RefStep DEF SoundRefs, SoundMap, SoundClaims
<1> QED
  BY <1>1, <1>2, <1>4 DEF SoundRefs

(* As long as no write failed, and wherever the process stopped before,    *)
(* between two calls of a session that began on a file of whole sectors    *)
(* the refcounts of the context are those of the file: update_ref_cnt and  *)
(* allocate_ref_cnt_table change both or neither.                          *)
THEOREM RefCountsAlways == Spec => []RefCountsCoherent
<1>1. Init => SoundRefs
  BY InitClaims, MapInit, RefInit, CountersInit
     DEF SoundRefs, SoundMap, SoundClaims, IInv
<1>2. SoundRefs /\ [Next]_vars => SoundRefs'
  BY SoundRefsStep
<1>3. SoundRefs => RefCountsCoherent
  <2>1. SoundRefs /\ faults = 0 => RefInv
    BY NothingRetried DEF SoundRefs, SoundMap, SoundClaims
  <2> QED
    BY <2>1 DEF RefInv, RefsLinked, RefsAgree, RefCountsCoherent
<1> QED
  BY <1>1, <1>2, <1>3, PTL DEF Spec

-----------------------------------------------------------------------------
(* What is linked stays linked.                                            *)

LinksStay == \A o \in Live : Place(o)' = Place(o)

LEMMA LinksOfEntries ==
  ASSUME EntriesKept
  PROVE  LinksStay
  BY PlacesOfEntries DEF Live, LinksStay

(* An owner is one of the three kinds of entries.                          *)
LEMMA LinksOfKinds ==
  ASSUME \A i \in L1Index : L2Table(i) # 0 => L2Table(i)' = L2Table(i),
         \A j \in RefIndex : RefBlock(j) # 0 => RefBlock(j)' = RefBlock(j),
         \A i \in L1Index, k \in Slots :
           Mask(L2Entry(i, k).n) # 0 => Mask(L2Entry(i, k).n)' = Mask(L2Entry(i, k).n)
  PROVE  LinksStay
<1>1. ASSUME NEW o \in Owners, Place(o) # 0
      PROVE  Place(o)' = Place(o)
  <2>1. CASE \E i \in L1Index : o = <<"l2", i, 0>>
    <3>1. PICK i \in L1Index : o = <<"l2", i, 0>>
      BY <2>1
    <3> QED
      BY <1>1, <3>1 DEF Place
  <2>2. CASE \E j \in RefIndex : o = <<"ref", j, 0>>
    <3>1. PICK j \in RefIndex : o = <<"ref", j, 0>>
      BY <2>2
    <3> QED
      BY <1>1, <3>1 DEF Place
  <2>3. CASE \E i \in L1Index, k \in Slots : o = <<"data", i, k>>
    <3>1. PICK i \in L1Index, k \in Slots : o = <<"data", i, k>>
      BY <2>3
    <3>2. Place(o) = Mask(L2Entry(i, k).n) /\ Place(o)' = Mask(L2Entry(i, k).n)'
      BY <3>1 DEF Place
    <3> QED
      BY <1>1, <3>2
  <2> QED
    BY <1>1, <2>1, <2>2, <2>3, OwnerKinds
<1> QED
  BY <1>1 DEF Live, LinksStay

(* An entry of the L1 table is linked only where there is none, and so is  *)
(* one of the refcount table; an entry of an L2 table keeps its cluster.   *)
LEMMA L2LinksStay ==
  ASSUME IInv, MapInv, faults = 0, pc = "link_l2",
         PutWord(L1Off + L1Of(Off), [n |-> pos, copied |-> FALSE])
  PROVE  LinksStay
<1>1. PICK i0 \in L1Index : i0 = L1Of(Off)
  BY DEF IInv, IndexChecked, AfterLookup
<1>2. L2Table(i0) = 0
  BY <1>1 DEF MapInv, InSession, TablesCoherent, Reported, TablesAgree, NewTable
<1>3. \A k \in Slots : Mask(L2Entry(i0, k).n) = 0
  BY <1>2, MaskOfZero DEF L2Entry
<1>4. /\ \A i \in L1Index : i # i0 => L2Table(i)' = L2Table(i)
      /\ \A j \in RefIndex : RefEntry(j)' = RefEntry(j)
      /\ \A i \in L1Index, k \in Slots : i # i0 => L2Entry(i, k)' = L2Entry(i, k)
  BY <1>1, LinkedL2Entries
<1>5. /\ \A j \in RefIndex : RefBlock(j)' = RefBlock(j)
      /\ \A i \in L1Index, k \in Slots : i # i0 => Mask(L2Entry(i, k).n)' = Mask(L2Entry(i, k).n)
  BY <1>4 DEF RefBlock, Mask
<1> QED
  BY <1>2, <1>3, <1>4, <1>5, LinksOfKinds, Zenon

LEMMA RefLinksStay ==
  ASSUME IInv, MapInv, RefInv, faults = 0, pc = "link_ref",
         PutWord(RefTableOff + L1Of(Off), [n |-> pos, copied |-> FALSE])
  PROVE  LinksStay
<1>1. PICK j0 \in RefIndex : j0 = L1Of(Off)
  BY DEF IInv, IndexChecked, AfterLookup
<1>2. RefEntry(j0).n = 0
  BY <1>1 DEF MapInv, InSession, RefInv, RefsLinked, NewBlock
<1>3. RefBlock(j0) = 0
  BY <1>2, MaskOfZero DEF RefBlock
<1>4. /\ \A i \in L1Index : L2Table(i)' = L2Table(i)
      /\ \A j \in RefIndex : j # j0 => RefEntry(j)' = RefEntry(j)
      /\ \A i \in L1Index, k \in Slots : L2Entry(i, k)' = L2Entry(i, k)
  BY <1>1, LinkedRefEntries
<1>5. /\ \A j \in RefIndex : j # j0 => RefBlock(j)' = RefBlock(j)
      /\ \A i \in L1Index, k \in Slots : Mask(L2Entry(i, k).n)' = Mask(L2Entry(i, k).n)
  BY <1>4 DEF RefBlock, Mask
<1> QED
  BY <1>3, <1>4, <1>5, LinksOfKinds, Zenon

LEMMA DataLinksStay ==
  ASSUME IInv, MapInv, faults = 0, SetEntry
  PROVE  LinksStay
<1>1. pc = "set_entry" /\ PutWord(L2Table(L1Of(Off)) + L2Of(Off), entry)
  BY DEF SetEntry
<1>2. Mask(Here.n) \in {0, Mask(entry.n)}
  BY <1>1 DEF MapInv, EntryFits, Reported
<1>3. /\ \A i \in L1Index : L2Table(i)' = L2Table(i)
      /\ \A j \in RefIndex : RefEntry(j)' = RefEntry(j)
      /\ \A i \in L1Index, k \in Slots :
           L2Entry(i, k)' = IF i = L1Of(Off) /\ k = L2Of(Off) /\ L2Table(i) # 0
                            THEN entry ELSE L2Entry(i, k)
  BY <1>1, MappedEntries
<1>4. \A j \in RefIndex : RefBlock(j)' = RefBlock(j)
  BY <1>3 DEF RefBlock, Mask
<1>5. ASSUME NEW i \in L1Index, NEW k \in Slots, Mask(L2Entry(i, k).n) # 0
      PROVE  Mask(L2Entry(i, k).n)' = Mask(L2Entry(i, k).n)
  <2>1. Mask(L2Entry(i, k).n)' = Mask(L2Entry(i, k)'.n)
    BY DEF Mask
  <2>2. CASE i = L1Of(Off) /\ k = L2Of(Off) /\ L2Table(i) # 0
    BY <1>2, <1>3, <1>5, <2>1, <2>2 DEF Here
  <2>3. CASE ~(i = L1Of(Off) /\ k = L2Of(Off) /\ L2Table(i) # 0)
    BY <1>3, <2>1, <2>3
  <2> QED
    BY <2>2, <2>3
<1> QED
  BY <1>3, <1>4, <1>5, LinksOfKinds

LEMMA EntriesOfKill ==
  ASSUME IInv, Crash \/ CloseFails
  PROVE  EntriesKept
<1>1. CASE Lose
  BY <1>1, LoseKept
<1>2. CASE KilledFile
  BY <1>2, KilledFileKept
<1> QED
  BY <1>1, <1>2 DEF Crash, CloseFails

(* All steps but three leave the entries of the file.                      *)
LEMMA EntriesStep ==
  ASSUME IInv, MapInv, [Next]_vars
  PROVE  \/ EntriesKept
         \/ SetEntry
         \/ pc = "link_l2" /\ PutWord(L1Off + L1Of(Off), [n |-> pos, copied |-> FALSE])
         \/ pc = "link_ref" /\ PutWord(RefTableOff + L1Of(Off), [n |-> pos, copied |-> FALSE])
<1>1. CASE UNCHANGED file
  BY <1>1, FileKept DEF IInv, TypeOK
<1>2. CASE ExtendData \/ ExtendL2 \/ ExtendRef
  <2>1. ZeroTo(ExtendedEof) /\ ExtendedEof \in Nat /\ ExtendedEof >= eof
    BY <1>2, ExtendedEofRange, SizesAssumption
       DEF ExtendData, ExtendL2, ExtendRef, IInv, TypeOK, FileOK, ContextOK
  <2> QED
    BY <2>1, ExtensionKept
<1>3. CASE ExtendFails \/ ExtendFailsMapped \/ ExtendRefFails
  BY <1>3, PartOfZerosKept DEF ExtendFails, ExtendFailsMapped, ExtendRefFails
<1>4. CASE SetEntry
  BY <1>4
<1>5. CASE (LinkL2 \/ LinkL2Fails) /\ ~UNCHANGED file
  BY <1>5 DEF LinkL2, LinkL2Fails
<1>6. CASE (LinkRef \/ LinkRefFails) /\ ~UNCHANGED file
  BY <1>6 DEF LinkRef, LinkRefFails
<1>7. CASE WriteData
  <2>1. Chunk \in 0 .. Chunk
    BY OffType DEF IInv, TypeOK
  <2> QED
    BY <1>7, <2>1, DataWritten DEF WriteData
<1>8. CASE WriteDataFails \/ FlushDataFails
  BY <1>8, PartOfDataWritten DEF WriteDataFails, FlushDataFails
<1>9. CASE UpdateRef /\ ~UNCHANGED file
  BY <1>9, RefCountWritten DEF UpdateRef
<1>10. CASE FlushFails
  BY <1>10, LoseKept DEF FlushFails
<1>11. CASE Crash \/ CloseFails
  BY <1>11, EntriesOfKill
<1>12. CASE Open \/ OpenFails \/ Close \/ StartWrite \/ Lookup \/ ReadLinkFails
            \/ SetEntryFails \/ UpdateRefFails \/ UNCHANGED vars
  <2>1. UNCHANGED file
    BY <1>12 DEF Open, OpenFails, Close, StartWrite, Lookup, LookupFails, LookupUnallocated,
                 LookupUnreferenced, LookupInPlace, LookupShared, ReadLinkFails, SetEntryFails,
                 UpdateRefFails, vars, file
  <2> QED
    BY <1>1, <2>1
<1> QED
  BY <1>1, <1>2, <1>3, <1>4, <1>5, <1>6, <1>7, <1>8, <1>9, <1>10, <1>11, <1>12
     DEF Next, Step, Failure

LEMMA LinksStep ==
  ASSUME IInv, MapInv, RefInv, [Next]_vars, faults = 0
  PROVE  LinksStay
  BY EntriesStep, LinksOfEntries, DataLinksStay, L2LinksStay, RefLinksStay

(* A data cluster stays linked as long as memory knows the entries.        *)
LEMMA DataStays ==
  ASSUME IInv, MapInv, [Next]_vars, Reported, SetEntry => Mask(entry.n) # 0
  PROVE  \A i \in L1Index, k \in Slots :
           Mask(L2Entry(i, k).n) # 0 => Mask(L2Entry(i, k).n)' # 0
<1>1. CASE EntriesKept
  BY <1>1 DEF EntriesKept, Mask
<1>2. CASE SetEntry
  <2>1. pc = "set_entry" /\ PutWord(L2Table(L1Of(Off)) + L2Of(Off), entry)
    BY <1>2 DEF SetEntry
  <2>2. \A i \in L1Index, k \in Slots : L2Entry(i, k)' \in {entry, L2Entry(i, k)}
    BY <2>1, MappedEntries
  <2> QED
    BY <1>2, <2>2 DEF Mask
<1>3. CASE pc = "link_l2" /\ PutWord(L1Off + L1Of(Off), [n |-> pos, copied |-> FALSE])
  <2>1. PICK i0 \in L1Index : i0 = L1Of(Off)
    BY <1>3 DEF IInv, IndexChecked, AfterLookup
  <2>2. L2Table(i0) = 0
    BY <1>3, <2>1 DEF MapInv, InSession, TablesCoherent, TablesAgree, NewTable
  <2>3. \A k \in Slots : Mask(L2Entry(i0, k).n) = 0
    BY <2>2, MaskOfZero DEF L2Entry
  <2>4. \A i \in L1Index, k \in Slots : i # i0 => L2Entry(i, k)' = L2Entry(i, k)
    BY <1>3, <2>1, LinkedL2Entries
  <2>5. \A i \in L1Index, k \in Slots : i # i0 => Mask(L2Entry(i, k).n)' = Mask(L2Entry(i, k).n)
    BY <2>4 DEF Mask
  <2> QED
    BY <2>3, <2>5, Zenon
<1>4. CASE pc = "link_ref" /\ PutWord(RefTableOff + L1Of(Off), [n |-> pos, copied |-> FALSE])
  <2>1. \A i \in L1Index, k \in Slots : L2Entry(i, k)' = L2Entry(i, k)
    BY <1>4, LinkedRefEntries
  <2> QED
    BY <2>1 DEF Mask
<1> QED
  BY <1>1, <1>2, <1>3, <1>4, EntriesStep

(* Until a write fails, a table or cluster that the file links stays where *)
(* it is: qwrite puts an entry only where there is none, or the one that   *)
(* was there with its copied flag, in every call of every session and      *)
(* after a crash at any of their writes.                                   *)
THEOREM LinksTheorem == Spec => LinksAreFinal
<1>1. Init => SoundRefs
  BY InitClaims, MapInit, RefInit, CountersInit
     DEF SoundRefs, SoundMap, SoundClaims, IInv
<1>2. SoundRefs /\ [Next]_vars => SoundRefs'
  BY SoundRefsStep
<1>3. SoundRefs /\ [Next]_vars => [faults = 0 => \A o \in Live : Place(o)' = Place(o)]_vars
  <2>1. SoundRefs /\ faults = 0 => IInv /\ MapInv /\ RefInv
    BY NothingRetried DEF SoundRefs, SoundMap, SoundClaims
  <2> QED
    BY <2>1, LinksStep DEF LinksStay
<1> QED
  BY <1>1, <1>2, <1>3, PTL DEF Spec, LinksAreFinal

-----------------------------------------------------------------------------
(* Cluster boundaries.                                                     *)

(* An image whose tables and clusters are on cluster boundaries, as the    *)
(* format requires.                                                        *)
AlignedImage == \A o \in Live : Place(o) % ClusterSize = 0

ClaimsAligned ==
  opens = 0 \/ WholeSession =>
    \A o \in Owners, s \in Nat : Claimed(o, s) => s % ClusterSize = 0

LEMMA MultipleOfMultiple ==
  ASSUME NEW n \in Nat, NEW a \in Nat \ {0}, NEW b \in Nat \ {0}, n % a = 0, a % b = 0
  PROVE  n % b = 0
<1> DEFINE p == n \div a
           q == a \div b
<1>1. p \in Nat /\ n = a * p + (n % a) /\ q \in Nat /\ a = b * q + (a % b)
  BY RemainderRange, Zenon
<1> HIDE DEF p, q
<1>2. a * p \in Nat /\ b * q \in Nat /\ q * p \in Nat
  BY <1>1, ProductNat, Zenon
<1>3. n = a * p /\ a = b * q
  BY <1>1, <1>2
<1>4. (b * q) * p = b * (q * p)
  BY <1>1, SMT
<1>5. n = b * (q * p)
  BY <1>3, <1>4
<1> QED
  BY <1>2, <1>5, MultipleRemainder, Zenon

(* A handle that is open was opened just now, or is the same as before.    *)
LEMMA HandleKept ==
  ASSUME [Next]_vars
  PROVE  /\ handle' = "open" => Open \/ (handle = "open" /\ base' = base /\ opens' = opens)
         /\ opens' = opens \/ (opens' = opens + 1 /\ (Open \/ OpenFails))
<1>1. CASE Open \/ OpenFails
  BY <1>1 DEF Open, OpenFails, context
<1>2. CASE Close \/ CloseFails \/ Crash \/ LookupShared
  BY <1>2 DEF Close, CloseFails, Crash, LookupShared, Release, counters
<1>3. CASE StartWrite \/ (Failure /\ ~CloseFails) \/ (Step /\ ~LookupShared) \/ UNCHANGED vars
  <2>1. UNCHANGED <<handle, base, opens>>
    BY <1>3 DEF StartWrite, Failure, ExtendFails, ExtendFailsMapped, ReadLinkFails, SetEntryFails,
                LinkL2Fails, WriteDataFails, FlushDataFails, ExtendRefFails, LinkRefFails,
                UpdateRefFails, FlushFails, Step, Lookup, LookupFails,
                LookupUnallocated, LookupUnreferenced, LookupInPlace, ExtendData, SetEntry,
                ExtendL2, LinkL2, WriteData, UpdateRef, ExtendRef, LinkRef, context, counters,
                vars
  <2> QED
    BY <2>1
<1> QED
  BY <1>1, <1>2, <1>3 DEF Next, Step, Lookup, Failure

LEMMA AlignedStep ==
  ASSUME IInv, Counters, ClaimsAligned, ~retried', [Next]_vars
  PROVE  ClaimsAligned'
<1>1. ASSUME opens' = 0 \/ WholeSession'
      PROVE  (opens = 0 \/ WholeSession) /\ base % ClusterSize = 0
  <2>1. 0 % ClusterSize = 0
    BY SizesAssumption, SMT
  <2>2. opens' # 0 => opens = 0 \/ opens' = opens \/ opens' > 1
    BY HandleKept DEF IInv, TypeOK, CallsOK
  <2>3. opens' = 0 => opens = 0
    BY HandleKept DEF IInv, TypeOK, CallsOK
  <2>4. opens = 0 => handle = "closed" /\ base = 0
    BY DEF Counters, IInv, TypeOK, CallsOK, ContextOK
  <2>5. CASE opens' = 0
    BY <2>1, <2>3, <2>4, <2>5
  <2>6. CASE WholeSession'
    <3>1. handle' = "open" /\ opens' = 1 /\ base' % ClusterSize = 0
      BY <2>6 DEF WholeSession
    <3>2. CASE opens = 0
      BY <2>1, <2>4, <3>2
    <3>3. CASE opens # 0
      <4>1. opens = 1 /\ ~Open
        BY <2>2, <3>1, <3>3 DEF Open, IInv, TypeOK, CallsOK
      <4> QED
        BY <3>1, <4>1, HandleKept DEF WholeSession
    <3> QED
      BY <3>2, <3>3
  <2> QED
    BY <1>1, <2>5, <2>6
<1>2. ASSUME base % ClusterSize = 0
      PROVE  Mask(ExtendedEof) = ExtendedEof /\ ExtendedEof % ClusterSize = 0
  <2>1. /\ eof \in Nat /\ base \in Nat /\ ExtendedEof \in Nat
        /\ ClusterSize \in Nat \ {0} /\ Sector \in Nat \ {0} /\ ClusterSize % Sector = 0
    BY ExtendedEofRange, SizesAssumption DEF IInv, TypeOK, FileOK, ContextOK
  <2>2. ClusterSize % ClusterSize = 0
    BY <2>1, SMT
  <2>3. ExtendedEof % ClusterSize = 0
    BY <1>2, <2>1, <2>2, ExtendedEofMultiple
  <2>4. ExtendedEof % Sector = 0
    BY <2>1, <2>3, MultipleOfMultiple
  <2> QED
    BY <2>1, <2>3, <2>4 DEF Mask
<1>3. OnlyExtended
  BY StepKeeps
<1>4. ASSUME opens' = 0 \/ WholeSession', NEW o \in Owners, NEW s \in Nat, Claimed(o, s)'
      PROVE  s % ClusterSize = 0
  <2>1. Claimed(o, s) \/ s = ExtendedEof
    BY <1>1, <1>2, <1>3, <1>4 DEF OnlyExtended
  <2> QED
    BY <1>1, <1>2, <1>4, <2>1 DEF ClaimsAligned
<1> QED
  BY <1>4 DEF ClaimsAligned

LEMMA AlignedInit ==
  ASSUME Init
  PROVE  AlignedImage => ClaimsAligned
<1>2. \A o, s : ~HeldByCall(o, s)
  BY DEF Init, HeldByCall
<1>3. ASSUME NEW o, NEW s \in Nat, HeldInMemory(o, s)
      PROVE  s = 0
  BY <1>3 DEF Init, HeldInMemory, MemPlace
<1>4. \A o \in Owners, s \in Nat : Claimed(o, s) => s # 0 /\ s = Place(o)
  BY <1>2, <1>3 DEF Claimed
<1>5. AlignedImage => ClaimsAligned
  BY <1>4 DEF AlignedImage, ClaimsAligned, Live
<1> QED
  BY <1>5

(* On an image whose tables and clusters are on cluster boundaries and     *)
(* whose file has whole clusters, everything that the first session adds   *)
(* is on a cluster boundary too, after any failure but the second write to *)
(* a cluster that only memory maps: the padding of extend_img_file makes   *)
(* up for an extension that was cut short.                                 *)
THEOREM ClustersAlignedTheorem == Spec /\ AlignedImage => []ClustersAligned
<1> DEFINE J == SoundClaims /\ Counters /\ (~retried => ClaimsAligned)
<1>1. Init /\ AlignedImage => J
  BY InitClaims, CountersInit, AlignedInit DEF SoundClaims, IInv
<1>2. J /\ [Next]_vars => J'
  <2> SUFFICES ASSUME J, [Next]_vars
               PROVE  J'
    OBVIOUS
  <2>1. SoundClaims' /\ Counters'
    BY SoundClaimsStep, CountersStep DEF SoundClaims
  <2>2. ~retried' => ~retried
    BY RetriedStays DEF SoundClaims
  <2>3. ~retried' => ClaimsAligned'
    BY <2>2, AlignedStep DEF SoundClaims
  <2> QED
    BY <2>1, <2>3
<1>3. J => ClustersAligned
  <2>1. ASSUME FileOK, ClaimsAligned, WholeSession, NEW o \in Live
        PROVE  Place(o) % ClusterSize = 0
    BY <2>1, PlaceType DEF ClaimsAligned, Claimed, Live
  <2> QED
    BY <2>1 DEF ClustersAligned, SoundClaims, TypeOK
<1> QED
  BY <1>1, <1>2, <1>3, PTL DEF Spec

-----------------------------------------------------------------------------
(* The data.                                                               *)


(* As long as nothing failed, or nothing but what the only session of the  *)
(* file reported and what loses no data: qwrite does not look whether its  *)
(* data was written.                                                       *)
Kept == faults = 0 \/ (~erred /\ opens <= 1 /\ unseen = {})

(* The word o of the cluster of an L2 entry of the file.                   *)
DiskAt(i, k, o) ==
  IF Mask(L2Entry(i, k).n) = 0 THEN Zero ELSE At(Mask(L2Entry(i, k).n) + o)

(* A cluster that the zero flag of its entry makes read as zeros, without  *)
(* a place in the file, is counted or cannot be written.                   *)
ZeroFlagsCounted ==
  \A i \in L1Index, k \in Slots :
    L2Entry(i, k).n # 0 /\ Mask(L2Entry(i, k).n) = 0 =>
      i \notin RefIndex \/ RefCountOnDisk(i, k).n # 0

Holding == {"set_entry", "link_l2", "write_data", "update_ref", "link_ref"}

EntryThere == pc \in Holding => Mask(entry.n) # 0

(* Until its entry is linked, the new cluster reads as what it replaces.   *)
HeldReads ==
  pc \in {"set_entry", "link_l2"} =>
    \A o \in Slots : At(Mask(entry.n) + o) = DiskAt(L1Of(Off), L2Of(Off), o)

(* What the call puts in a guest word.                                     *)
Put(g) == Payload(calls, g - req.off)

InChunk(g, m) == g >= Off /\ g < Off + m

WrittenSoFar ==
  pc # "idle" => \A g \in Guest : g >= req.off /\ g < Off => DiskWord(g) = Put(g)

ChunkWritten ==
  pc \in {"update_ref", "link_ref"} => \A g \in Guest : InChunk(g, Chunk) => DiskWord(g) = Put(g)

PutAllowed == pc # "idle" => \A g \in Guest : Written(g) => Put(g) \in allowed[g]

DataParts ==
  /\ EntryThere /\ HeldReads
  /\ WrittenSoFar /\ ChunkWritten /\ PutAllowed
  /\ DataOnDisk

(* The refcount in the buffer is that of a cluster with a place.           *)
LateMapped ==
  Buffered =>
    \A i \in L1Index, k \in Slots :
      i = late.of[1] /\ k = late.of[2] => Mask(L2Entry(i, k).n) # 0

DataInv == Kept => ZeroFlagsCounted /\ LateMapped /\ DataParts

-----------------------------------------------------------------------------
(* Guest addresses.                                                        *)

LEMMA DivisionUnique ==
  ASSUME NEW b \in Nat \ {0}, NEW q \in Nat, NEW r \in 0 .. b - 1
  PROVE  (b * q + r) \div b = q /\ (b * q + r) % b = r
<1>1. PICK n \in Nat : n = b * q + r
  <2>1. b * q \in Nat
    BY ProductNat, Zenon
  <2> QED
    BY <2>1
<1> DEFINE p == n \div b
           s == n % b
<1>2. p \in Nat /\ s \in 0 .. b - 1 /\ n = b * p + s
  BY RemainderRange, Zenon
<1> HIDE DEF p, s
<1>3. p = q
  BY <1>1, <1>2, QuotientOrder
<1>4. s = r
  <2>1. PICK t \in Int : t = b * q
    BY SMT
  <2>2. t + r = t + s
    BY <1>1, <1>2, <1>3, <2>1
  <2> QED
    BY <1>2, <2>2
<1> QED
  BY <1>1, <1>3, <1>4 DEF p, s

(* A guest word is in the cluster that its L1 and L2 indexes name.         *)
LEMMA GuestSplit ==
  ASSUME NEW g \in Nat
  PROVE  /\ L1Of(g) \in Nat /\ L2Of(g) \in Slots /\ g % ClusterSize \in Slots
         /\ ClusterOf(g) \in Nat
         /\ ClusterOf(g) = ClusterSize * L1Of(g) + L2Of(g)
         /\ g = ClusterSize * ClusterOf(g) + (g % ClusterSize)
<1>1. ClusterSize \in Nat \ {0}
  BY SizesAssumption
<1>2. /\ ClusterOf(g) \in Nat
      /\ g = ClusterSize * ClusterOf(g) + (g % ClusterSize)
  BY <1>1, RemainderRange, Zenon DEF ClusterOf
<1>3. ClusterOf(g) = ClusterSize * L1Of(g) + L2Of(g)
  BY <1>1, <1>2, RemainderRange, Zenon DEF L1Of, L2Of
<1> QED
  BY <1>2, <1>3, IndexRange

LEMMA GuestIndex ==
  ASSUME NEW g \in Guest
  PROVE  g \in Nat /\ L1Of(g) \in L1Index /\ L2Of(g) \in Slots /\ g % ClusterSize \in Slots
<1>1. ClusterSize \in Nat \ {0} /\ L1Size \in Nat
  BY SizesAssumption
<1>2. g \in Nat /\ g < GuestWords
  <2>1. L1Size * ClusterSize \in Nat
    BY <1>1, ProductNat, Zenon
  <2>2. GuestWords \in Nat
    BY <1>1, <2>1, ProductNat, Zenon DEF GuestWords
  <2> QED
    BY <2>2 DEF Guest
<1> DEFINE c == ClusterOf(g)
           i == L1Of(g)
<1>3. /\ c \in Nat /\ i \in Nat /\ g % ClusterSize \in Slots /\ L2Of(g) \in Slots
      /\ c = ClusterSize * i + L2Of(g) /\ g = ClusterSize * c + (g % ClusterSize)
  BY <1>2, GuestSplit
<1> HIDE DEF c, i
<1>4. PICK s \in Slots, t \in Slots : s = L2Of(g) /\ t = g % ClusterSize
  BY <1>3
<1>5. PICK w \in Nat : w = L1Size * ClusterSize
  BY <1>1, ProductNat, Zenon
<1>6. GuestWords = ClusterSize * w
  BY <1>1, <1>5, SMT DEF GuestWords
<1>7. c < w
  <2>1. ClusterSize * c \in Nat /\ ClusterSize * w \in Nat
    BY <1>1, <1>3, <1>5, ProductNat, Zenon
  <2>2. ClusterSize * c < ClusterSize * w
    BY <1>2, <1>3, <1>4, <1>6, <2>1 DEF Slots
  <2> QED
    BY <1>1, <1>3, <1>5, <2>2, ProductMonotone
<1>8. i < L1Size
  <2>1. ClusterSize * i \in Nat /\ ClusterSize * L1Size = w
    BY <1>1, <1>3, <1>5, ProductNat, SMT
  <2>2. ClusterSize * i < ClusterSize * L1Size
    BY <1>3, <1>4, <1>5, <1>7, <2>1 DEF Slots
  <2> QED
    BY <1>1, <1>3, <2>2, ProductMonotone
<1>9. i \in L1Index
  BY <1>1, <1>3, <1>8 DEF L1Index
<1>10. L1Of(g) = i
  BY DEF i
<1> QED
  BY <1>2, <1>3, <1>9, <1>10, Zenon

(* The indexes and the remainder determine the word.                       *)
LEMMA SameCluster ==
  ASSUME NEW g \in Nat, NEW h \in Nat, L1Of(g) = L1Of(h), L2Of(g) = L2Of(h)
  PROVE  g - (g % ClusterSize) = h - (h % ClusterSize)
<1>1. ClusterOf(g) = ClusterOf(h)
  BY GuestSplit, Zenon
<1>2. /\ g = ClusterSize * ClusterOf(g) + (g % ClusterSize)
      /\ h = ClusterSize * ClusterOf(g) + (h % ClusterSize)
      /\ ClusterOf(g) \in Nat /\ g % ClusterSize \in Slots /\ h % ClusterSize \in Slots
  BY <1>1, GuestSplit, Zenon
<1>3. PICK t \in Nat : t = ClusterSize * ClusterOf(g)
  BY <1>2, ProductNat, SizesAssumption, Zenon
<1>4. PICK r \in Slots, s \in Slots : r = g % ClusterSize /\ s = h % ClusterSize
  BY <1>2
<1>5. g = t + r /\ h = t + s
  BY <1>2, <1>3, <1>4
<1> QED
  BY <1>4, <1>5, SizesAssumption DEF Slots

(* A word of the chunk is in the cluster of its first word.                *)
LEMMA ChunkSplit ==
  ASSUME FrameOK, NEW g \in Nat, InChunk(g, Chunk)
  PROVE  /\ L1Of(g) = L1Of(Off) /\ L2Of(g) = L2Of(Off)
         /\ g % ClusterSize = (Off % ClusterSize) + (g - Off)
         /\ Written(g)
<1>1. ClusterSize \in Nat \ {0} /\ Off \in Nat /\ Chunk \in Nat
  BY OffType, SizesAssumption
<1> DEFINE q == ClusterOf(Off)
           r == Off % ClusterSize
<1>2. q \in Nat /\ r \in 0 .. ClusterSize - 1 /\ Off = ClusterSize * q + r
  BY <1>1, GuestSplit DEF Slots
<1> HIDE DEF q
<1>3. Chunk <= ClusterSize - r /\ Chunk <= req.len - done
  <2>1. req.len - done \in Int
    BY DEF FrameOK
  <2>2. Chunk = Smaller(req.len - done, ClusterSize - r)
    BY DEF Chunk
  <2> HIDE DEF r
  <2> QED
    BY <1>1, <1>2, <2>1, <2>2 DEF Smaller
<1> HIDE DEF r
<1>4. g >= Off /\ g < Off + Chunk
  BY DEF InChunk
<1>5. PICK s \in 0 .. ClusterSize - 1 : s = r + (g - Off)
  BY <1>1, <1>2, <1>3, <1>4
<1>6. g = ClusterSize * q + s
  <2>1. PICK t \in Nat : t = ClusterSize * q
    BY <1>1, <1>2, ProductNat, Zenon
  <2> QED
    BY <1>1, <1>2, <1>5, <2>1
<1>7. g \div ClusterSize = q /\ g % ClusterSize = s
  BY <1>1, <1>2, <1>6, DivisionUnique
<1>8. ClusterOf(g) = ClusterOf(Off)
  BY <1>7 DEF ClusterOf, q
<1>9. Written(g)
  BY <1>1, <1>3, <1>4 DEF Written, Off, FrameOK
<1> QED
  BY <1>5, <1>7, <1>8, <1>9 DEF L1Of, L2Of, r

-----------------------------------------------------------------------------
(* The data from one state to the next.                                    *)

DataKept == \A i \in L1Index, k \in Slots, o \in Slots : DiskAt(i, k, o)' = DiskAt(i, k, o)

LEMMA WordsKept ==
  ASSUME DataKept
  PROVE  \A g \in Guest : DiskWord(g)' = DiskWord(g)
<1>1. ASSUME NEW g \in Guest
      PROVE  DiskWord(g)' = DiskWord(g)
  <2>1. PICK i \in L1Index, k \in Slots, o \in Slots :
          i = L1Of(g) /\ k = L2Of(g) /\ o = g % ClusterSize
    BY GuestIndex
  <2>2. DiskWord(g) = DiskAt(i, k, o) /\ DiskWord(g)' = DiskAt(i, k, o)'
    BY <2>1 DEF DiskWord, DiskAt
  <2> QED
    BY <2>2 DEF DataKept
<1> QED
  BY <1>1

LEMMA WordKept ==
  ASSUME FileOK, NEW i \in L1Index, NEW k \in Slots, NEW o \in Slots,
         L2Entry(i, k)' = L2Entry(i, k),
         \A x \in Nat : Mask(L2Entry(i, k).n) # 0 /\ x = Mask(L2Entry(i, k).n) + o => At(x)' = At(x)
  PROVE  DiskAt(i, k, o)' = DiskAt(i, k, o)
<1>1. PICK p \in Nat : p = Mask(L2Entry(i, k).n)
  BY PlaceType
<1>2. Mask(L2Entry(i, k).n)' = p
  BY <1>1 DEF Mask
<1>3. DiskAt(i, k, o) = IF p = 0 THEN Zero ELSE At(p + o)
  BY <1>1 DEF DiskAt
<1>4. DiskAt(i, k, o)' = IF p = 0 THEN Zero ELSE At(p + o)'
  BY <1>2 DEF DiskAt, At, Zero
<1>5. p # 0 => At(p + o)' = At(p + o)
  <2>1. PICK x \in Nat : x = p + o
    BY DEF Slots
  <2>2. p # 0 => At(x)' = At(x)
    BY <1>1, <2>1
  <2> QED
    BY <2>1, <2>2 DEF At
<1> QED
  BY <1>3, <1>4, <1>5

LEMMA DataClaimed ==
  ASSUME FileOK, NEW i \in L1Index, NEW k \in Slots, Mask(L2Entry(i, k).n) # 0
  PROVE  /\ <<"data", i, k>> \in Owners /\ Mask(L2Entry(i, k).n) \in Nat
         /\ Claimed(<<"data", i, k>>, Mask(L2Entry(i, k).n))
  BY OwnerKinds, PlaceOfKind, PlaceType DEF Claimed

LEMMA ReadsData ==
  ASSUME FileOK, EntriesKept, \A x \in Nat : At(x)' = At(x)
  PROVE  DataKept
  BY WordKept DEF EntriesKept, DataKept

(* A write in a cluster of another owner, or in the header.                *)
LEMMA WordKeptByCluster ==
  ASSUME IInv, NEW i \in L1Index, NEW k \in Slots, NEW o \in Slots,
         L2Entry(i, k)' = L2Entry(i, k),
         NEW c \in Nat, NEW q \in Owners, q # <<"data", i, k>>,
         c = 0 \/ Claimed(q, c),
         \A x \in Nat : ~(c <= x /\ x < c + ClusterSize) => At(x)' = At(x)
  PROVE  DiskAt(i, k, o)' = DiskAt(i, k, o)
<1>1. ASSUME NEW x \in Nat, Mask(L2Entry(i, k).n) # 0, x = Mask(L2Entry(i, k).n) + o
      PROVE  At(x)' = At(x)
  <2>1. PICK d \in Owners, s \in Nat :
          d = <<"data", i, k>> /\ s = Mask(L2Entry(i, k).n) /\ Claimed(d, s)
    BY <1>1, DataClaimed DEF IInv, TypeOK
  <2>2. s <= x /\ x < s + ClusterSize
    BY <1>1, <2>1, SizesAssumption DEF Slots
  <2> QED
    BY <2>1, <2>2, ClusterKept
<1> QED
  BY <1>1, WordKept DEF IInv, TypeOK

LEMMA ClusterData ==
  ASSUME IInv, \A i \in L1Index, k \in Slots : L2Entry(i, k)' = L2Entry(i, k),
         NEW c \in Nat, NEW q \in Owners,
         \A i \in L1Index, k \in Slots : q # <<"data", i, k>>,
         c = 0 \/ Claimed(q, c),
         \A x \in Nat : ~(c <= x /\ x < c + ClusterSize) => At(x)' = At(x)
  PROVE  DataKept
  BY WordKeptByCluster DEF DataKept

(* A write in the L1 table or the refcount table.                          *)
LEMMA TableData ==
  ASSUME IInv, \A i \in L1Index, k \in Slots : L2Entry(i, k)' = L2Entry(i, k), NEW a \in Nat,
         \/ L1Off <= a /\ a < L1Off + L1Size
         \/ RefTableOff <= a /\ a < RefTableOff + RefTableSize,
         \A x \in Nat : x # a => At(x)' = At(x)
  PROVE  DataKept
<1>1. ASSUME NEW i \in L1Index, NEW k \in Slots, NEW o \in Slots, NEW x \in Nat,
             Mask(L2Entry(i, k).n) # 0, x = Mask(L2Entry(i, k).n) + o
      PROVE  At(x)' = At(x)
  <2>1. PICK d \in Owners, s \in Nat :
          d = <<"data", i, k>> /\ s = Mask(L2Entry(i, k).n) /\ Claimed(d, s)
    BY <1>1, DataClaimed DEF IInv, TypeOK
  <2>2. s <= x /\ x < s + ClusterSize
    BY <1>1, <2>1, SizesAssumption DEF Slots
  <2> QED
    BY <2>1, <2>2, ClusterKeptByTables
<1> QED
  BY <1>1, WordKept DEF IInv, TypeOK, DataKept

-----------------------------------------------------------------------------
(* The write of the data itself.                                           *)

LEMMA PutDataWords ==
  ASSUME TypeOK, NEW m \in 0 .. Chunk, PutData(m), NEW x \in Nat
  PROVE  At(x)' = IF x >= Mask(entry.n) + (Off % ClusterSize)
                     /\ x < Mask(entry.n) + (Off % ClusterSize) + m
                  THEN Payload(calls, done + (x - (Mask(entry.n) + (Off % ClusterSize))))
                  ELSE At(x)
<1> DEFINE at == Mask(entry.n) + (Off % ClusterSize)
           end == IF m = 0 THEN eof ELSE Larger(eof, at + m)
           w == Payload(calls, done + (x - at))
<1>1. /\ eof' = end
      /\ disk' = [y \in 0 .. end - 1 |->
           IF y >= at /\ y < at + m THEN Payload(calls, done + (y - at)) ELSE At(y)]
  BY DEF PutData
<1>2. at \in Nat /\ m \in Nat /\ eof \in Nat
  <2>1. Mask(entry.n) \in Nat /\ Off % ClusterSize \in Nat /\ Chunk \in Nat
    BY MaskRange, OffType, IndexRange DEF TypeOK, FrameOK, Word, Slots
  <2> QED
    BY <2>1 DEF TypeOK, FileOK
<1> HIDE DEF at
<1>3. end \in Nat /\ end >= eof /\ (m = 0 \/ at + m <= end)
  BY <1>2 DEF Larger
<1>4. At(x)' = IF x \in 0 .. eof' - 1 THEN disk'[x] ELSE Zero
  BY DEF At, Zero
<1>5. x \in 0 .. end - 1 => disk'[x] = IF x >= at /\ x < at + m THEN w ELSE At(x)
  BY <1>1
<1> HIDE DEF end, w
<1>6. x \notin 0 .. end - 1 => At(x) = Zero /\ ~(x >= at /\ x < at + m)
  BY <1>2, <1>3 DEF At
<1>7. At(x)' = IF x >= at /\ x < at + m THEN w ELSE At(x)
  BY <1>1, <1>4, <1>5, <1>6
<1> QED
  BY <1>7 DEF at, w

(* The first m words of the chunk become those of the call, and no other   *)
(* guest word changes.                                                     *)
LEMMA DataPut ==
  ASSUME IInv, Reported, MapInv, pc = "write_data", Mask(entry.n) # 0,
         NEW m \in 0 .. Chunk, PutData(m), NEW g \in Guest
  PROVE  DiskWord(g)' = IF InChunk(g, m) THEN Put(g) ELSE DiskWord(g)
<1>1. PICK i0 \in L1Index, k0 \in Slots : i0 = L1Of(Off) /\ k0 = L2Of(Off)
  BY OffType DEF IInv, TypeOK, IndexChecked, AfterLookup
<1>2. L2Entry(i0, k0) = entry
  BY <1>1 DEF MapInv, EntryFits, Here
<1>3. PICK p \in Nat : p = Mask(entry.n) /\ p # 0
  BY MaskRange DEF IInv, TypeOK, FrameOK, Word
<1>4. PICK q \in Owners : q = <<"data", i0, k0>> /\ Claimed(q, p)
  BY <1>1, <1>3, OwnerKinds DEF Claimed, HeldByCall
<1>5. \A x \in Nat : ~(p <= x /\ x < p + ClusterSize) => At(x)' = At(x)
  BY <1>3, PutDataReads DEF IInv
<1>6. \A i \in L1Index, k \in Slots : L2Entry(i, k)' = L2Entry(i, k)
  BY DataWritten DEF EntriesKept
<1>7. PICK i \in L1Index, k \in Slots, o \in Slots :
        i = L1Of(g) /\ k = L2Of(g) /\ o = g % ClusterSize
  BY GuestIndex
<1>8. /\ DiskWord(g) = DiskAt(i, k, o) /\ DiskWord(g)' = DiskAt(i, k, o)'
  BY <1>7 DEF DiskWord, DiskAt
<1>9. g \in Nat /\ Off \in Nat /\ Chunk \in Nat /\ m \in 0 .. Chunk /\ FrameOK
  BY GuestIndex, OffType DEF IInv, TypeOK
<1>10. InChunk(g, m) => InChunk(g, Chunk)
  BY <1>9 DEF InChunk
<1>11. CASE i # i0 \/ k # k0
  <2>1. DiskAt(i, k, o)' = DiskAt(i, k, o)
    BY <1>4, <1>5, <1>6, <1>11, WordKeptByCluster
  <2>2. ~InChunk(g, m)
    BY <1>1, <1>7, <1>9, <1>10, <1>11, ChunkSplit
  <2> QED
    BY <1>8, <2>1, <2>2
<1>12. CASE i = i0 /\ k = k0
  <2>1. PICK r \in Slots : r = Off % ClusterSize
    BY <1>9, IndexRange
  <2>2. g - o = Off - r
    BY <1>1, <1>7, <1>9, <1>12, <2>1, SameCluster
  <2>3. DiskWord(g) = At(p + o) /\ DiskWord(g)' = At(p + o)'
    <3>1. L2Entry(i, k)' = entry
      BY <1>2, <1>6, <1>12
    <3>2. Mask(L2Entry(i, k).n)' = p
      BY <1>3, <3>1 DEF Mask
    <3> QED
      BY <1>2, <1>3, <1>8, <1>12, <3>2 DEF DiskAt, At
  <2>4. PICK x \in Nat : x = p + o
    BY DEF Slots
  <2>5. At(x)' = IF x >= p + r /\ x < p + r + m
                 THEN Payload(calls, done + (x - (p + r))) ELSE At(x)
    BY <1>3, <2>1, PutDataWords DEF IInv
  <2>6. (x >= p + r /\ x < p + r + m) = InChunk(g, m)
    BY <1>9, <2>1, <2>2, <2>4 DEF InChunk, Slots
  <2>7. done + (x - (p + r)) = g - req.off
    <3>1. done \in Nat /\ req.off \in Nat /\ Off = req.off + done
      BY DEF Off, IInv, TypeOK, FrameOK
    <3> QED
      BY <1>9, <2>1, <2>2, <2>4, <3>1 DEF Slots
  <2>8. At(x)' = At(p + o)' /\ At(x) = At(p + o)
    BY <2>4 DEF At
  <2> QED
    BY <2>3, <2>5, <2>6, <2>7, <2>8 DEF Put
<1> QED
  BY <1>11, <1>12

-----------------------------------------------------------------------------
(* The parts of the invariant over the steps of a call.                    *)

(* What holds of the tables and the claims, as long as no cluster that     *)
(* only memory maps was written to.                                        *)
Sound == IInv /\ MapInv /\ RefInv /\ Counters

LEMMA SoundNow ==
  ASSUME SoundRefs, ~retried
  PROVE  Sound
  BY DEF Sound, SoundRefs, SoundMap, SoundClaims

LEMMA SoundNext ==
  ASSUME SoundRefs', ~retried'
  PROVE  Sound'
  BY DEF Sound, SoundRefs, SoundMap, SoundClaims

LEMMA SoundInit ==
  ASSUME Init
  PROVE  SoundRefs /\ Sound
  BY InitClaims, MapInit, RefInit, CountersInit DEF SoundRefs, SoundMap, SoundClaims, Sound, IInv

RefsGrow ==
  \A j \in RefIndex, k \in Slots : RefCountOnDisk(j, k).n # 0 => RefCountOnDisk(j, k)'.n # 0

LEMMA FlagsStay ==
  ASSUME ZeroFlagsCounted, RefsGrow,
         \A i \in L1Index, k \in Slots :
           \/ L2Entry(i, k)' = L2Entry(i, k)
           \/ L2Entry(i, k)'.n = 0
           \/ Mask(L2Entry(i, k)'.n) # 0
  PROVE  ZeroFlagsCounted'
<1>1. ASSUME NEW i \in L1Index, NEW k \in Slots, L2Entry(i, k)'.n # 0,
             Mask(L2Entry(i, k)'.n) = 0, i \in RefIndex
      PROVE  RefCountOnDisk(i, k)'.n # 0
  <2>1. L2Entry(i, k)' = L2Entry(i, k)
    BY <1>1
  <2>2. RefCountOnDisk(i, k).n # 0
    BY <1>1, <2>1 DEF ZeroFlagsCounted
  <2> QED
    BY <1>1, <2>2 DEF RefsGrow
<1>2. \A i \in L1Index, k \in Slots : Mask(L2Entry(i, k).n)' = Mask(L2Entry(i, k)'.n)
  BY DEF Mask
<1> QED
  BY <1>1, <1>2 DEF ZeroFlagsCounted

LEMMA FlagsStayPut ==
  ASSUME ZeroFlagsCounted, RefsKept, \A i \in L1Index, k \in Slots : L2Entry(i, k)' = L2Entry(i, k)
  PROVE  ZeroFlagsCounted'
<1>1. RefsGrow
  BY DEF RefsKept, RefsGrow
<1> QED
  BY <1>1, FlagsStay

(* What a step may do to the marks of a failure.                           *)
LEMMA ErrorsStay ==
  ASSUME TypeOK, [Next]_vars, ~Open
  PROVE  /\ erred' = erred \/ erred' = TRUE
         /\ faults' = faults \/ faults' = faults + 1
         /\ unseen \subseteq unseen'
<1>1. erred' = erred \/ erred' = TRUE
  BY DEF Next, OpenFails, Close, StartWrite, Crash, Failure, ExtendFails, ExtendFailsMapped,
         ReadLinkFails, SetEntryFails, LinkL2Fails, WriteDataFails, FlushDataFails, ExtendRefFails,
         LinkRefFails, UpdateRefFails, FlushFails, CloseFails,
         Step, Lookup, LookupFails, LookupUnallocated, LookupUnreferenced, LookupInPlace,
         LookupShared, ExtendData, SetEntry, ExtendL2, LinkL2, WriteData, UpdateRef,
         ExtendRef, LinkRef, NextCluster, ReturnOk, ReturnError, Continue, ghosts, vars
<1>2. faults' = faults \/ faults' = faults + 1
  BY DEF Next, OpenFails, Close, StartWrite, Crash, Failure, ExtendFails, ExtendFailsMapped,
         ReadLinkFails, SetEntryFails, LinkL2Fails, WriteDataFails, FlushDataFails, ExtendRefFails,
         LinkRefFails, UpdateRefFails, FlushFails, CloseFails, CanFail,
         Step, Lookup, LookupFails, LookupUnallocated, LookupUnreferenced, LookupInPlace,
         LookupShared, ExtendData, SetEntry, ExtendL2, LinkL2, WriteData, UpdateRef,
         ExtendRef, LinkRef, counters, vars
<1>3. unseen \subseteq unseen'
  BY DEF Next, OpenFails, Close, StartWrite, Crash, Failure, ExtendFails, ExtendFailsMapped,
         ReadLinkFails, SetEntryFails, LinkL2Fails, WriteDataFails, FlushDataFails, ExtendRefFails,
         LinkRefFails, UpdateRefFails, FlushFails, CloseFails,
         Step, Lookup, LookupFails, LookupUnallocated, LookupUnreferenced, LookupInPlace,
         LookupShared, ExtendData, SetEntry, ExtendL2, LinkL2, WriteData, UpdateRef,
         ExtendRef, LinkRef, UseMapped, ghosts, marks, vars
<1> QED
  BY <1>1, <1>2, <1>3

LEMMA KeptBefore ==
  ASSUME TypeOK, Counters, [Next]_vars, Kept'
  PROVE  Kept
<1>1. CASE Open
  <2>1. faults' = faults /\ opens' = opens + 1 /\ opens \in Nat
    BY <1>1 DEF Open, TypeOK, CallsOK
  <2>2. opens' <= 1 => faults = 0
    BY <2>1 DEF Counters
  <2> QED
    BY <2>1, <2>2 DEF Kept
<1>2. CASE ~Open
  <2>1. opens' = opens \/ opens' = opens + 1
    BY HandleKept
  <2>2. /\ erred' = erred \/ erred' = TRUE
        /\ faults' = faults \/ faults' = faults + 1
        /\ unseen \subseteq unseen'
    BY <1>2, ErrorsStay
  <2> QED
    BY <2>1, <2>2 DEF Kept, TypeOK, CallsOK
<1> QED
  BY <1>1, <1>2

LEMMA NoFailure ==
  ASSUME TypeOK, [Next]_vars, faults' = 0
  PROVE  faults = 0 /\ ~Failure
<1>1. ~Failure
  BY DEF Failure, ExtendFails, ExtendFailsMapped, ReadLinkFails, SetEntryFails, LinkL2Fails,
         WriteDataFails, FlushDataFails, ExtendRefFails, LinkRefFails, UpdateRefFails, FlushFails,
         CloseFails, CanFail, TypeOK, CallsOK
<1>2. Open => faults' = faults
  BY DEF Open
<1>3. faults' = faults \/ faults' = faults + 1
  BY <1>2, ErrorsStay
<1> QED
  BY <1>1, <1>3 DEF TypeOK, CallsOK

LEMMA KeptSound ==
  ASSUME SoundRefs, Kept
  PROVE  Sound
<1>1. TypeOK /\ Counters
  BY DEF SoundRefs, SoundMap, SoundClaims
<1>2. ~retried
  BY <1>1 DEF Kept, Counters, TypeOK, CallsOK
<1> QED
  BY <1>2, SoundNow

LEMMA PutSame ==
  ASSUME UNCHANGED <<req, calls>>
  PROVE  \A g : Put(g)' = Put(g)
  BY DEF Put, Payload

(* A step within an iteration of the loop.                                 *)
LEMMA IterationGoesOn ==
  ASSUME DataInv, Kept, DataKept, pc # "idle", UNCHANGED <<req, done, calls, allowed>>,
         pc' \in {"update_ref", "link_ref"} => pc \in {"update_ref", "link_ref"}
  PROVE  (WrittenSoFar /\ ChunkWritten /\ PutAllowed /\ DataOnDisk)'
<1>1. \A g : Put(g)' = Put(g)
  BY PutSame
<1>2. Off' = Off
  BY OffKept
<1>3. Chunk' = Chunk
  BY <1>2 DEF Chunk, Smaller
<1>4. \A g \in Guest : DiskWord(g)' = DiskWord(g)
  BY WordsKept
<1>5. WrittenSoFar'
  BY <1>1, <1>2, <1>4 DEF DataInv, DataParts, WrittenSoFar
<1>6. ChunkWritten'
  BY <1>1, <1>2, <1>3, <1>4 DEF DataInv, DataParts, ChunkWritten, InChunk
<1>7. PutAllowed'
  BY <1>1 DEF DataInv, DataParts, PutAllowed, Written
<1>8. DataOnDisk'
  BY <1>4 DEF DataInv, DataParts, DataOnDisk
<1> QED
  BY <1>5, <1>6, <1>7, <1>8

(* A call that stops, with or without an error.                            *)
LEMMA CallStops ==
  ASSUME DataInv, Kept, DataKept, pc' = "idle", allowed' = allowed
  PROVE  DataParts'
<1>1. DataOnDisk'
  BY WordsKept DEF DataInv, DataParts, DataOnDisk
<1> QED
  BY <1>1 DEF DataParts, EntryThere, Holding, HeldReads, WrittenSoFar, ChunkWritten, PutAllowed

(* The cluster of the call reads the same.                                 *)
LEMMA ReadsHere ==
  ASSUME IInv, DataKept, UNCHANGED <<req, done>>, pc \in AfterLookup, NEW o \in Slots
  PROVE  DiskAt(L1Of(Off), L2Of(Off), o)' = DiskAt(L1Of(Off), L2Of(Off), o)
<1>1. PICK i0 \in L1Index, k0 \in Slots : i0 = L1Of(Off) /\ k0 = L2Of(Off)
  BY OffType DEF IInv, TypeOK, IndexChecked
<1>2. L1Of(Off)' = i0 /\ L2Of(Off)' = k0
  BY <1>1, OffKept
<1>3. DiskAt(L1Of(Off), L2Of(Off), o)' = DiskAt(i0, k0, o)'
  BY <1>2 DEF DiskAt, L2Entry, L2Table, Mask, L1Entry, At, Zero
<1> QED
  BY <1>1, <1>3 DEF DataKept

(* The end of an iteration: all is written that the call was to write      *)
(* until here, and all of it when the call returns.                        *)
LEMMA IterationEnds ==
  ASSUME IInv, DataInv, Kept, DataKept, pc \in {"update_ref", "link_ref"}, NextCluster,
         UNCHANGED <<req, calls>>
  PROVE  DataParts'
<1>1. \A g : Put(g)' = Put(g)
  BY PutSame
<1>2. \A g \in Guest : DiskWord(g)' = DiskWord(g)
  BY WordsKept
<1>3. /\ Off \in Nat /\ Chunk \in Nat /\ done \in Nat /\ req.off \in Nat /\ req.len \in Nat
      /\ Off = req.off + done
  BY OffType DEF IInv, TypeOK, FrameOK, Off
<1>4. \A g \in Guest : g >= req.off /\ g < Off + Chunk => DiskWord(g) = Put(g)
  <2>1. ASSUME NEW g \in Guest, g >= req.off, g < Off + Chunk
        PROVE  DiskWord(g) = Put(g)
    <3>1. g < Off \/ InChunk(g, Chunk)
      BY <1>3, <2>1, GuestIndex DEF InChunk
    <3> QED
      BY <2>1, <3>1 DEF DataInv, DataParts, WrittenSoFar, ChunkWritten
  <2> QED
    BY <2>1
<1>5. pc' \in {"idle", "lookup"}
  BY DEF NextCluster, ReturnOk, EmptyFrame
<1>6. (EntryThere /\ HeldReads /\ ChunkWritten)'
  BY <1>5 DEF EntryThere, Holding, HeldReads, ChunkWritten
<1>7. CASE done + Chunk = req.len /\ ReturnOk
  <2>1. pc' = "idle" /\ allowed' = [g \in Guest |->
            IF Written(g) THEN {Payload(calls, g - req.off)} ELSE allowed[g]]
    BY <1>7 DEF ReturnOk, EmptyFrame
  <2>2. ASSUME NEW g \in Guest
        PROVE  DiskWord(g) \in allowed'[g]
    <3>1. CASE Written(g)
      <4>1. g < Off + Chunk /\ g >= req.off
        BY <1>3, <1>7, <3>1, GuestIndex DEF Written
      <4> QED
        BY <1>4, <2>1, <3>1, <4>1 DEF Put
    <3>2. CASE ~Written(g)
      BY <2>1, <3>2 DEF DataInv, DataParts, DataOnDisk
    <3> QED
      BY <3>1, <3>2
  <2>3. DataOnDisk'
    BY <1>2, <2>2 DEF DataOnDisk
  <2> QED
    BY <1>6, <2>1, <2>3 DEF DataParts, WrittenSoFar, PutAllowed
<1>8. CASE pc' = "lookup" /\ done' = done + Chunk /\ allowed' = allowed
  <2>1. Off' = Off + Chunk
    <3>1. Off' = req.off + done'
      BY DEF Off
    <3> QED
      BY <1>3, <1>8, <3>1
  <2>2. WrittenSoFar'
    BY <1>1, <1>2, <1>4, <2>1 DEF WrittenSoFar
  <2>3. PutAllowed'
    BY <1>1, <1>8 DEF DataInv, DataParts, PutAllowed, Written
  <2>4. DataOnDisk'
    BY <1>2, <1>8 DEF DataInv, DataParts, DataOnDisk
  <2> QED
    BY <1>6, <2>2, <2>3, <2>4 DEF DataParts
<1> QED
  BY <1>7, <1>8 DEF NextCluster

-----------------------------------------------------------------------------
(* The steps.                                                              *)

LEMMA SessionData ==
  ASSUME Sound, DataInv, Kept, Open \/ OpenFails \/ Close
  PROVE  (ZeroFlagsCounted /\ DataParts)'
<1>1. UNCHANGED file /\ allowed' = allowed /\ pc' = "idle"
  BY DEF Open, OpenFails, Close, ghosts, Sound, MapInv, InSession
<1>2. RefsKept /\ EntriesKept /\ DataKept
  BY <1>1, FileKept, ReadsKept, ReadsData DEF Sound, IInv, TypeOK
<1>3. ZeroFlagsCounted'
  BY <1>2, FlagsStayPut DEF DataInv, EntriesKept
<1> QED
  BY <1>1, <1>2, <1>3, CallStops

LEMMA StutterData ==
  ASSUME Sound, DataInv, Kept, UNCHANGED vars
  PROVE  (ZeroFlagsCounted /\ DataParts)'
<1>1. UNCHANGED file /\ UNCHANGED <<pc, req, done, entry, calls, allowed>>
  BY DEF vars, file
<1>2. RefsKept /\ EntriesKept /\ DataKept /\ \A x : At(x)' = At(x)
  BY <1>1, FileKept, ReadsKept, ReadsData DEF Sound, IInv, TypeOK
<1>3. ZeroFlagsCounted'
  BY <1>2, FlagsStayPut DEF DataInv, EntriesKept
<1>4. CASE pc = "idle"
  BY <1>1, <1>2, <1>3, <1>4, CallStops
<1>5. CASE pc # "idle"
  <2>1. (WrittenSoFar /\ ChunkWritten /\ PutAllowed /\ DataOnDisk)'
    BY <1>1, <1>2, <1>5, IterationGoesOn
  <2>2. Mask(entry.n)' = Mask(entry.n)
    BY <1>1 DEF Mask
  <2>3. EntryThere'
    BY <1>1, <2>2 DEF DataInv, DataParts, EntryThere
  <2>4. HeldReads'
    <3>1. ASSUME pc \in {"set_entry", "link_l2"}, NEW o \in Slots
          PROVE  At(Mask(entry.n) + o)' = DiskAt(L1Of(Off), L2Of(Off), o)'
      <4>1. DiskAt(L1Of(Off), L2Of(Off), o)' = DiskAt(L1Of(Off), L2Of(Off), o)
        BY <1>1, <1>2, <3>1, ReadsHere DEF Sound, AfterLookup
      <4>2. At(Mask(entry.n) + o)' = At(Mask(entry.n) + o)
        BY <1>1, <2>2 DEF At, file, Zero
      <4> QED
        BY <3>1, <4>1, <4>2 DEF DataInv, DataParts, HeldReads
    <3> QED
      BY <1>1, <3>1 DEF HeldReads
  <2> QED
    BY <1>3, <2>1, <2>3, <2>4 DEF DataParts
<1> QED
  BY <1>4, <1>5

LEMMA StartData ==
  ASSUME Sound, DataInv, Kept, StartWrite
  PROVE  (ZeroFlagsCounted /\ DataParts)'
<1>1. PICK r \in Requests :
        /\ req' = r
        /\ allowed' = [g \in Guest |->
             IF g >= r.off /\ g < r.off + r.len
             THEN allowed[g] \cup {Payload(calls + 1, g - r.off)} ELSE allowed[g]]
  BY DEF StartWrite
<1>2. UNCHANGED file /\ calls' = calls + 1 /\ done' = 0 /\ pc' = "lookup"
  BY DEF StartWrite
<1>3. RefsKept /\ EntriesKept /\ DataKept
  BY <1>2, FileKept, ReadsKept, ReadsData DEF Sound, IInv, TypeOK
<1>4. ZeroFlagsCounted'
  BY <1>3, FlagsStayPut DEF DataInv, EntriesKept
<1>5. r.off \in Nat
  BY EnvironmentAssumption
<1>6. Off' = r.off
  BY <1>1, <1>2, <1>5 DEF Off
<1>7. WrittenSoFar'
  BY <1>1, <1>5, <1>6, GuestIndex DEF WrittenSoFar
<1>8. PutAllowed'
  <2>1. \A g : Put(g)' = Payload(calls + 1, g - r.off)
    BY <1>1, <1>2 DEF Put, Payload
  <2>2. \A g : Written(g)' = (g >= r.off /\ g < r.off + r.len)
    BY <1>1 DEF Written
  <2> QED
    BY <1>1, <2>1, <2>2 DEF PutAllowed
<1>9. DataOnDisk'
  <2>1. \A g \in Guest : DiskWord(g)' = DiskWord(g)
    BY <1>3, WordsKept
  <2>2. \A g \in Guest : DiskWord(g) \in allowed'[g]
    BY <1>1 DEF DataInv, DataParts, DataOnDisk
  <2> QED
    BY <2>1, <2>2 DEF DataOnDisk
<1>10. EntryThere' /\ HeldReads' /\ ChunkWritten'
  BY <1>2 DEF EntryThere, Holding, HeldReads, ChunkWritten
<1> QED
  BY <1>4, <1>7, <1>8, <1>9, <1>10 DEF DataParts

LEMMA LookupData ==
  ASSUME Sound, DataInv, Kept, Lookup
  PROVE  (ZeroFlagsCounted /\ DataParts)'
<1>1. UNCHANGED file /\ allowed' = allowed /\ calls' = calls /\ req' = req /\ pc = "lookup"
  BY DEF Lookup, LookupFails, LookupUnallocated, LookupUnreferenced, LookupInPlace,
         LookupShared, ReturnError, Continue, counters, ghosts
<1>2. RefsKept /\ EntriesKept /\ DataKept /\ \A x : At(x)' = At(x)
  BY <1>1, FileKept, ReadsKept, ReadsData DEF Sound, IInv, TypeOK
<1>3. ZeroFlagsCounted'
  BY <1>2, FlagsStayPut DEF DataInv, EntriesKept
<1>4. CASE pc' = "idle"
  BY <1>1, <1>2, <1>3, <1>4, CallStops
<1>5. CASE pc' # "idle"
  <2>1. done' = done /\ pc' \in {"extend_data", "set_entry", "write_data"}
    BY <1>5 DEF Lookup, LookupFails, LookupUnallocated, LookupUnreferenced, LookupInPlace,
                LookupShared, ReturnError, EmptyFrame, Continue
  <2>2. (WrittenSoFar /\ ChunkWritten /\ PutAllowed /\ DataOnDisk)'
    BY <1>1, <1>2, <2>1, IterationGoesOn
  <2>3. L1Of(Off)' = L1Of(Off) /\ L2Of(Off)' = L2Of(Off)
    BY <1>1, <2>1, OffKept
  <2>4. CASE LookupUnallocated
    BY <1>3, <2>2, <2>4
       DEF LookupUnallocated, Continue, DataParts, EntryThere, Holding, HeldReads
  <2>5. CASE LookupUnreferenced \/ LookupInPlace
    <3>1. PICK i0 \in L1Index, k0 \in Slots :
            i0 = L1Of(Off) /\ k0 = L2Of(Off) /\ Lba(Off) = "no_error" /\ i0 \in RefIndex
      BY <2>5, OffType DEF LookupUnreferenced, LookupInPlace, Lba, RefInRange, Sound, IInv, TypeOK
    <3>2. l1[i0] # NoTable /\ Mapped(Off).n # 0 /\ Mapped(Off) \in Word
      BY <3>1, MappedType DEF Lba, Sound, IInv, TypeOK
    <3>3. L2Entry(i0, k0) = Mapped(Off)
      BY <1>1, <3>1, <3>2, MappedHere DEF Sound, Kept, Reported, Here
    <3>4. Mask(Mapped(Off).n) # 0 /\ Mask(Mapped(Off).n) \in Nat
      <4>1. Mask(Mapped(Off).n) \in Nat
        BY <3>2, MaskRange DEF Word
      <4>2. CASE LookupInPlace
        <5>1. LowBits(Mapped(Off).n) = 0
          BY <1>5, <4>2 DEF LookupInPlace, ReturnError, EmptyFrame
        <5> QED
          BY <3>2, <4>1, <5>1 DEF LowBits, Mask, Word
      <4>3. CASE LookupUnreferenced
        <5>1. RefCount(Off) = 0
          BY <4>3 DEF LookupUnreferenced
        <5>2. RefCountOnDisk(i0, k0).n = 0
          <6>1. ASSUME RefCountOnDisk(i0, k0).n # 0
                PROVE  FALSE
            <7>1. rt[i0] # NoTable /\ rt[i0][k0].n # 0
              BY <1>1, <3>1, <6>1 DEF Sound, RefInv, RefsRemembered, MapInv, InSession
            <7> QED
              BY <3>1, <5>1, <7>1 DEF RefCount
          <6> QED
            BY <6>1
        <5> QED
          BY <3>1, <3>2, <3>3, <4>1, <5>2 DEF DataInv, ZeroFlagsCounted
      <4> QED
        BY <2>5, <4>1, <4>2, <4>3
    <3>5. Mask(entry.n)' = Mask(Mapped(Off).n)
      <4>1. Mask(entry.n)' = Mask(entry'.n)
        BY DEF Mask
      <4>2. entry' = Mapped(Off) \/ entry'.n = Mask(Mapped(Off).n)
        BY <1>5, <2>5 DEF LookupUnreferenced, LookupInPlace, ReturnError, EmptyFrame
      <4>3. Mask(Mask(Mapped(Off).n)) = Mask(Mapped(Off).n)
        BY <3>2, MaskOfMask DEF Word
      <4> QED
        BY <4>1, <4>2, <4>3
    <3>6. EntryThere'
      BY <3>4, <3>5 DEF EntryThere
    <3>7. ASSUME NEW o \in Slots
          PROVE  At(Mask(entry.n) + o)' = DiskAt(L1Of(Off), L2Of(Off), o)'
      <4>1. DiskAt(i0, k0, o) = At(Mask(Mapped(Off).n) + o)
        BY <3>3, <3>4 DEF DiskAt
      <4>2. DiskAt(i0, k0, o)' = DiskAt(i0, k0, o)
        BY <1>2 DEF DataKept
      <4>3. DiskAt(L1Of(Off), L2Of(Off), o)' = DiskAt(i0, k0, o)'
        BY <2>3, <3>1 DEF DiskAt, L2Entry, L2Table, Mask, L1Entry, At, Zero
      <4>4. At(Mask(entry.n) + o)' = At(Mask(Mapped(Off).n) + o)
        BY <1>1, <3>5 DEF At, file, Zero
      <4> QED
        BY <4>1, <4>2, <4>3, <4>4
    <3>8. HeldReads'
      BY <3>7 DEF HeldReads
    <3> QED
      BY <1>3, <2>2, <3>6, <3>8 DEF DataParts
  <2> QED
    BY <1>5, <2>4, <2>5 DEF Lookup, LookupFails, LookupShared, ReturnError, EmptyFrame
<1> QED
  BY <1>4, <1>5

LEMMA ExtendedData ==
  ASSUME Sound, DataInv, Kept, ExtendData \/ ExtendL2 \/ ExtendRef
  PROVE  (ZeroFlagsCounted /\ DataParts)'
<1>1. /\ ZeroTo(ExtendedEof) /\ UNCHANGED <<req, done, calls, allowed>>
      /\ pc \in AfterLookup /\ pc # "idle"
  BY DEF ExtendData, ExtendL2, ExtendRef, Continue, context, counters, AfterLookup
<1>2. ExtendedEof \in Nat /\ ExtendedEof >= eof
  BY ExtendedEofRange, SizesAssumption DEF Sound, IInv, TypeOK, FileOK, ContextOK
<1>3. EntriesKept /\ RefsKept /\ DataKept /\ \A x \in Nat : At(x)' = At(x)
  BY <1>1, <1>2, ExtensionKept, ReadsKept, ReadsData DEF Sound, IInv, TypeOK
<1>4. ZeroFlagsCounted'
  BY <1>3, FlagsStayPut DEF DataInv, EntriesKept
<1>5. (WrittenSoFar /\ ChunkWritten /\ PutAllowed /\ DataOnDisk)'
  BY <1>1, <1>3, IterationGoesOn DEF ExtendData, ExtendL2, ExtendRef, Continue
<1>6. \A o \in Slots : DiskAt(L1Of(Off), L2Of(Off), o)' = DiskAt(L1Of(Off), L2Of(Off), o)
  BY <1>1, <1>3, ReadsHere DEF Sound
<1>7. PICK p \in Nat : p = Mask(ExtendedEof) /\ p # 0 /\ p >= eof /\ Mask(p) = p
  <2>1. PICK p \in Nat : p = Mask(ExtendedEof)
    BY FreshPlace DEF Sound, IInv
  <2>2. p >= ClusterSize /\ p >= eof
    BY <2>1, FreshPlace DEF Sound, IInv
  <2>3. Mask(p) = p
    BY <1>2, <2>1, MaskOfMask
  <2> QED
    BY <2>1, <2>2, <2>3, SizesAssumption
<1>8. CASE ExtendData
  <2>1. pc' = "set_entry" /\ Mask(entry.n)' = p
    BY <1>7, <1>8 DEF ExtendData, Continue, Mask
  <2>2. ASSUME NEW o \in Slots
        PROVE  At(Mask(entry.n) + o)' = DiskAt(L1Of(Off), L2Of(Off), o)'
    <3>1. PICK x \in Nat : x = p + o /\ x >= eof
      BY <1>7 DEF Slots, Sound, IInv, TypeOK, FileOK
    <3>2. At(x)' = Zero
      BY <1>3, <3>1, BeyondTheEnd DEF Sound, IInv, TypeOK
    <3>3. At(Mask(entry.n) + o)' = Zero
      BY <2>1, <3>1, <3>2 DEF At
    <3>4. Here.n = 0
      BY <1>8 DEF ExtendData, Sound, MapInv, EntryFits, Kept, Reported
    <3>5. DiskAt(L1Of(Off), L2Of(Off), o) = Zero
      BY <3>4, MaskOfZero DEF Here, DiskAt
    <3> QED
      BY <1>6, <3>3, <3>5
  <2>3. EntryThere' /\ HeldReads'
    BY <1>7, <2>1, <2>2 DEF EntryThere, HeldReads
  <2> QED
    BY <1>4, <1>5, <2>3 DEF DataParts
<1>9. CASE ExtendL2 \/ ExtendRef
  <2>1. entry' = entry /\ pc \in Holding /\ (pc' = "link_l2" => pc = "set_entry")
        /\ pc' \in {"link_l2", "link_ref"}
    BY <1>9 DEF ExtendL2, ExtendRef, Continue, Holding
  <2>2. Mask(entry.n)' = Mask(entry.n)
    BY <2>1 DEF Mask
  <2>3. EntryThere'
    BY <2>1, <2>2 DEF DataInv, DataParts, EntryThere
  <2>4. ASSUME pc = "set_entry", NEW o \in Slots
        PROVE  At(Mask(entry.n) + o)' = DiskAt(L1Of(Off), L2Of(Off), o)'
    <3>1. PICK x \in Nat : x = Mask(entry.n) + o
      BY MaskRange DEF Sound, IInv, TypeOK, FrameOK, Word, Slots
    <3>2. At(x)' = At(x)
      BY <1>3
    <3>3. At(Mask(entry.n) + o)' = At(Mask(entry.n) + o)
      BY <2>2, <3>1, <3>2 DEF At
    <3> QED
      BY <1>6, <2>4, <3>3 DEF DataInv, DataParts, HeldReads
  <2>5. HeldReads'
    BY <2>1, <2>4 DEF HeldReads
  <2> QED
    BY <1>4, <1>5, <2>3, <2>5 DEF DataParts
<1> QED
  BY <1>8, <1>9

(* A word of the cluster that the call holds for its data.                 *)
LEMMA HeldClaimed ==
  ASSUME IInv, pc \in {"set_entry", "link_l2", "write_data"}, Mask(entry.n) # 0
  PROVE  /\ <<"data", L1Of(Off), L2Of(Off)>> \in Owners /\ Mask(entry.n) \in Nat
         /\ Claimed(<<"data", L1Of(Off), L2Of(Off)>>, Mask(entry.n))
<1>1. L1Of(Off) \in L1Index /\ L2Of(Off) \in Slots
  BY OffType DEF IInv, TypeOK, IndexChecked, AfterLookup
<1>2. Mask(entry.n) \in Nat
  BY MaskRange DEF IInv, TypeOK, FrameOK, Word
<1> QED
  BY <1>1, <1>2, OwnerKinds DEF Claimed, HeldByCall

(* What the entry replaces reads as the entry does.                        *)
LEMMA SetEntryData ==
  ASSUME Sound, DataInv, Kept, SetEntry
  PROVE  (ZeroFlagsCounted /\ DataParts)'
<1>1. /\ pc = "set_entry" /\ PutWord(L2Table(L1Of(Off)) + L2Of(Off), entry)
      /\ pc' = "write_data" /\ entry' = entry /\ UNCHANGED <<req, done, calls, allowed>>
      /\ l1[L1Of(Off)] # NoTable
  BY DEF SetEntry, Continue, counters
<1>2. PICK i0 \in L1Index, k0 \in Slots : i0 = L1Of(Off) /\ k0 = L2Of(Off)
  BY <1>1, OffType DEF Sound, IInv, TypeOK, IndexChecked, AfterLookup
<1>3. PICK c \in Nat : c = L2Table(i0)
  BY PlaceType DEF Sound, IInv, TypeOK
<1>4. PICK a \in Nat : a = c + k0
  BY DEF Slots
<1>5. \A x \in Nat : At(x)' = IF x = a THEN entry ELSE At(x)
  BY <1>1, <1>2, <1>3, <1>4, PutWordReads DEF Sound, IInv, TypeOK
<1>6. \A x \in Nat : ~(c <= x /\ x < c + ClusterSize) => At(x)' = At(x)
  BY <1>4, <1>5, SizesAssumption DEF Slots
<1>7. PICK q \in Owners : q = <<"l2", i0, 0>>
  BY OwnerKinds
<1>8. c = 0 \/ Claimed(q, c)
  BY <1>3, <1>7, PlaceOfKind DEF Claimed
<1>9. /\ \A j \in RefIndex : RefEntry(j)' = RefEntry(j) /\ q # <<"ref", j, 0>>
      /\ \A i \in L1Index, k \in Slots :
           /\ L2Entry(i, k)' = IF i = i0 /\ k = k0 /\ c # 0 THEN entry ELSE L2Entry(i, k)
           /\ q # <<"data", i, k>>
  BY <1>1, <1>2, <1>3, <1>7, MappedEntries DEF Sound
<1>10. c # 0
  BY <1>1, <1>2, <1>3 DEF Sound, MapInv, InSession, TablesCoherent, Kept, Reported, TablesAgree
<1>11. PICK d \in Owners, p \in Nat :
         d = <<"data", i0, k0>> /\ p = Mask(entry.n) /\ p # 0 /\ Claimed(d, p)
  BY <1>1, <1>2, HeldClaimed
     DEF Sound, DataInv, DataParts, EntryThere, Holding
<1>12. RefsKept
  BY <1>6, <1>8, <1>9, ClusterRefs DEF Sound
<1>13. ZeroFlagsCounted'
  <2>1. RefsGrow
    BY <1>12 DEF RefsKept, RefsGrow
  <2> QED
    BY <1>9, <1>11, <2>1, FlagsStay DEF DataInv
<1>14. DataKept
  <2>1. ASSUME NEW i \in L1Index, NEW k \in Slots, NEW o \in Slots
        PROVE  DiskAt(i, k, o)' = DiskAt(i, k, o)
    <3>1. CASE i # i0 \/ k # k0
      <4>1. L2Entry(i, k)' = L2Entry(i, k) /\ q # <<"data", i, k>>
        BY <1>9, <3>1
      <4> QED
        BY <1>6, <1>8, <4>1, WordKeptByCluster DEF Sound
    <3>2. CASE i = i0 /\ k = k0
      <4>1. PICK x \in Nat : x = p + o /\ p <= x /\ x < p + ClusterSize
        BY SizesAssumption DEF Slots
      <4>2. At(x)' = At(x)
        BY <1>6, <1>8, <1>9, <1>11, <4>1, ClusterKept DEF Sound
      <4>3. DiskAt(i, k, o)' = At(x)'
        <5>1. L2Entry(i, k)' = entry
          BY <1>9, <1>10, <3>2
        <5>2. Mask(L2Entry(i, k).n)' = p
          BY <1>11, <5>1 DEF Mask
        <5> QED
          BY <1>11, <4>1, <5>2 DEF DiskAt, At
      <4>4. DiskAt(i, k, o) = At(x)
        BY <1>1, <1>2, <1>11, <3>2, <4>1 DEF DataInv, DataParts, HeldReads
      <4> QED
        BY <4>2, <4>3, <4>4
    <3> QED
      BY <3>1, <3>2
  <2> QED
    BY <2>1 DEF DataKept
<1>15. (WrittenSoFar /\ ChunkWritten /\ PutAllowed /\ DataOnDisk)'
  BY <1>1, <1>14, IterationGoesOn
<1>16. EntryThere' /\ HeldReads'
  BY <1>1, <1>11 DEF EntryThere, HeldReads, Mask
<1> QED
  BY <1>13, <1>15, <1>16 DEF DataParts

(* A table is linked where no entry of it was.                             *)
LEMMA LinkL2Data ==
  ASSUME Sound, DataInv, Kept, LinkL2
  PROVE  (ZeroFlagsCounted /\ DataParts)'
<1>1. /\ pc = "link_l2" /\ PutWord(L1Off + L1Of(Off), [n |-> pos, copied |-> FALSE])
      /\ pc' = "set_entry" /\ entry' = entry /\ UNCHANGED <<req, done, calls, allowed>>
  BY DEF LinkL2, Continue, counters
<1>2. PICK i0 \in L1Index, k0 \in Slots : i0 = L1Of(Off) /\ k0 = L2Of(Off)
  BY <1>1, OffType DEF Sound, IInv, TypeOK, IndexChecked, AfterLookup
<1>3. PICK a \in Nat : a = L1Off + i0 /\ L1Off <= a /\ a < L1Off + L1Size
  BY SizesAssumption DEF L1Index
<1>4. \A x \in Nat : x # a => At(x)' = At(x)
  BY <1>1, <1>2, <1>3, PutWordReads DEF Sound, IInv, TypeOK
<1>5. L2Table(i0) = 0
  BY <1>1, <1>2 DEF Sound, MapInv, InSession, TablesCoherent, Kept, Reported, TablesAgree, NewTable
<1>6. \A i \in L1Index, k \in Slots : L2Entry(i, k)' = L2Entry(i, k)
  <2>1. \A k \in Slots : L2Entry(i0, k) = Zero
    BY <1>5 DEF L2Entry
  <2> QED
    BY <1>1, <1>2, <2>1, LinkedL2Entries DEF Sound
<1>7. RefsKept
  <2>1. \A j \in RefIndex : RefEntry(j)' = RefEntry(j)
    BY <1>1, LinkedL2Entries DEF Sound
  <2> QED
    BY <1>3, <1>4, <2>1, TableRefs DEF RefsKept, Sound
<1>8. DataKept
  BY <1>3, <1>4, <1>6, TableData DEF Sound
<1>9. ZeroFlagsCounted'
  BY <1>6, <1>7, FlagsStayPut DEF DataInv
<1>10. (WrittenSoFar /\ ChunkWritten /\ PutAllowed /\ DataOnDisk)'
  BY <1>1, <1>8, IterationGoesOn
<1>11. Mask(entry.n)' = Mask(entry.n)
  BY <1>1 DEF Mask
<1>12. EntryThere'
  BY <1>1, <1>11 DEF DataInv, DataParts, EntryThere, Holding
<1>13. HeldReads'
  <2>1. ASSUME NEW o \in Slots
        PROVE  At(Mask(entry.n) + o)' = DiskAt(L1Of(Off), L2Of(Off), o)'
    <3>1. PICK d \in Owners, p \in Nat : p = Mask(entry.n) /\ Claimed(d, p)
      BY <1>1, HeldClaimed DEF Sound, DataInv, DataParts, EntryThere, Holding
    <3>2. PICK x \in Nat : x = p + o /\ p <= x /\ x < p + ClusterSize
      BY SizesAssumption DEF Slots
    <3>3. At(x)' = At(x)
      BY <1>3, <1>4, <3>1, <3>2, ClusterKeptByTables DEF Sound
    <3>4. At(Mask(entry.n) + o)' = At(Mask(entry.n) + o)
      BY <1>11, <3>1, <3>2, <3>3 DEF At
    <3>5. DiskAt(L1Of(Off), L2Of(Off), o)' = DiskAt(L1Of(Off), L2Of(Off), o)
      BY <1>1, <1>8, ReadsHere DEF Sound, AfterLookup
    <3> QED
      BY <1>1, <3>4, <3>5 DEF DataInv, DataParts, HeldReads
  <2> QED
    BY <2>1 DEF HeldReads
<1> QED
  BY <1>9, <1>10, <1>12, <1>13 DEF DataParts

(* The writes of the refcounts leave the data, and no reference is lost:   *)
(* a new block goes where memory, which has all the references of the      *)
(* file, has none.                                                         *)
RefsOnly ==
  DataKept /\ RefsGrow /\ \A i \in L1Index, k \in Slots : L2Entry(i, k)' = L2Entry(i, k)

LEMMA LinkedRefData ==
  ASSUME Sound, pc = "link_ref",
         PutWord(RefTableOff + L1Of(Off), [n |-> pos, copied |-> FALSE])
  PROVE  RefsOnly
<1>1. PICK j0 \in RefIndex : j0 = L1Of(Off)
  BY DEF Sound, IInv, IndexChecked, AfterLookup
<1>2. PICK a \in Nat : a = RefTableOff + j0 /\ RefTableOff <= a /\ a < RefTableOff + RefTableSize
  BY SizesAssumption DEF RefIndex
<1>3. \A x \in Nat : x # a => At(x)' = At(x)
  BY <1>1, <1>2, PutWordReads DEF Sound, IInv, TypeOK
<1>4. \A i \in L1Index, k \in Slots : L2Entry(i, k)' = L2Entry(i, k)
  BY LinkedRefEntries DEF Sound
<1>5. DataKept
  BY <1>2, <1>3, <1>4, TableData DEF Sound
<1>6. \A k \in Slots : RefCountOnDisk(j0, k).n = 0
  BY <1>1 DEF Sound, MapInv, InSession, RefInv, RefsRemembered, NewBlock
<1>7. \A j \in RefIndex, k \in Slots : j # j0 => RefCountOnDisk(j, k)' = RefCountOnDisk(j, k)
  BY <1>1, LinkedBlocks DEF Sound
<1>8. RefsGrow
  BY <1>6, <1>7 DEF RefsGrow
<1> QED
  BY <1>4, <1>5, <1>8 DEF RefsOnly

LEMMA CountedData ==
  ASSUME Sound, pc = "update_ref", LowBits(RefEntry(L1Of(Off)).n) = 0,
         PutWord(RefEntry(L1Of(Off)).n + L2Of(Off), One)
  PROVE  RefsOnly
<1>1. PICK j0 \in RefIndex, k0 \in Slots : j0 = L1Of(Off) /\ k0 = L2Of(Off)
  BY OffType DEF Sound, IInv, TypeOK, IndexChecked, AfterLookup
<1>2. PICK c \in Nat : c = RefEntry(j0).n
  BY AtType DEF Sound, IInv, TypeOK, RefEntry, Word
<1>3. c = RefBlock(j0)
  BY <1>1, <1>2 DEF LowBits, RefBlock, Mask
<1>4. PICK a \in Nat : a = c + k0 /\ c <= a /\ a < c + ClusterSize
  BY SizesAssumption DEF Slots
<1>5. \A x \in Nat : ~(c <= x /\ x < c + ClusterSize) => At(x)' = At(x)
  BY <1>1, <1>2, <1>4, PutWordReads DEF Sound, IInv, TypeOK
<1>6. \A i \in L1Index, k \in Slots : L2Entry(i, k)' = L2Entry(i, k)
  BY RefCountWritten DEF Sound, EntriesKept
<1>7. PICK q \in Owners : q = <<"ref", j0, 0>>
  BY OwnerKinds
<1>8. c = 0 \/ Claimed(q, c)
  BY <1>3, <1>7, PlaceOfKind DEF Claimed
<1>9. \A i \in L1Index, k \in Slots : q # <<"data", i, k>>
  BY <1>7
<1>10. DataKept
  BY <1>5, <1>6, <1>8, <1>9, ClusterData DEF Sound
<1>11. RefsGrow
  BY CountWritten DEF Sound, RefsGrow, One
<1> QED
  BY <1>6, <1>10, <1>11 DEF RefsOnly

LEMMA FileRefsOnly ==
  ASSUME Sound, UNCHANGED file
  PROVE  RefsOnly
<1>1. FileOK /\ EntriesKept /\ RefsKept /\ \A x \in Nat : At(x)' = At(x)
  BY FileKept, ReadsKept DEF Sound, IInv, TypeOK
<1> QED
  BY <1>1, ReadsData DEF RefsOnly, EntriesKept, RefsKept, RefsGrow

LEMMA ExtendedRefsOnly ==
  ASSUME Sound, NEW end \in eof .. ExtendedEof, ZeroTo(end)
  PROVE  RefsOnly
<1>1. end \in Nat /\ end >= eof
  BY ExtendedEofRange DEF Sound, IInv, TypeOK, FileOK, ContextOK
<1>2. FileOK /\ EntriesKept /\ RefsKept /\ \A x \in Nat : At(x)' = At(x)
  BY <1>1, ExtensionKept, ReadsKept DEF Sound, IInv, TypeOK
<1> QED
  BY <1>2, ReadsData DEF RefsOnly, EntriesKept, RefsKept, RefsGrow

LEMMA RefsOnlyFlags ==
  ASSUME RefsOnly, ZeroFlagsCounted
  PROVE  ZeroFlagsCounted'
  BY FlagsStay DEF RefsOnly

LEMMA LinkRefData ==
  ASSUME Sound, DataInv, Kept, LinkRef
  PROVE  (ZeroFlagsCounted /\ DataParts)'
<1>1. /\ pc = "link_ref" /\ PutWord(RefTableOff + L1Of(Off), [n |-> pos, copied |-> FALSE])
      /\ pc' = "update_ref" /\ entry' = entry /\ UNCHANGED <<req, done, calls, allowed>>
  BY DEF LinkRef, Continue, counters
<1>2. RefsOnly
  BY <1>1, LinkedRefData
<1>3. (WrittenSoFar /\ ChunkWritten /\ PutAllowed /\ DataOnDisk)'
  BY <1>1, <1>2, IterationGoesOn DEF RefsOnly
<1>4. Mask(entry.n)' = Mask(entry.n)
  BY <1>1 DEF Mask
<1>5. EntryThere' /\ HeldReads'
  BY <1>1, <1>4 DEF DataInv, DataParts, EntryThere, Holding, HeldReads
<1> QED
  BY <1>2, <1>3, <1>5, RefsOnlyFlags DEF DataInv, DataParts

(* The ends of an iteration, the failures that qwrite does not look at     *)
(* among them.                                                             *)
LEMMA UpdateRefData ==
  ASSUME Sound, DataInv, Kept, UpdateRef \/ ExtendRefFails \/ LinkRefFails \/ UpdateRefFails
  PROVE  (ZeroFlagsCounted /\ DataParts)'
<1>1. /\ pc \in {"update_ref", "link_ref"} /\ NextCluster /\ UNCHANGED <<req, calls>>
  BY DEF UpdateRef, ExtendRefFails, LinkRefFails, UpdateRefFails, counters
<1>2. RefsOnly
  <2>1. CASE UNCHANGED file
    BY <2>1, FileRefsOnly
  <2>2. CASE UpdateRef /\ ~UNCHANGED file
    BY <2>2, CountedData DEF UpdateRef
  <2>3. CASE ExtendRefFails
    <3>1. 0 .. ExtendedEof - 1 \subseteq 0 .. ExtendedEof
      BY ExtendedEofRange DEF Sound, IInv, TypeOK, FileOK, ContextOK
    <3>2. PICK end \in eof .. ExtendedEof : ZeroTo(end)
      BY <2>3, ExtendedEofRange DEF ExtendRefFails, PartOfZeros, Sound, IInv, TypeOK, FileOK, ContextOK
    <3> QED
      BY <3>2, ExtendedRefsOnly
  <2>4. CASE LinkRefFails /\ ~UNCHANGED file
    BY <2>4, LinkedRefData DEF LinkRefFails
  <2> QED
    BY <2>1, <2>2, <2>3, <2>4 DEF UpdateRefFails
<1>3. DataParts'
  BY <1>1, <1>2, IterationEnds DEF Sound, RefsOnly
<1> QED
  BY <1>2, <1>3, RefsOnlyFlags DEF DataInv

LEMMA WriteDataData ==
  ASSUME Sound, DataInv, Kept, WriteData
  PROVE  (ZeroFlagsCounted /\ DataParts)'
<1>1. /\ pc = "write_data" /\ PutData(Chunk) /\ pc' = "update_ref" /\ entry' = entry
      /\ UNCHANGED <<req, done, calls, allowed>> /\ Chunk \in 0 .. Chunk
  BY OffType DEF WriteData, Continue, counters, Sound, IInv, TypeOK
<1>2. RefsKept
  BY <1>1, DataRefs DEF Sound
<1>3. \A i \in L1Index, k \in Slots : L2Entry(i, k)' = L2Entry(i, k)
  BY <1>1, DataWritten DEF Sound, EntriesKept
<1>4. ZeroFlagsCounted'
  BY <1>2, <1>3, FlagsStayPut DEF DataInv
<1>5. Mask(entry.n) # 0
  BY <1>1 DEF DataInv, DataParts, EntryThere, Holding
<1>6. \A g \in Guest : DiskWord(g)' = IF InChunk(g, Chunk) THEN Put(g) ELSE DiskWord(g)
  BY <1>1, <1>5, DataPut DEF Sound, Kept, Reported
<1>7. \A g : Put(g)' = Put(g)
  BY <1>1, PutSame
<1>8. Off' = Off /\ Chunk' = Chunk
  BY <1>1, OffKept DEF Chunk, Smaller
<1>9. Off \in Nat /\ Chunk \in Nat /\ FrameOK
  BY <1>1, OffType DEF Sound, IInv, TypeOK
<1>10. WrittenSoFar'
  <2>1. \A g \in Guest : g < Off => ~InChunk(g, Chunk)
    BY <1>9, GuestIndex DEF InChunk
  <2> QED
    BY <1>1, <1>6, <1>7, <1>8, <2>1 DEF DataInv, DataParts, WrittenSoFar
<1>11. ChunkWritten'
  BY <1>6, <1>7, <1>8 DEF ChunkWritten, InChunk
<1>12. PutAllowed'
  BY <1>1, <1>7 DEF DataInv, DataParts, PutAllowed, Written
<1>13. DataOnDisk'
  <2>1. ASSUME NEW g \in Guest
        PROVE  DiskWord(g)' \in allowed[g]
    <3>1. CASE InChunk(g, Chunk)
      <4>1. Written(g)
        BY <1>9, <3>1, GuestIndex, ChunkSplit
      <4> QED
        BY <1>1, <1>6, <3>1, <4>1 DEF DataInv, DataParts, PutAllowed
    <3>2. CASE ~InChunk(g, Chunk)
      BY <1>6, <3>2 DEF DataInv, DataParts, DataOnDisk
    <3> QED
      BY <3>1, <3>2
  <2> QED
    BY <1>1, <2>1 DEF DataOnDisk
<1>14. EntryThere' /\ HeldReads'
  BY <1>1, <1>5 DEF EntryThere, HeldReads, Mask
<1> QED
  BY <1>4, <1>10, <1>11, <1>12, <1>13, <1>14 DEF DataParts

(* The process stops at any word of the data or of the zeros.              *)
LEMMA KilledData ==
  ASSUME Sound, DataInv, Kept, Crash, KilledFile
  PROVE  (ZeroFlagsCounted /\ DataParts)'
<1>1. pc' = "idle" /\ allowed' = allowed
  BY DEF Crash, EmptyFrame
<1>2. CASE UNCHANGED file \/ \E end \in eof .. ExtendedEof : ZeroTo(end)
  <2>1. RefsOnly
    BY <1>2, FileRefsOnly, ExtendedRefsOnly
  <2>2. DataParts'
    BY <1>1, <2>1, CallStops DEF RefsOnly
  <2> QED
    BY <2>1, <2>2, RefsOnlyFlags DEF DataInv
<1>3. CASE pc = "write_data" /\ \E m \in 1 .. Chunk : PutData(m)
  <2>1. pc = "write_data" /\ FrameOK /\ Off \in Nat /\ Chunk \in Nat
    BY <1>3, OffType DEF Sound, IInv, TypeOK
  <2>2. PICK m \in 0 .. Chunk : PutData(m)
    BY <1>3, <2>1
  <2>3. RefsKept
    BY <2>1, <2>2, DataRefs DEF Sound
  <2>4. \A i \in L1Index, k \in Slots : L2Entry(i, k)' = L2Entry(i, k)
    BY <2>1, <2>2, DataWritten DEF Sound, EntriesKept
  <2>5. ZeroFlagsCounted'
    BY <2>3, <2>4, FlagsStayPut DEF DataInv
  <2>6. Mask(entry.n) # 0
    BY <2>1 DEF DataInv, DataParts, EntryThere, Holding
  <2>7. \A g \in Guest : DiskWord(g)' = IF InChunk(g, m) THEN Put(g) ELSE DiskWord(g)
    BY <2>1, <2>2, <2>6, DataPut DEF Sound, Kept, Reported
  <2>8. ASSUME NEW g \in Guest
        PROVE  DiskWord(g)' \in allowed[g]
    <3>1. CASE InChunk(g, m)
      <4>1. InChunk(g, Chunk) /\ g \in Nat
        BY <2>1, <2>2, <3>1, GuestIndex DEF InChunk
      <4>2. Written(g)
        BY <2>1, <4>1, ChunkSplit
      <4> QED
        BY <2>1, <2>7, <3>1, <4>2 DEF DataInv, DataParts, PutAllowed
    <3>2. CASE ~InChunk(g, m)
      BY <2>7, <3>2 DEF DataInv, DataParts, DataOnDisk
    <3> QED
      BY <3>1, <3>2
  <2>9. DataOnDisk'
    BY <1>1, <2>8 DEF DataOnDisk
  <2> QED
    BY <1>1, <2>5, <2>9
       DEF DataParts, EntryThere, Holding, HeldReads, WrittenSoFar, ChunkWritten, PutAllowed
<1> QED
  BY <1>2, <1>3 DEF KilledFile

(* The word that the buffer loses is no guest's.                           *)
LEMMA LoseData ==
  ASSUME IInv, Lose
  PROVE  DataKept /\ \A i \in L1Index, k \in Slots : L2Entry(i, k)' = L2Entry(i, k)
<1>1. PICK j0 \in RefIndex, k0 \in Slots : LowBits(RefEntry(j0).n) = 0 /\ late.at = RefEntry(j0).n + k0
  BY DEF Lose, IInv, LateCounted, RefCountPlace
<1>2. PICK c \in Nat : c = RefEntry(j0).n
  BY AtType DEF IInv, TypeOK, RefEntry, Word
<1>3. c = RefBlock(j0)
  BY <1>1, <1>2 DEF LowBits, RefBlock, Mask
<1>4. PICK a \in Nat : a = c + k0 /\ c <= a /\ a < c + ClusterSize
  BY SizesAssumption DEF Slots
<1>5. \A x \in Nat : ~(c <= x /\ x < c + ClusterSize) => At(x)' = At(x)
  BY <1>1, <1>2, <1>4, LoseReads
<1>6. \A i \in L1Index, k \in Slots : L2Entry(i, k)' = L2Entry(i, k)
  BY LoseKept DEF EntriesKept
<1>7. PICK q \in Owners : q = <<"ref", j0, 0>>
  BY OwnerKinds
<1>8. c = 0 \/ Claimed(q, c)
  BY <1>3, <1>7, PlaceOfKind DEF Claimed
<1>9. \A i \in L1Index, k \in Slots : q # <<"data", i, k>>
  BY <1>7
<1> QED
  BY <1>5, <1>6, <1>8, <1>9, ClusterData

(* The refcount in the buffer is lost with the handle.                     *)
LEMMA LostData ==
  ASSUME Sound, DataInv, Kept, Crash \/ CloseFails, Lose
  PROVE  (ZeroFlagsCounted /\ DataParts)'
<1>1. pc' = "idle" /\ allowed' = allowed
  BY DEF Crash, CloseFails, EmptyFrame
<1>2. DataKept /\ \A i \in L1Index, k \in Slots : L2Entry(i, k)' = L2Entry(i, k)
  BY LoseData DEF Sound
<1>3. DataParts'
  BY <1>1, <1>2, CallStops
<1>4. ASSUME NEW i \in L1Index, NEW k \in Slots, L2Entry(i, k).n # 0, Mask(L2Entry(i, k).n) = 0,
             i \in RefIndex
      PROVE  RefCountOnDisk(i, k)'.n # 0
  <2>1. ~(i = late.of[1] /\ k = late.of[2])
    BY <1>4 DEF DataInv, LateMapped, Lose
  <2>2. RefCountOnDisk(i, k)' = RefCountOnDisk(i, k)
    BY <1>4, <2>1, LoseCounts DEF Sound
  <2> QED
    BY <1>4, <2>2 DEF DataInv, ZeroFlagsCounted
<1>5. \A i \in L1Index, k \in Slots :
        L2Entry(i, k)'.n = L2Entry(i, k).n /\ Mask(L2Entry(i, k).n)' = Mask(L2Entry(i, k).n)
  BY <1>2 DEF Mask
<1>6. ZeroFlagsCounted'
  BY <1>4, <1>5 DEF ZeroFlagsCounted
<1> QED
  BY <1>3, <1>6

(* A refcount is buffered when the cluster of its entry is linked.         *)
LEMMA LateMappedStep ==
  ASSUME Sound, DataInv, Kept, [Next]_vars
  PROVE  LateMapped'
<1>1. Reported
  BY DEF Kept, Reported
<1>2. SetEntry => Mask(entry.n) # 0
  BY DEF SetEntry, DataInv, DataParts, EntryThere, Holding
<1>3. \A i \in L1Index, k \in Slots :
        Mask(L2Entry(i, k).n) # 0 => Mask(L2Entry(i, k).n)' # 0
  BY <1>1, <1>2, DataStays DEF Sound
<1>4. CASE UNCHANGED late
  BY <1>3, <1>4 DEF LateMapped, Buffered, DataInv, Flushed
<1>5. CASE late' = Flushed
  BY <1>5 DEF LateMapped, Buffered, Flushed
<1>6. CASE UpdateRef /\ late' # Flushed
  <2>1. late'.of = Index(Off) /\ pc = "update_ref"
    BY <1>6 DEF UpdateRef
  <2>2. late'.of[1] = L1Of(Off) /\ late'.of[2] = L2Of(Off)
    BY <2>1 DEF Index
  <2>3. L1Of(Off) \in L1Index /\ L2Of(Off) \in Slots
    BY <2>1, OffType DEF Sound, IInv, TypeOK, IndexChecked, AfterLookup
  <2>4. Mask(entry.n) # 0 /\ Here = entry
    BY <1>1, <2>1 DEF DataInv, DataParts, EntryThere, Holding, Sound, MapInv, EntryFits
  <2>5. Mask(L2Entry(L1Of(Off), L2Of(Off)).n) # 0
    BY <2>4 DEF Here
  <2>6. ASSUME NEW i \in L1Index, NEW k \in Slots, i = late'.of[1], k = late'.of[2]
        PROVE  Mask(L2Entry(i, k).n)' # 0
    <3>1. i = L1Of(Off) /\ k = L2Of(Off)
      BY <2>2, <2>6
    <3> QED
      BY <1>3, <2>5, <3>1
  <2> QED
    BY <2>6 DEF LateMapped
<1>7. UNCHANGED late \/ late' = Flushed \/ UpdateRef
  BY DEF Next, Open, OpenFails, Close, StartWrite, Crash, Release, Failure, ExtendFails,
         ExtendFailsMapped, ReadLinkFails, SetEntryFails, LinkL2Fails, WriteDataFails,
         FlushDataFails, ExtendRefFails, LinkRefFails, UpdateRefFails, FlushFails, CloseFails,
         Step, Lookup, LookupFails, LookupUnallocated, LookupUnreferenced, LookupInPlace,
         LookupShared, ExtendData, SetEntry, ExtendL2, LinkL2, WriteData,
         ExtendRef, LinkRef, vars
<1> QED
  BY <1>4, <1>5, <1>6, <1>7

(* A failure that the call reports, or of its data, is not covered.        *)
LEMMA NotKept ==
  ASSUME Sound, \/ ExtendFails \/ ExtendFailsMapped \/ ReadLinkFails \/ SetEntryFails
                \/ LinkL2Fails \/ WriteDataFails \/ FlushDataFails \/ FlushFails
  PROVE  ~Kept'
<1>1. faults' # 0
  BY DEF ExtendFails, ExtendFailsMapped, ReadLinkFails, SetEntryFails, LinkL2Fails,
         WriteDataFails, FlushDataFails, FlushFails, CanFail, Sound, IInv, TypeOK, CallsOK
<1>2. erred' = TRUE \/ "data" \in unseen'
  BY DEF ExtendFails, ExtendFailsMapped, ReadLinkFails, SetEntryFails, LinkL2Fails,
         WriteDataFails, FlushDataFails, FlushFails, ReturnError
<1> QED
  BY <1>1, <1>2 DEF Kept

LEMMA DataStep ==
  ASSUME SoundRefs, DataInv, [Next]_vars
  PROVE  DataInv'
<1>1. ASSUME Kept'
      PROVE  (ZeroFlagsCounted /\ LateMapped /\ DataParts)'
  <2>1. Kept
    BY <1>1, KeptBefore DEF SoundRefs, SoundMap, SoundClaims
  <2>2. Sound
    BY <2>1, KeptSound
  <2>3. LateMapped'
    BY <2>1, <2>2, LateMappedStep
  <2>4. CASE Crash \/ CloseFails
    BY <2>1, <2>2, <2>3, <2>4, KilledData, LostData DEF Crash, CloseFails
  <2>5. CASE Failure /\ ~CloseFails
    BY <1>1, <2>1, <2>2, <2>3, <2>5, UpdateRefData, NotKept DEF Failure
  <2>6. CASE ~Failure /\ ~Crash
    BY <2>1, <2>2, <2>3, <2>6, SessionData, StutterData, StartData, LookupData, ExtendedData,
       SetEntryData, LinkL2Data, LinkRefData, UpdateRefData, WriteDataData DEF Next, Step
  <2> QED
    BY <2>4, <2>5, <2>6
<1> QED
  BY <1>1 DEF DataInv

LEMMA DataInit ==
  ASSUME Init, ZeroFlagsCounted
  PROVE  DataInv
  BY DEF Init, DataInv, DataParts, DataOnDisk, EntryThere, Holding, HeldReads, WrittenSoFar,
         ChunkWritten, PutAllowed, LateMapped, Buffered

(* On an image whose clusters without a place are counted, as they are     *)
(* when a count covers every guest cluster that was written: as long as    *)
(* no write failed, after every write of the file, in every session and    *)
(* wherever the process stopped, each guest word holds what it held, what  *)
(* the last call that succeeded put there, or what a later one was to put. *)
THEOREM DataTheorem == Spec /\ ZeroFlagsCounted => []DiskKeepsData
<1>1. Init /\ ZeroFlagsCounted => SoundRefs /\ DataInv
  BY SoundInit, DataInit
<1>2. SoundRefs /\ DataInv /\ [Next]_vars => SoundRefs' /\ DataInv'
  BY SoundRefsStep, DataStep
<1>3. DataInv => DiskKeepsData
  BY DEF DataInv, DataParts, Kept, DiskKeepsData
<1> QED
  BY <1>1, <1>2, <1>3, PTL DEF Spec

(* The same holds after any failure until a call of the first session      *)
(* returns an error, or the write of the data fails or loses the entry     *)
(* that is in the buffer before it: qwrite reports every other write of    *)
(* the L1 and L2 tables that it could not make, and no write of the        *)
(* refcounts costs data.                                                   *)
THEOREM LossTheorem == Spec /\ ZeroFlagsCounted => []LossIsReported
<1>1. Init /\ ZeroFlagsCounted => SoundRefs /\ DataInv
  BY SoundInit, DataInit
<1>2. SoundRefs /\ DataInv /\ [Next]_vars => SoundRefs' /\ DataInv'
  BY SoundRefsStep, DataStep
<1>3. DataInv => LossIsReported
  BY DEF DataInv, DataParts, Kept, LossIsReported
<1> QED
  BY <1>1, <1>2, <1>3, PTL DEF Spec

-----------------------------------------------------------------------------
(* What qread returns.                                                     *)

(* qread takes a cluster without a reference for zeros, in memory now and  *)
(* from the file in the next session.                                      *)
Unread(g) == L1Of(g) \in RefIndex /\ RefCount(g) = 0

UncountedOnDisk(g) ==
  /\ L1Of(g) \in RefIndex
  /\ LowBits(RefEntry(L1Of(g)).n) = 0
  /\ RefCountOnDisk(L1Of(g), L2Of(g)).n = 0

(* An image counts each guest cluster that does not read as zeros.         *)
DataCounted == \A g \in Guest : UncountedOnDisk(g) => DiskWord(g) = Zero

(* A word that may read as zeros, or whose refcount a kill lost.           *)
MayBeZero(g) == Zero \in allowed[g] \/ Index(g) \in uncounted

MemoryZeros == handle = "open" => \A g \in Guest : Unread(g) => MayBeZero(g)

DiskZeros == \A g \in Guest : UncountedOnDisk(g) => MayBeZero(g)

Counted(g) == L1Of(g) \in RefIndex /\ ~Unread(g) /\ ~UncountedOnDisk(g)

CountedSoFar == pc # "idle" => \A g \in Guest : g >= req.off /\ g < Off => Counted(g)

CountInv == faults = 0 => CountedSoFar

ZeroInv == faults = 0 => MemoryZeros /\ DiskZeros

(* A step that keeps both.  What a call counted does not rest on what the  *)
(* image counted before it.                                                *)
ZerosCarried == CountedSoFar' /\ (MemoryZeros /\ DiskZeros => MemoryZeros' /\ DiskZeros')

(* A step that takes no reference away.                                    *)
LEMMA ZerosStay ==
  ASSUME CountedSoFar,
         \A g \in Guest : MayBeZero(g) => MayBeZero(g)',
         handle' = "open" => handle = "open",
         \A g \in Guest : handle' = "open" /\ Unread(g)' => Unread(g),
         \A g \in Guest :
           UncountedOnDisk(g)' => UncountedOnDisk(g) \/ (handle = "open" /\ Unread(g)),
         pc' = "idle" \/ (pc # "idle" /\ UNCHANGED <<handle, req, done>>),
         pc # "idle" => handle = "open"
  PROVE  ZerosCarried
<1>1. MemoryZeros => MemoryZeros'
  BY DEF MemoryZeros
<1>2. MemoryZeros /\ DiskZeros => DiskZeros'
  BY DEF MemoryZeros, DiskZeros
<1>3. CASE pc' = "idle"
  BY <1>1, <1>2, <1>3 DEF CountedSoFar, ZerosCarried
<1>4. CASE pc' # "idle"
  <2>1. Off' = Off /\ req' = req /\ handle' = "open"
    BY <1>4, OffKept
  <2>2. ASSUME NEW g \in Guest, g >= req.off, g < Off
        PROVE  Counted(g)'
    <3>1. Counted(g)
      BY <1>4, <2>2 DEF CountedSoFar
    <3> QED
      BY <2>1, <3>1 DEF Counted
  <2> QED
    BY <1>1, <1>2, <2>1, <2>2 DEF CountedSoFar, ZerosCarried
<1> QED
  BY <1>3, <1>4

LEMMA UncountedKept ==
  ASSUME RefsKept
  PROVE  \A g \in Guest : UncountedOnDisk(g)' = UncountedOnDisk(g)
<1>1. ASSUME NEW g \in Guest
      PROVE  UncountedOnDisk(g)' = UncountedOnDisk(g)
  <2>1. PICK j \in L1Index, k \in Slots : j = L1Of(g) /\ k = L2Of(g)
    BY GuestIndex
  <2>2. UncountedOnDisk(g)
          = (j \in RefIndex /\ LowBits(RefEntry(j).n) = 0 /\ RefCountOnDisk(j, k).n = 0)
    BY <2>1 DEF UncountedOnDisk
  <2>3. UncountedOnDisk(g)'
          = (j \in RefIndex /\ LowBits(RefEntry(j)'.n) = 0 /\ RefCountOnDisk(j, k)'.n = 0)
    BY <2>1 DEF UncountedOnDisk, LowBits
  <2> QED
    BY <2>2, <2>3 DEF RefsKept
<1> QED
  BY <1>1

LEMMA OpenZeros ==
  ASSUME Sound, CountedSoFar, faults = 0, Open
  PROVE  ZerosCarried
<1>1. /\ UNCHANGED file /\ Parsable /\ rt' = LoadedRefs /\ UNCHANGED <<allowed, uncounted>>
      /\ pc' = "idle"
  BY DEF Open, Sound, MapInv, InSession
<1>2. FileOK /\ RefsKept
  BY <1>1, FileKept, ReadsKept DEF Sound, IInv, TypeOK
<1>3. \A g \in Guest : UncountedOnDisk(g)' = UncountedOnDisk(g)
  BY <1>2, UncountedKept
<1>4. ASSUME NEW g \in Guest, Unread(g)'
      PROVE  UncountedOnDisk(g)
  <2>1. PICK j \in RefIndex, k \in Slots : j = L1Of(g) /\ k = L2Of(g)
    BY <1>4, GuestIndex DEF Unread
  <2>2. /\ LowBits(RefEntry(j).n)' = 0
        /\ (rt'[j] = NoTable) = (RefEntry(j)'.n = 0)
        /\ rt'[j] # NoTable => rt'[j][k] = RefCountOnDisk(j, k)'
    BY <1>1, <1>2, LoadedRefsAgree
  <2>3. LowBits(RefEntry(j).n) = 0
    BY <1>2, <2>2 DEF LowBits, RefsKept
  <2>4. rt'[j] = NoTable \/ rt'[j][k].n = 0
    BY <1>4, <2>1 DEF Unread, RefCount
  <2>5. RefCountOnDisk(j, k).n = 0
    <3>1. CASE rt'[j] = NoTable
      <4>1. RefEntry(j).n = 0
        BY <1>2, <2>2, <3>1 DEF RefsKept
      <4>2. RefBlock(j) = 0
        BY <4>1, MaskOfZero DEF RefBlock
      <4> QED
        BY <4>2 DEF RefCountOnDisk, Zero
    <3>2. CASE rt'[j] # NoTable
      BY <1>2, <2>2, <2>4, <3>2 DEF RefsKept
    <3> QED
      BY <3>1, <3>2
  <2> QED
    BY <2>1, <2>3, <2>5 DEF UncountedOnDisk
<1>5. DiskZeros => MemoryZeros' /\ DiskZeros'
  BY <1>1, <1>3, <1>4 DEF DiskZeros, MemoryZeros, MayBeZero, Index
<1> QED
  BY <1>1, <1>5 DEF CountedSoFar, ZerosCarried

(* A step that leaves the refcounts.                                       *)
LEMMA SameZeros ==
  ASSUME Sound, CountedSoFar, faults = 0, RefsKept, UNCHANGED <<allowed, uncounted>>,
         (rt' = rt /\ handle' = handle) \/ handle' = "closed",
         pc' = "idle" \/ (pc # "idle" /\ UNCHANGED <<handle, req, done>>)
  PROVE  ZerosCarried
<1>1. \A g \in Guest : UncountedOnDisk(g)' = UncountedOnDisk(g)
  BY UncountedKept
<1>2. \A g \in Guest : handle' = "open" /\ Unread(g)' => Unread(g)
  BY DEF Unread, RefCount
<1>3. \A g \in Guest : MayBeZero(g)' = MayBeZero(g)
  BY DEF MayBeZero, Index
<1> QED
  BY <1>1, <1>2, <1>3, ZerosStay DEF Sound, MapInv, InSession

LEMMA StartZeros ==
  ASSUME Sound, CountedSoFar, faults = 0, StartWrite
  PROVE  ZerosCarried
<1>1. PICK r \in Requests :
        /\ req' = r
        /\ allowed' = [g \in Guest |->
             IF g >= r.off /\ g < r.off + r.len
             THEN allowed[g] \cup {Payload(calls + 1, g - r.off)} ELSE allowed[g]]
  BY DEF StartWrite
<1>2. UNCHANGED file /\ done' = 0 /\ UNCHANGED <<rt, handle, uncounted>>
  BY DEF StartWrite, context, marks
<1>3. RefsKept
  BY <1>2, FileKept, ReadsKept DEF Sound, IInv, TypeOK
<1>4. \A g \in Guest : UncountedOnDisk(g)' = UncountedOnDisk(g)
  BY <1>3, UncountedKept
<1>5. \A g \in Guest : MayBeZero(g) => MayBeZero(g)'
  BY <1>1, <1>2 DEF MayBeZero, Index
<1>6. MemoryZeros /\ DiskZeros => MemoryZeros' /\ DiskZeros'
  BY <1>2, <1>4, <1>5 DEF MemoryZeros, DiskZeros, Unread, RefCount
<1>7. Off' = r.off
  BY <1>1, <1>2, EnvironmentAssumption DEF Off
<1>8. CountedSoFar'
  BY <1>1, <1>7, EnvironmentAssumption, GuestIndex DEF CountedSoFar
<1> QED
  BY <1>6, <1>8 DEF ZerosCarried

LEMMA LinkRefZeros ==
  ASSUME Sound, CountedSoFar, faults = 0, LinkRef
  PROVE  ZerosCarried
<1> DEFINE w == [n |-> pos, copied |-> FALSE]
           blank == [k \in Slots |-> Zero]
<1>1. /\ pc = "link_ref" /\ PutWord(RefTableOff + L1Of(Off), w)
      /\ rt' = [rt EXCEPT ![L1Of(Off)] = blank]
      /\ UNCHANGED <<handle, allowed, uncounted, req, done>> /\ handle = "open"
  BY DEF LinkRef, Continue, Sound, MapInv, InSession, marks
<1>2. PICK j0 \in RefIndex : j0 = L1Of(Off)
  BY <1>1 DEF Sound, IInv, IndexChecked, AfterLookup
<1>3. rt[j0] = NoTable
  BY <1>1, <1>2 DEF Sound, RefInv, NewBlock
<1>4. \A j \in RefIndex : j # j0 => rt'[j] = rt[j]
  BY <1>1, <1>2 DEF Sound, IInv, TypeOK, ContextOK
<1>5. ASSUME NEW g \in Guest, Unread(g)'
      PROVE  Unread(g)
  <2>1. PICK j \in RefIndex : j = L1Of(g)
    BY <1>5 DEF Unread
  <2> QED
    BY <1>3, <1>4, <1>5, <2>1 DEF Unread, RefCount
<1>6. ASSUME NEW g \in Guest, UncountedOnDisk(g)'
      PROVE  UncountedOnDisk(g) \/ Unread(g)
  <2>1. PICK j \in RefIndex, k \in Slots : j = L1Of(g) /\ k = L2Of(g)
    BY <1>6, GuestIndex DEF UncountedOnDisk
  <2>2. CASE j = j0
    BY <1>3, <2>1, <2>2 DEF Unread, RefCount
  <2>3. CASE j # j0
    <3>1. RefEntry(j)' = RefEntry(j) /\ RefCountOnDisk(j, k)' = RefCountOnDisk(j, k)
      BY <1>1, <1>2, <2>3, LinkedRefEntries, LinkedBlocks DEF Sound
    <3>2. UncountedOnDisk(g)' = (LowBits(RefEntry(j)'.n) = 0 /\ RefCountOnDisk(j, k)'.n = 0)
      BY <2>1 DEF UncountedOnDisk, LowBits
    <3>3. UncountedOnDisk(g) = (LowBits(RefEntry(j).n) = 0 /\ RefCountOnDisk(j, k).n = 0)
      BY <2>1 DEF UncountedOnDisk
    <3> QED
      BY <1>6, <3>1, <3>2, <3>3
  <2> QED
    BY <2>2, <2>3
<1>7. \A g \in Guest : MayBeZero(g)' = MayBeZero(g)
  BY <1>1 DEF MayBeZero, Index
<1> QED
  BY <1>1, <1>5, <1>6, <1>7, ZerosStay

(* After update_ref_cnt, all that the call wrote so far is counted.        *)
LEMMA CountedNow ==
  ASSUME Sound, CountedSoFar, faults = 0, UpdateRef
  PROVE  /\ \A g \in Guest : Unread(g)' => Unread(g)
         /\ \A g \in Guest : UncountedOnDisk(g)' => UncountedOnDisk(g)
         /\ \A g \in Guest : g >= req.off /\ g < Off + Chunk => Counted(g)'
         /\ \A g \in Guest : Index(g) = Index(Off) => Counted(g)'
<1>1. /\ pc = "update_ref" /\ rt[L1Of(Off)] # NoTable /\ PutRefCount /\ handle = "open"
  BY DEF UpdateRef, Sound, MapInv, InSession
<1>2. PICK j0 \in RefIndex, k0 \in Slots : j0 = L1Of(Off) /\ k0 = L2Of(Off)
  BY <1>1, OffType DEF Sound, IInv, TypeOK, IndexChecked, AfterLookup
<1>3. /\ rt \in [RefIndex -> Table \cup {NoTable}] /\ rt[j0] \in Table
      /\ rt' = [rt EXCEPT ![j0] = [rt[j0] EXCEPT ![k0] = One]]
  BY <1>1, <1>2 DEF Sound, IInv, TypeOK, ContextOK, PutRefCount
<1>4. /\ \A j \in RefIndex : j # j0 => rt'[j] = rt[j]
      /\ \A k \in Slots : rt'[j0][k] = IF k = k0 THEN One ELSE rt[j0][k]
      /\ rt'[j0] # NoTable
  <2>1. [rt[j0] EXCEPT ![k0] = One] \in Table
    BY <1>2, <1>3 DEF Table, One, Word
  <2>2. rt'[j0] = [rt[j0] EXCEPT ![k0] = One] /\ \A j \in RefIndex : j # j0 => rt'[j] = rt[j]
    BY <1>2, <1>3
  <2>3. \A k \in Slots : rt'[j0][k] = IF k = k0 THEN One ELSE rt[j0][k]
    BY <1>2, <1>3, <2>2 DEF Table
  <2> QED
    BY <2>1, <2>2, <2>3, EnvironmentAssumption
<1>5. ASSUME NEW g \in Guest, NEW j \in RefIndex, NEW k \in Slots, j = L1Of(g), k = L2Of(g)
      PROVE  /\ Unread(g)' => Unread(g)
             /\ j = j0 /\ k = k0 => ~Unread(g)'
  <2>1. Unread(g) = (rt[j] = NoTable \/ rt[j][k].n = 0)
    BY <1>5 DEF Unread, RefCount
  <2>2. Unread(g)' = (rt'[j] = NoTable \/ rt'[j][k].n = 0)
    BY <1>5 DEF Unread, RefCount
  <2>3. One.n # 0
    BY DEF One
  <2> QED
    BY <1>1, <1>2, <1>4, <2>1, <2>2, <2>3
<1>6. RefEntry(j0).n # 0
  BY <1>1, <1>2 DEF Sound, RefInv, RefsLinked
<1>7. \A j \in RefIndex : RefEntry(j)' = RefEntry(j)
  <2>1. CASE UNCHANGED file
    BY <2>1, FileKept DEF Sound, IInv, TypeOK, EntriesKept
  <2>2. CASE ~UNCHANGED file
    BY <1>1, <2>2, RefCountWritten DEF UpdateRef, Sound, EntriesKept
  <2> QED
    BY <2>1, <2>2
<1>8. /\ \A j \in RefIndex, k \in Slots :
           RefCountOnDisk(j, k).n # 0 => RefCountOnDisk(j, k)'.n # 0
      /\ LowBits(RefEntry(j0).n) = 0 => RefCountOnDisk(j0, k0)'.n # 0
  <2>1. CASE LowBits(RefEntry(j0).n) # 0
    <3>1. UNCHANGED file
      BY <1>2, <2>1 DEF UpdateRef
    <3>2. RefsOnly
      BY <3>1, FileRefsOnly
    <3> QED
      BY <2>1, <3>2 DEF RefsOnly, RefsGrow
  <2>2. CASE LowBits(RefEntry(j0).n) = 0
    <3>1. PutWord(RefEntry(L1Of(Off)).n + L2Of(Off), One)
      BY <1>2, <2>2 DEF UpdateRef
    <3>2. \A j \in RefIndex, k \in Slots :
            RefCountOnDisk(j, k)' = IF j = j0 /\ k = k0 /\ RefBlock(j) # 0
                                    THEN One ELSE RefCountOnDisk(j, k)
      BY <1>1, <1>2, <2>2, <3>1, CountWritten DEF Sound
    <3>3. RefBlock(j0) # 0
      <4>1. RefEntry(j0).n \in Nat
        BY AtType DEF Sound, IInv, TypeOK, RefEntry, Word
      <4> QED
        BY <1>6, <2>2, <4>1 DEF RefBlock, Mask, LowBits
    <3> QED
      BY <3>2, <3>3 DEF One
  <2> QED
    BY <2>1, <2>2
<1>9. ASSUME NEW g \in Guest, NEW j \in RefIndex, NEW k \in Slots, j = L1Of(g), k = L2Of(g)
      PROVE  /\ UncountedOnDisk(g)' => UncountedOnDisk(g)
             /\ j = j0 /\ k = k0 => ~UncountedOnDisk(g)'
  <2>1. UncountedOnDisk(g) = (LowBits(RefEntry(j).n) = 0 /\ RefCountOnDisk(j, k).n = 0)
    BY <1>9 DEF UncountedOnDisk
  <2>2. UncountedOnDisk(g)' = (LowBits(RefEntry(j)'.n) = 0 /\ RefCountOnDisk(j, k)'.n = 0)
    BY <1>9 DEF UncountedOnDisk, LowBits
  <2> QED
    BY <1>7, <1>8, <2>1, <2>2
<1>10. \A g \in Guest : (Unread(g)' => Unread(g)) /\ (UncountedOnDisk(g)' => UncountedOnDisk(g))
  <2>1. ASSUME NEW g \in Guest
        PROVE  (Unread(g)' => Unread(g)) /\ (UncountedOnDisk(g)' => UncountedOnDisk(g))
    <3>1. CASE L1Of(g) \in RefIndex
      BY <1>5, <1>9, <3>1, GuestIndex
    <3>2. CASE L1Of(g) \notin RefIndex
      BY <3>2 DEF Unread, UncountedOnDisk
    <3> QED
      BY <3>1, <3>2
  <2> QED
    BY <2>1
<1>11. ASSUME NEW g \in Guest, g >= req.off, g < Off + Chunk
       PROVE  Counted(g)'
  <2>1. Off \in Nat /\ FrameOK /\ g \in Nat
    BY OffType, GuestIndex DEF Sound, IInv, TypeOK
  <2>2. CASE g < Off
    <3>1. Counted(g)
      BY <1>1, <1>11, <2>2 DEF CountedSoFar
    <3> QED
      BY <1>10, <3>1 DEF Counted
  <2>3. CASE g >= Off
    <3>1. L1Of(g) = j0 /\ L2Of(g) = k0
      BY <1>2, <1>11, <2>1, <2>3, ChunkSplit DEF InChunk
    <3>2. ~Unread(g)' /\ ~UncountedOnDisk(g)'
      BY <1>5, <1>9, <3>1
    <3> QED
      BY <3>1, <3>2 DEF Counted
  <2> QED
    BY <2>1, <2>2, <2>3
<1>12. ASSUME NEW g \in Guest, Index(g) = Index(Off)
       PROVE  Counted(g)'
  <2>1. L1Of(g) = j0 /\ L2Of(g) = k0
    BY <1>2, <1>12 DEF Index
  <2> QED
    BY <1>5, <1>9, <2>1 DEF Counted
<1> QED
  BY <1>10, <1>11, <1>12

LEMMA UpdateRefZeros ==
  ASSUME Sound, CountedSoFar, faults = 0, UpdateRef
  PROVE  ZerosCarried
<1>1. /\ \A g \in Guest : (Unread(g)' => Unread(g)) /\ (UncountedOnDisk(g)' => UncountedOnDisk(g))
      /\ \A g \in Guest : g >= req.off /\ g < Off + Chunk => Counted(g)'
      /\ \A g \in Guest : Index(g) \in uncounted /\ ~Counted(g)' => Index(g)' \in uncounted'
  <2>1. \A g \in Guest : Index(g)' = Index(g)
    BY DEF Index
  <2>2. uncounted' = uncounted \ {Index(Off)}
    BY DEF UpdateRef
  <2> QED
    BY <2>1, <2>2, CountedNow
<1>2. NextCluster /\ req' = req /\ handle = "open" /\ FrameOK /\ CallsOK
      /\ Off \in Nat /\ Chunk \in Nat
  BY OffType DEF UpdateRef, Sound, MapInv, InSession, IInv, TypeOK
<1>3. CASE done + Chunk = req.len /\ ReturnOk
  <2>1. ASSUME MemoryZeros, DiskZeros, NEW g \in Guest, Unread(g)' \/ UncountedOnDisk(g)'
        PROVE  MayBeZero(g)'
    <3>1. ~Counted(g)'
      BY <2>1 DEF Counted
    <3>2. Off + Chunk = req.off + req.len
      BY <1>2, <1>3 DEF Off, FrameOK
    <3>3. ~Written(g)
      BY <1>1, <3>1, <3>2 DEF Written
    <3>4. MayBeZero(g)
      BY <1>1, <1>2, <2>1 DEF MemoryZeros, DiskZeros
    <3>5. Zero \in allowed[g] => Zero \in allowed'[g]
      BY <1>3, <3>3 DEF ReturnOk
    <3> QED
      BY <1>1, <3>1, <3>4, <3>5 DEF MayBeZero
  <2> QED
    BY <1>3, <2>1 DEF ZerosCarried, MemoryZeros, DiskZeros, CountedSoFar, ReturnOk, EmptyFrame
<1>4. CASE pc' = "lookup" /\ done' = done + Chunk /\ allowed' = allowed
  <2>1. Off' = Off + Chunk
    BY <1>2, <1>4 DEF Off, FrameOK
  <2>2. ASSUME MemoryZeros, DiskZeros, NEW g \in Guest, Unread(g)' \/ UncountedOnDisk(g)'
        PROVE  MayBeZero(g)'
    <3>1. ~Counted(g)'
      BY <2>2 DEF Counted
    <3>2. MayBeZero(g)
      BY <1>1, <1>2, <2>2 DEF MemoryZeros, DiskZeros
    <3> QED
      BY <1>1, <1>4, <3>1, <3>2 DEF MayBeZero
  <2> QED
    BY <1>1, <1>2, <1>4, <2>1, <2>2 DEF ZerosCarried, MemoryZeros, DiskZeros, CountedSoFar
<1> QED
  BY <1>2, <1>3, <1>4 DEF NextCluster

(* The other steps, most crashes among them, leave the refcounts.          *)
LEMMA QuietZeros ==
  ASSUME Sound, CountedSoFar, faults = 0, OpenFails \/ Close \/ Lookup \/ UNCHANGED vars
  PROVE  ZerosCarried
<1>1. UNCHANGED file
  BY DEF OpenFails, Close, Lookup, LookupFails, LookupUnallocated, LookupUnreferenced,
         LookupInPlace, LookupShared, vars, file
<1>2. RefsKept
  BY <1>1, FileKept, ReadsKept DEF Sound, IInv, TypeOK
<1>3. UNCHANGED <<allowed, uncounted>>
  BY DEF OpenFails, Close, Lookup, LookupFails, LookupUnallocated, LookupUnreferenced,
         LookupInPlace, LookupShared, vars, Continue, ReturnError, ghosts, marks, UseMapped
<1>4. (rt' = rt /\ handle' = handle) \/ handle' = "closed"
  BY DEF OpenFails, Close, Lookup, LookupFails, LookupUnallocated, LookupUnreferenced,
         LookupInPlace, LookupShared, vars, Release, context
<1>5. pc' = "idle" \/ (pc # "idle" /\ UNCHANGED <<handle, req, done>>)
  BY DEF OpenFails, Close, Lookup, LookupFails, LookupUnallocated, LookupUnreferenced,
         LookupInPlace, LookupShared, vars, Release, context, Continue, ReturnError,
         EmptyFrame, Sound, MapInv, InSession
<1> QED
  BY <1>2, <1>3, <1>4, <1>5, SameZeros

LEMMA KilledZeros ==
  ASSUME Sound, CountedSoFar, faults = 0, Crash
  PROVE  ZerosCarried
<1>1. handle' = "closed" /\ pc' = "idle" /\ allowed' = allowed
  BY DEF Crash, Release, EmptyFrame
<1>2. CASE KilledFile /\ uncounted' = uncounted
  <2>1. RefsKept
    <3>1. CASE UNCHANGED file
      BY <3>1, FileKept, ReadsKept DEF Sound, IInv, TypeOK
    <3>2. ASSUME NEW end \in eof .. ExtendedEof, ZeroTo(end)
          PROVE  RefsKept
      <4>1. end \in Nat /\ end >= eof
        BY ExtendedEofRange DEF Sound, IInv, TypeOK, FileOK, ContextOK
      <4> QED
        BY <3>2, <4>1, ExtensionKept, ReadsKept DEF Sound, IInv, TypeOK
    <3>3. CASE pc = "write_data" /\ \E m \in 1 .. Chunk : PutData(m)
      <4>1. PICK m \in 0 .. Chunk : PutData(m)
        BY <3>3
      <4> QED
        BY <3>3, <4>1, DataRefs DEF Sound
    <3> QED
      BY <1>2, <3>1, <3>2, <3>3 DEF KilledFile
  <2> QED
    BY <1>1, <1>2, <2>1, SameZeros
<1>3. CASE Lose /\ uncounted' = uncounted \cup {late.of}
  <2>1. ASSUME DiskZeros, NEW g \in Guest, UncountedOnDisk(g)'
        PROVE  MayBeZero(g)'
    <3>1. PICK j \in RefIndex, k \in Slots : j = L1Of(g) /\ k = L2Of(g)
      BY <2>1, GuestIndex DEF UncountedOnDisk
    <3>2. RefEntry(j)' = RefEntry(j)
      BY <1>3, LoseKept DEF Sound, EntriesKept
    <3>3. UncountedOnDisk(g)' = (LowBits(RefEntry(j)'.n) = 0 /\ RefCountOnDisk(j, k)'.n = 0)
      BY <3>1 DEF UncountedOnDisk, LowBits
    <3>4. UncountedOnDisk(g) = (LowBits(RefEntry(j).n) = 0 /\ RefCountOnDisk(j, k).n = 0)
      BY <3>1 DEF UncountedOnDisk
    <3>5. CASE UncountedOnDisk(g)
      BY <1>1, <1>3, <2>1, <3>5 DEF DiskZeros, MayBeZero, Index
    <3>6. CASE ~UncountedOnDisk(g)
      <4>1. <<j, k>> = <<late.of[1], late.of[2]>>
        BY <1>3, <2>1, <3>2, <3>3, <3>4, <3>6, LoseCounts DEF Sound
      <4>2. late.of \in Nat \X Nat
        BY DEF Sound, IInv, TypeOK, BufferOK
      <4>3. Index(g)' = late.of
        BY <3>1, <4>1, <4>2 DEF Index
      <4> QED
        BY <1>3, <4>3 DEF MayBeZero
    <3> QED
      BY <3>5, <3>6
  <2> QED
    BY <1>1, <2>1 DEF ZerosCarried, CountedSoFar, MemoryZeros, DiskZeros
<1> QED
  BY <1>2, <1>3 DEF Crash

LEMMA WritingZeros ==
  ASSUME Sound, CountedSoFar, faults = 0,
         ExtendData \/ ExtendL2 \/ ExtendRef \/ SetEntry \/ LinkL2 \/ WriteData
  PROVE  ZerosCarried
<1>1. UNCHANGED <<rt, handle, req, done, allowed, uncounted>> /\ pc # "idle"
  BY DEF ExtendData, ExtendL2, ExtendRef, SetEntry, LinkL2, WriteData, Continue, context, marks
<1>2. CASE ExtendData \/ ExtendL2 \/ ExtendRef
  <2>1. ZeroTo(ExtendedEof)
    BY <1>2 DEF ExtendData, ExtendL2, ExtendRef
  <2>2. ExtendedEof \in Nat /\ ExtendedEof >= eof
    BY ExtendedEofRange, SizesAssumption DEF Sound, IInv, TypeOK, FileOK, ContextOK
  <2>3. RefsKept
    BY <2>1, <2>2, ExtensionKept, ReadsKept DEF Sound, IInv, TypeOK
  <2> QED
    BY <1>1, <2>3, SameZeros
<1>3. CASE SetEntry \/ LinkL2
  <2>1. RefsKept
    BY <1>3, MappingRefsKept DEF Sound
  <2> QED
    BY <1>1, <2>1, SameZeros
<1>4. CASE WriteData
  <2>1. pc = "write_data" /\ PutData(Chunk) /\ Chunk \in 0 .. Chunk
    BY <1>4, OffType DEF WriteData, Sound, IInv, TypeOK
  <2>2. RefsKept
    BY <2>1, DataRefs DEF Sound
  <2> QED
    BY <1>1, <2>2, SameZeros
<1> QED
  BY <1>2, <1>3, <1>4

LEMMA ZeroStep ==
  ASSUME SoundRefs, CountInv, [Next]_vars
  PROVE  CountInv' /\ (ZeroInv => ZeroInv')
<1>1. ASSUME faults' = 0
      PROVE  faults = 0 /\ ~Failure
  BY <1>1, NoFailure DEF SoundRefs, SoundMap, SoundClaims
<1>2. ASSUME faults' = 0
      PROVE  ZerosCarried
  <2>1. CountedSoFar /\ faults = 0 /\ ~Failure
    BY <1>1, <1>2 DEF CountInv
  <2>2. Sound
    BY <2>1, KeptSound DEF Kept
  <2> QED
    BY <2>1, <2>2, OpenZeros, StartZeros, QuietZeros, KilledZeros, WritingZeros, LinkRefZeros,
       UpdateRefZeros DEF Next, Step
<1> QED
  BY <1>1, <1>2 DEF CountInv, ZeroInv, ZerosCarried

LEMMA ZeroInit ==
  ASSUME Init
  PROVE  CountInv /\ (DataCounted => ZeroInv)
<1>1. DataCounted => DiskZeros
  BY DEF Init, DataCounted, DiskZeros, MayBeZero
<1> QED
  BY <1>1 DEF Init, CountInv, ZeroInv, MemoryZeros, CountedSoFar

LEMMA ReadFromDisk ==
  ASSUME Sound, faults = 0, handle = "open", NEW g \in Guest,
         ReadStatus(g) \in {"no_error", "zeros"}
  PROVE  ReadWord(g) = DiskWord(g) \/ (Unread(g) /\ ReadWord(g) = Zero)
<1>1. PICK i \in L1Index, k \in Slots : i = L1Of(g) /\ k = L2Of(g)
  BY GuestIndex
<1>2. RefInRange(g)
  BY DEF ReadStatus
<1>3. CASE RefCount(g) = 0
  BY <1>2, <1>3 DEF ReadStatus, ReadWord, Unread, RefInRange
<1>4. CASE RefCount(g) # 0
  <2>1. Lba(g) \in {"no_error", "unallocated_cluster"}
    <3>1. Lba(g) # "zeros"
      BY DEF Lba
    <3> QED
      BY <1>2, <1>4, <3>1 DEF ReadStatus
  <2>2. l1[i] # NoTable
    BY <1>1, <2>1 DEF Lba
  <2>3. l1[i][k] = L2Entry(i, k) /\ l1[i][k] = Mapped(g)
    BY <1>1, <2>2 DEF Sound, MapInv, TablesCoherent, Reported, TablesAgree, Mapped
  <2>4. CASE Lba(g) = "unallocated_cluster"
    <3>1. Mapped(g).n = 0
      BY <1>1, <2>2, <2>4 DEF Lba
    <3>2. DiskWord(g) = Zero
      BY <1>1, <2>3, <3>1, MaskOfZero DEF DiskWord
    <3> QED
      BY <1>2, <2>4, <3>2 DEF ReadStatus, ReadWord
  <2>5. CASE Lba(g) = "no_error"
    <3>1. ReadStatus(g) = "no_error" /\ LowBits(Mapped(g).n) = 0
      BY <1>2, <1>4, <2>5 DEF ReadStatus
    <3>2. Mapped(g).n # 0
      BY <1>1, <2>2, <2>5 DEF Lba
    <3>3. Mask(Mapped(g).n) = Mapped(g).n
      <4>1. Mapped(g).n \in Nat
        BY <2>3, PlaceType DEF Word, Sound, IInv, TypeOK
      <4> QED
        BY <3>1, <4>1 DEF Mask, LowBits
    <3> QED
      BY <1>1, <2>3, <3>1, <3>2, <3>3 DEF ReadWord, DiskWord
  <2> QED
    BY <2>1, <2>4, <2>5
<1> QED
  BY <1>3, <1>4

(* On an image that counts each guest cluster which does not read as       *)
(* zeros, and as long as no write failed: in every session and whatever    *)
(* crashes came before, a qread that reports no error returns what the     *)
(* word held, what the last call that succeeded put there, or what a later *)
(* one was to put; or zeros, where a kill caught the refcount of the       *)
(* cluster in the buffer and no call has counted it since.                 *)
THEOREM ReadsTheorem == Spec /\ ZeroFlagsCounted /\ DataCounted => []ReadsAllowed
<1>1. Init /\ ZeroFlagsCounted /\ DataCounted => SoundRefs /\ DataInv /\ CountInv /\ ZeroInv
  BY SoundInit, DataInit, ZeroInit
<1>2. SoundRefs /\ DataInv /\ CountInv /\ ZeroInv /\ [Next]_vars
        => SoundRefs' /\ DataInv' /\ CountInv' /\ ZeroInv'
  BY SoundRefsStep, DataStep, ZeroStep
<1>3. SoundRefs /\ DataInv /\ ZeroInv => ReadsAllowed
  <2> SUFFICES ASSUME SoundRefs, DataInv, ZeroInv, faults = 0, handle = "open", NEW g \in Guest,
                      ReadStatus(g) \in {"no_error", "zeros"}
               PROVE  \/ ReadWord(g) \in allowed[g]
                      \/ ReadStatus(g) = "zeros" /\ Index(g) \in uncounted
    BY DEF ReadsAllowed
  <2>1. Sound
    BY KeptSound DEF Kept
  <2>2. DiskWord(g) \in allowed[g]
    BY DEF DataInv, Kept, DataParts, DataOnDisk
  <2>3. Unread(g) => MayBeZero(g)
    BY DEF ZeroInv, MemoryZeros
  <2>4. Unread(g) => ReadStatus(g) = "zeros"
    BY DEF ReadStatus, Unread
  <2> QED
    BY <2>1, <2>2, <2>3, <2>4, ReadFromDisk DEF MayBeZero
<1> QED
  BY <1>1, <1>2, <1>3, PTL DEF Spec

-----------------------------------------------------------------------------
(* What a call that returned no error is read back as.                     *)

(* A first session in which nothing failed.                                *)
Unbroken == WholeSession /\ faults = 0 /\ ~erred

(* The L2 table in memory leads to a whole word of the file.               *)
Served(g) ==
  /\ l1[L1Of(g)] # NoTable
  /\ Mapped(g).n # 0
  /\ Mapped(g).n % ClusterSize = 0
  /\ Mapped(g).n + (g % ClusterSize) < eof

EntryAligned == pc \in Holding => entry.n % ClusterSize = 0

ServedSoFar == pc # "idle" => \A g \in Guest : g >= req.off /\ g < Off => Served(g)

ChunkServed ==
  pc \in {"update_ref", "link_ref"} => \A g \in Guest : InChunk(g, Chunk) => Served(g)

CallServed ==
  pc = "idle" /\ calls > 0 => \A g \in Guest : Written(g) => Served(g) /\ Counted(g)

BackInv == Unbroken => EntryAligned /\ ServedSoFar /\ ChunkServed /\ CallServed

LEMMA AlignedMask ==
  ASSUME NEW n \in Nat, n % ClusterSize = 0
  PROVE  LowBits(n) = 0 /\ Mask(n) = n
<1>1. n % Sector = 0
  BY MultipleOfMultiple, SizesAssumption
<1> QED
  BY <1>1 DEF LowBits, Mask

LEMMA MappedWord ==
  ASSUME ContextOK, NEW g \in Guest, l1[L1Of(g)] # NoTable
  PROVE  Mapped(g) \in Word
<1>1. PICK i \in L1Index, k \in Slots : i = L1Of(g) /\ k = L2Of(g)
  BY GuestIndex
<1>2. l1[i] \in Table
  BY <1>1 DEF ContextOK
<1> QED
  BY <1>1, <1>2 DEF Mapped, Table

(* A longer file serves as much.                                           *)
LEMMA ServedKept ==
  ASSUME ContextOK, eof \in Nat, eof' \in Nat, eof' >= eof,
         NEW g \in Guest, Served(g), l1[L1Of(g)]' = l1[L1Of(g)]
  PROVE  Served(g)'
<1>1. PICK n \in Nat, o \in Slots : n = Mapped(g).n /\ o = g % ClusterSize
  <2>1. Mapped(g) \in Word
    BY MappedWord DEF Served
  <2>2. Mapped(g).n \in Nat
    BY <2>1 DEF Word
  <2> QED
    BY <2>2, GuestIndex
<1>2. Mapped(g)' = Mapped(g)
  BY DEF Mapped
<1>3. n + o < eof'
  BY <1>1 DEF Served, Slots
<1> QED
  BY <1>1, <1>2, <1>3 DEF Served

LEMMA UnbrokenBefore ==
  ASSUME SoundRefs, [Next]_vars, Unbroken'
  PROVE  /\ Open \/ Unbroken
         /\ handle' = "open" /\ ~Failure /\ ~Crash /\ ~Close /\ ~OpenFails /\ ~LookupFails
         /\ ~LookupShared
<1>1. handle' = "open" /\ opens' = 1 /\ base' % ClusterSize = 0 /\ faults' = 0 /\ ~erred'
  BY DEF Unbroken, WholeSession
<1>2. ~Failure /\ faults = 0
  BY <1>1, NoFailure DEF SoundRefs, SoundMap, SoundClaims
<1>3. ~Crash /\ ~Close /\ ~OpenFails /\ ~LookupFails /\ ~LookupShared
  BY <1>1 DEF Crash, Close, OpenFails, LookupFails, LookupShared, ReturnError, Release, context
<1>4. Open \/ ~erred
  BY <1>1, ErrorsStay DEF SoundRefs, SoundMap, SoundClaims
<1>5. Open \/ (handle = "open" /\ base' = base /\ opens' = opens)
  BY <1>1, HandleKept
<1> QED
  BY <1>1, <1>2, <1>3, <1>4, <1>5 DEF Unbroken, WholeSession

LEMMA UnbrokenSound ==
  ASSUME SoundRefs, Unbroken
  PROVE  Sound
  BY KeptSound DEF Unbroken, Kept

LEMMA UnbrokenSoundNext ==
  ASSUME SoundRefs', Unbroken'
  PROVE  Sound'
<1>1. (TypeOK /\ Counters)' /\ faults' = 0
  BY DEF SoundRefs, SoundMap, SoundClaims, Unbroken
<1>2. ~retried'
  BY <1>1 DEF Counters, TypeOK, CallsOK
<1> QED
  BY <1>2, SoundNext

(* A write that leaves the mapping in memory and where the call is.        *)
LEMMA ServedStay ==
  ASSUME Sound, FileOK', eof' >= eof, BackInv, Unbroken, l1' = l1, pc # "idle", pc' # "idle",
         UNCHANGED <<req, done>>, EntryAligned',
         \A g \in Guest :
           pc' \in {"update_ref", "link_ref"} /\ InChunk(g, Chunk) => Served(g)'
  PROVE  BackInv'
<1>1. ContextOK /\ eof \in Nat /\ eof' \in Nat
  BY DEF Sound, IInv, TypeOK, FileOK
<1>2. \A g \in Guest : Served(g) => Served(g)'
  BY <1>1, ServedKept
<1>3. Off' = Off /\ Chunk' = Chunk
  BY OffKept DEF Chunk, Smaller
<1>4. ServedSoFar'
  BY <1>2, <1>3 DEF BackInv, ServedSoFar
<1>5. ChunkServed'
  BY <1>3 DEF ChunkServed, InChunk
<1> QED
  BY <1>4, <1>5 DEF BackInv, CallServed

LEMMA OpenServed ==
  ASSUME Sound, Open \/ StartWrite, Unbroken'
  PROVE  BackInv'
<1>1. CASE Open
  <2>1. calls' = 0
    BY <1>1 DEF Open, Unbroken, WholeSession, Sound, Counters, IInv, TypeOK, CallsOK
  <2>2. pc' = "idle"
    BY <1>1 DEF Open, Sound, MapInv, InSession
  <2> QED
    BY <2>1, <2>2 DEF BackInv, EntryAligned, Holding, ServedSoFar, ChunkServed, CallServed
<1>2. CASE StartWrite
  <2>1. pc' = "lookup" /\ done' = 0 /\ req' \in Requests
    BY <1>2 DEF StartWrite
  <2>2. Off' = req'.off /\ req'.off \in Nat
    BY <2>1, EnvironmentAssumption DEF Off
  <2> QED
    BY <2>1, <2>2, GuestIndex
       DEF BackInv, EntryAligned, Holding, ServedSoFar, ChunkServed, CallServed
<1> QED
  BY <1>1, <1>2

LEMMA LookupServed ==
  ASSUME Sound, BackInv, Unbroken, Unbroken',
         LookupUnallocated \/ LookupUnreferenced \/ LookupInPlace
  PROVE  BackInv'
<1>1. pc = "lookup" /\ UNCHANGED <<req, done, l1, file>>
  BY DEF Unbroken, LookupUnallocated, LookupUnreferenced, LookupInPlace, Continue, ReturnError,
         context
<1>2. FileOK' /\ eof' >= eof
  BY <1>1, FileKept DEF Sound, IInv, TypeOK
<1>3. CASE LookupUnallocated
  BY <1>1, <1>2, <1>3, ServedStay DEF LookupUnallocated, Continue, EntryAligned, Holding
<1>4. CASE LookupUnreferenced \/ LookupInPlace
  <2>1. Lba(Off) = "no_error"
    BY <1>4 DEF LookupUnreferenced, LookupInPlace
  <2>2. Mask(Mapped(Off).n) % ClusterSize = 0
    BY <2>1 DEF Lba
  <2>3. Mapped(Off).n \in Nat
    BY <2>1, MappedType DEF Sound, IInv, TypeOK, Word
  <2>4. LowBits(Mapped(Off).n) = 0 => Mask(Mapped(Off).n) = Mapped(Off).n
    BY <2>3 DEF Mask, LowBits
  <2>5. pc' \in {"set_entry", "write_data"} /\ entry'.n % ClusterSize = 0
    BY <1>4, <2>2, <2>4
       DEF LookupUnreferenced, LookupInPlace, Continue, ReturnError, Unbroken
  <2> QED
    BY <1>1, <1>2, <2>5, ServedStay DEF EntryAligned
<1> QED
  BY <1>3, <1>4

LEMMA ExtendServed ==
  ASSUME Sound, BackInv, Unbroken, ExtendData \/ ExtendL2 \/ ExtendRef
  PROVE  BackInv'
<1>1. /\ ZeroTo(ExtendedEof) /\ UNCHANGED <<req, done, l1>>
      /\ pc \in {"extend_data", "set_entry", "update_ref"}
      /\ pc' \in {"set_entry", "link_l2", "link_ref"}
  BY DEF ExtendData, ExtendL2, ExtendRef, Continue, context
<1>2. ExtendedEof \in Nat /\ ExtendedEof >= eof
  BY ExtendedEofRange, SizesAssumption DEF Sound, IInv, TypeOK, FileOK, ContextOK
<1>3. FileOK' /\ eof' = ExtendedEof
  BY <1>1, <1>2, ExtensionKept DEF Sound
<1>4. EntryAligned'
  <2>1. CASE ExtendData
    <3>1. ExtendedEof % ClusterSize = 0
      <4>1. ClusterSize % ClusterSize = 0
        BY SizesAssumption
      <4> QED
        BY <4>1, ExtendedEofMultiple, SizesAssumption
           DEF Unbroken, WholeSession, Sound, IInv, TypeOK, FileOK, ContextOK
    <3>2. Mask(ExtendedEof) = ExtendedEof
      BY <1>2, <3>1, AlignedMask
    <3> QED
      BY <2>1, <3>1, <3>2 DEF ExtendData, EntryAligned
  <2>2. CASE ExtendL2 \/ ExtendRef
    BY <2>2 DEF ExtendL2, ExtendRef, BackInv, EntryAligned, Holding
  <2> QED
    BY <2>1, <2>2
<1>5. ASSUME NEW g \in Guest, pc' \in {"update_ref", "link_ref"}, InChunk(g, Chunk)
      PROVE  Served(g)'
  <2>1. ExtendRef
    BY <1>5 DEF ExtendData, ExtendL2, Continue
  <2>2. Served(g)
    BY <1>5, <2>1 DEF ExtendRef, BackInv, ChunkServed
  <2> QED
    BY <1>1, <1>2, <1>3, <2>2, ServedKept DEF Sound, IInv, TypeOK, FileOK
<1> QED
  BY <1>1, <1>2, <1>3, <1>4, <1>5, ServedStay

LEMMA LinkRefServed ==
  ASSUME Sound, Sound', BackInv, Unbroken, LinkRef
  PROVE  BackInv'
<1>1. /\ pc = "link_ref" /\ pc' = "update_ref" /\ UNCHANGED <<req, done, l1, entry>>
      /\ eof' >= eof
  BY LinkedRefEntries DEF LinkRef, Continue, Sound
<1>2. ContextOK /\ eof \in Nat /\ eof' \in Nat /\ FileOK'
  BY DEF Sound, IInv, TypeOK, FileOK
<1>3. \A g \in Guest : InChunk(g, Chunk) => Served(g)'
  BY <1>1, <1>2, ServedKept DEF BackInv, ChunkServed
<1>4. EntryAligned'
  BY <1>1 DEF BackInv, EntryAligned, Holding
<1> QED
  BY <1>1, <1>2, <1>3, <1>4, ServedStay

(* A new L2 table takes the place of none.                                 *)
LEMMA LinkL2Served ==
  ASSUME Sound, Sound', BackInv, Unbroken, LinkL2
  PROVE  BackInv'
<1>1. /\ pc = "link_l2" /\ pc' = "set_entry" /\ UNCHANGED <<req, done, entry>>
      /\ l1' = [l1 EXCEPT ![L1Of(Off)] = [k \in Slots |-> Zero]]
      /\ eof' >= eof
  BY LinkedL2Entries DEF LinkL2, Continue, Sound
<1>2. ContextOK /\ eof \in Nat /\ eof' \in Nat
  BY DEF Sound, IInv, TypeOK, FileOK
<1>3. l1[L1Of(Off)] = NoTable
  BY <1>1 DEF Sound, MapInv, NewTable
<1>4. ASSUME NEW g \in Guest, Served(g)
      PROVE  Served(g)'
  <2>1. PICK i \in L1Index : i = L1Of(g) /\ i # L1Of(Off)
    BY <1>3, <1>4, GuestIndex DEF Served
  <2>2. l1'[i] = l1[i]
    BY <1>1, <1>2, <2>1 DEF ContextOK
  <2> QED
    BY <1>1, <1>2, <1>4, <2>1, <2>2, ServedKept
<1>5. Off' = Off
  BY <1>1, OffKept
<1>6. ServedSoFar'
  BY <1>1, <1>4, <1>5 DEF BackInv, ServedSoFar
<1> QED
  BY <1>1, <1>6 DEF BackInv, EntryAligned, Holding, ChunkServed, CallServed

(* The new entry of a cluster that the call wrote already is the old one.  *)
LEMMA SetEntryServed ==
  ASSUME Sound, Sound', DataInv, BackInv, Unbroken, SetEntry
  PROVE  BackInv'
<1>1. /\ pc = "set_entry" /\ pc' = "write_data" /\ UNCHANGED <<req, done, entry>>
      /\ PutMapping /\ l1[L1Of(Off)] # NoTable /\ eof' >= eof
  BY MappedEntries DEF SetEntry, Continue, Sound
<1>2. ContextOK /\ eof \in Nat /\ eof' \in Nat
  BY DEF Sound, IInv, TypeOK, FileOK
<1>3. PICK i0 \in L1Index, k0 \in Slots : i0 = L1Of(Off) /\ k0 = L2Of(Off)
  BY <1>1, OffType DEF Sound, IInv, TypeOK, IndexChecked, AfterLookup
<1>4. /\ \A i \in L1Index : i # i0 => l1'[i] = l1[i]
      /\ \A k \in Slots : l1'[i0][k] = IF k = k0 THEN entry ELSE l1[i0][k]
      /\ l1'[i0] # NoTable
  <2>1. l1[i0] \in Table /\ l1' = [l1 EXCEPT ![i0] = [l1[i0] EXCEPT ![k0] = entry]]
    BY <1>1, <1>2, <1>3 DEF PutMapping, ContextOK
  <2>2. [l1[i0] EXCEPT ![k0] = entry] \in Table
    BY <1>3, <2>1 DEF Table, Sound, IInv, TypeOK, FrameOK
  <2>3. l1'[i0] = [l1[i0] EXCEPT ![k0] = entry] /\ \A i \in L1Index : i # i0 => l1'[i] = l1[i]
    BY <1>2, <1>3, <2>1 DEF ContextOK
  <2>4. \A k \in Slots : l1'[i0][k] = IF k = k0 THEN entry ELSE l1[i0][k]
    BY <1>3, <2>1, <2>3 DEF Table
  <2> QED
    BY <2>2, <2>3, <2>4, EnvironmentAssumption
<1>5. entry.n \in Nat /\ entry.n % ClusterSize = 0 /\ Mask(entry.n) = entry.n
  <2>1. entry.n \in Nat /\ entry.n % ClusterSize = 0
    BY <1>1 DEF BackInv, EntryAligned, Holding, Sound, IInv, TypeOK, FrameOK, Word
  <2> QED
    BY <2>1, AlignedMask
<1>6. ASSUME NEW g \in Guest, Served(g)
      PROVE  Served(g)'
  <2>1. PICK i \in L1Index, k \in Slots : i = L1Of(g) /\ k = L2Of(g)
    BY GuestIndex
  <2>2. PICK n \in Nat, o \in Slots : n = Mapped(g).n /\ o = g % ClusterSize
    <3>1. Mapped(g) \in Word
      BY <1>2, <1>6, MappedWord DEF Served
    <3>2. Mapped(g).n \in Nat
      BY <3>1 DEF Word
    <3> QED
      BY <3>2, GuestIndex
  <2>3. Mapped(g)'.n = n /\ l1'[i] # NoTable
    <3>1. CASE i # i0
      BY <1>4, <1>6, <2>1, <2>2, <3>1 DEF Mapped, Served
    <3>2. CASE i = i0 /\ k # k0
      BY <1>4, <2>1, <2>2, <3>2 DEF Mapped
    <3>3. CASE i = i0 /\ k = k0
      <4>1. Mapped(Off) = Here /\ Mapped(g) = Here
        BY <1>1, <1>3, <2>1, <3>3, MappedHere DEF Unbroken, Reported, Sound, Mapped
      <4>2. Mask(n) = n /\ n # 0
        BY <1>6, <2>2, AlignedMask DEF Served
      <4>3. n = entry.n
        BY <1>1, <1>5, <2>2, <4>1, <4>2 DEF Sound, MapInv, EntryFits, Reported, Unbroken
      <4> QED
        BY <1>4, <2>1, <3>3, <4>3 DEF Mapped
    <3> QED
      BY <3>1, <3>2, <3>3
  <2>4. n # 0 /\ n % ClusterSize = 0 /\ n + o < eof'
    <3>1. n # 0 /\ n % ClusterSize = 0 /\ n + o < eof
      BY <1>6, <2>2 DEF Served
    <3> QED
      BY <1>1, <1>2, <3>1 DEF Slots
  <2> QED
    BY <2>1, <2>2, <2>3, <2>4 DEF Served
<1>7. Off' = Off
  BY <1>1, OffKept
<1>8. ServedSoFar'
  BY <1>1, <1>6, <1>7 DEF BackInv, ServedSoFar
<1> QED
  BY <1>1, <1>8 DEF BackInv, EntryAligned, Holding, ChunkServed, CallServed

LEMMA WriteDataServed ==
  ASSUME Sound, Sound', BackInv, Unbroken, WriteData, Mask(entry.n) # 0
  PROVE  BackInv'
<1>1. /\ pc = "write_data" /\ pc' = "update_ref" /\ UNCHANGED <<req, done, l1, entry>>
      /\ PutData(Chunk)
  BY DEF WriteData, Continue, context
<1>2. ContextOK /\ FrameOK /\ eof \in Nat /\ eof' \in Nat /\ FileOK' /\ Off \in Nat /\ Chunk \in Nat
  BY OffType DEF Sound, IInv, TypeOK, FileOK
<1>3. eof' >= eof
  BY <1>1, <1>2, PutDataReads DEF Sound, IInv
<1>4. entry.n \in Nat /\ entry.n % ClusterSize = 0 /\ Mask(entry.n) = entry.n
  <2>1. entry.n \in Nat /\ entry.n % ClusterSize = 0
    BY <1>1 DEF BackInv, EntryAligned, Holding, Sound, IInv, TypeOK, FrameOK, Word
  <2> QED
    BY <2>1, AlignedMask
<1>5. PICK i0 \in L1Index, k0 \in Slots : i0 = L1Of(Off) /\ k0 = L2Of(Off)
  BY <1>1, OffType DEF Sound, IInv, TypeOK, IndexChecked, AfterLookup
<1>6. l1[i0] # NoTable /\ l1[i0][k0] = entry
  <2>1. l1[i0] # NoTable /\ Here = entry
    BY <1>1, <1>5 DEF Sound, MapInv, EntryFits, Reported, Unbroken
  <2>2. Mapped(Off) = Here
    BY <1>1, <1>5, <2>1, MappedHere DEF Sound, Reported, Unbroken
  <2> QED
    BY <1>5, <2>1, <2>2 DEF Mapped
<1>7. ASSUME NEW g \in Guest, InChunk(g, Chunk)
      PROVE  Served(g)'
  <2>1. /\ g \in Nat /\ L1Of(g) = i0 /\ L2Of(g) = k0
        /\ g % ClusterSize = (Off % ClusterSize) + (g - Off)
    BY <1>2, <1>5, <1>7, GuestIndex, ChunkSplit
  <2>2. PICK o \in Slots, r \in Slots : o = g % ClusterSize /\ r = Off % ClusterSize
    BY <1>2, GuestIndex, GuestSplit
  <2>3. o < r + Chunk
    BY <1>2, <1>7, <2>1, <2>2 DEF InChunk, Slots
  <2>4. eof' = IF Chunk = 0 THEN eof ELSE Larger(eof, (entry.n + r) + Chunk)
    BY <1>1, <1>4, <2>2 DEF PutData
  <2>5. Chunk # 0
    BY <1>2, <1>7, <2>1 DEF InChunk
  <2>6. entry.n + o < eof'
    BY <1>2, <1>4, <2>3, <2>4, <2>5 DEF Larger, Slots
  <2>7. Mapped(g)' = entry /\ l1'[L1Of(g)] # NoTable
    BY <1>1, <1>6, <2>1 DEF Mapped
  <2>8. entry.n # 0
    BY <1>4
  <2> QED
    BY <1>4, <2>2, <2>6, <2>7, <2>8 DEF Served
<1>8. EntryAligned'
  BY <1>1 DEF BackInv, EntryAligned, Holding
<1> QED
  BY <1>1, <1>2, <1>3, <1>7, <1>8, ServedStay

LEMMA UpdateRefServed ==
  ASSUME Sound, Sound', CountedSoFar, BackInv, Unbroken, UpdateRef
  PROVE  BackInv'
<1>1. /\ pc = "update_ref" /\ NextCluster /\ UNCHANGED <<req, l1>> /\ eof' >= eof
      /\ FrameOK /\ ContextOK /\ eof \in Nat /\ eof' \in Nat /\ Off \in Nat /\ Chunk \in Nat
  <2>1. pc = "update_ref" /\ NextCluster /\ UNCHANGED <<req, l1>>
    BY DEF UpdateRef
  <2>2. /\ FrameOK /\ ContextOK /\ eof \in Nat /\ eof' \in Nat
        /\ Off \in Nat /\ Chunk \in Nat
    BY OffType DEF Sound, IInv, TypeOK, FileOK
  <2>3. eof' >= eof
    BY <2>1, <2>2, RefCountWritten DEF UpdateRef, Sound, file
  <2> QED
    BY <2>1, <2>2, <2>3
<1>2. ASSUME NEW g \in Guest, g >= req.off, g < Off + Chunk
      PROVE  Served(g)' /\ Counted(g)'
  <2>1. Served(g)
    BY <1>1, <1>2, GuestIndex DEF BackInv, ServedSoFar, ChunkServed, InChunk
  <2>2. Served(g)'
    BY <1>1, <2>1, ServedKept
  <2> QED
    BY <1>2, <2>2, CountedNow DEF Unbroken
<1>3. CASE done + Chunk = req.len /\ ReturnOk
  <2>1. Off + Chunk = req.off + req.len
    BY <1>1, <1>3 DEF Off, FrameOK
  <2>2. CallServed'
    BY <1>1, <1>2, <2>1 DEF CallServed, Written
  <2> QED
    BY <1>3, <2>2 DEF ReturnOk, EmptyFrame, BackInv, EntryAligned, Holding, ServedSoFar,
                      ChunkServed
<1>4. CASE pc' = "lookup" /\ done' = done + Chunk
  <2>1. Off' = Off + Chunk
    BY <1>1, <1>4 DEF Off, FrameOK
  <2>2. ServedSoFar'
    BY <1>1, <1>2, <2>1 DEF ServedSoFar
  <2> QED
    BY <1>4, <2>2 DEF BackInv, EntryAligned, Holding, ChunkServed, CallServed
<1> QED
  BY <1>1, <1>3, <1>4 DEF NextCluster

LEMMA BackStep ==
  ASSUME SoundRefs, SoundRefs', DataInv, CountInv, BackInv, [Next]_vars
  PROVE  BackInv'
<1>1. ASSUME Unbroken', ~Open, ~StartWrite, ~UNCHANGED vars
      PROVE  BackInv'
  <2>1. /\ Unbroken /\ faults = 0
        /\ ~Failure /\ ~Crash /\ ~Close /\ ~OpenFails /\ ~LookupFails /\ ~LookupShared
    BY <1>1, UnbrokenBefore DEF Unbroken
  <2>2. CountedSoFar
    BY <2>1 DEF CountInv
  <2>3. pc = "write_data" => Mask(entry.n) # 0
    BY <2>1 DEF DataInv, DataParts, Kept, EntryThere, Holding
  <2>4. WriteData => pc = "write_data"
    BY DEF WriteData
  <2>5. Sound /\ Sound'
    BY <1>1, <2>1, UnbrokenSound, UnbrokenSoundNext
  <2> QED
    BY <1>1, <2>1, <2>2, <2>3, <2>4, <2>5, LookupServed, ExtendServed, LinkRefServed, LinkL2Served,
       SetEntryServed, WriteDataServed, UpdateRefServed DEF Next, Step, Lookup
<1>2. ASSUME UNCHANGED vars
      PROVE  BackInv'
  <2>1. \A g \in Guest : Served(g)' = Served(g) /\ Counted(g)' = Counted(g)
    BY <1>2 DEF vars, Served, Counted, Mapped, Unread, RefCount, UncountedOnDisk, LowBits, RefEntry,
                RefCountOnDisk, RefBlock, Mask, At, Zero
  <2> QED
    BY <1>2, <2>1 DEF vars, BackInv, Unbroken, WholeSession, EntryAligned, ServedSoFar,
                      ChunkServed, CallServed, Off, Chunk, Smaller, InChunk, Written
<1>3. ASSUME Unbroken', Open \/ StartWrite
      PROVE  BackInv'
  <2>1. faults = 0
    BY <1>3, NoFailure DEF Unbroken, SoundRefs, SoundMap, SoundClaims
  <2>2. Sound
    BY <2>1, KeptSound DEF Kept
  <2> QED
    BY <1>3, <2>2, OpenServed
<1> QED
  BY <1>1, <1>2, <1>3 DEF BackInv

(* What a call of the first session reported written is read back without  *)
(* error, as long as nothing failed, in a file that began with whole       *)
(* clusters: the cluster is mapped and counted in memory, at a boundary,   *)
(* and the file reaches as far as the words that were written.             *)
THEOREM ReadBackTheorem == Spec /\ ZeroFlagsCounted => []ReadBack
<1>1. Init /\ ZeroFlagsCounted => SoundRefs /\ DataInv /\ CountInv /\ BackInv
  <2>1. Init => BackInv
    BY DEF Init, BackInv, Unbroken, WholeSession
  <2> QED
    BY <2>1, SoundInit, DataInit, ZeroInit
<1>2. SoundRefs /\ DataInv /\ CountInv /\ BackInv /\ [Next]_vars
        => SoundRefs' /\ DataInv' /\ CountInv' /\ BackInv'
  BY SoundRefsStep, DataStep, ZeroStep, BackStep
<1>3. SoundRefs /\ BackInv => ReadBack
  <2> SUFFICES ASSUME SoundRefs, Sound, BackInv, Unbroken, pc = "idle", calls > 0,
                      NEW g \in Guest, Written(g)
               PROVE  ReadStatus(g) = "no_error"
    BY UnbrokenSound DEF ReadBack, Unbroken
  <2>1. Served(g) /\ Counted(g)
    BY DEF BackInv, CallServed
  <2>2. Mapped(g).n \in Nat
    <3>1. Mapped(g) \in Word
      BY <2>1, MappedWord DEF Served, Sound, IInv, TypeOK
    <3> QED
      BY <3>1 DEF Word
  <2>3. LowBits(Mapped(g).n) = 0 /\ Mask(Mapped(g).n) = Mapped(g).n
    BY <2>1, <2>2, AlignedMask DEF Served
  <2>4. Lba(g) = "no_error"
    BY <2>1, <2>3, GuestIndex DEF Lba, Served
  <2>5. RefInRange(g) /\ RefCount(g) # 0
    BY <2>1 DEF Counted, Unread, RefInRange
  <2>6. ~(Mapped(g).n + (g % ClusterSize) >= eof)
    <3>1. PICK n \in Nat, o \in Slots : n = Mapped(g).n /\ o = g % ClusterSize
      BY <2>2, GuestIndex
    <3>2. n + o < eof
      BY <2>1, <3>1 DEF Served
    <3> QED
      BY <3>1, <3>2 DEF Slots, Sound, IInv, TypeOK, FileOK
  <2> QED
    BY <2>3, <2>4, <2>5, <2>6 DEF ReadStatus
<1> QED
  BY <1>1, <1>2, <1>3, PTL DEF Spec

=============================================================================
