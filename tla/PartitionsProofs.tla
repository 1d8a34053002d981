--------------------------- MODULE PartitionsProofs ---------------------------
(***************************************************************************)
(* Theorems about Partitions, for every set of disks and all constants.    *)
(***************************************************************************)
EXTENDS Partitions, TLAPS

(* What is listed while the backup is looked at: what the primary gave, or *)
(* nothing because the primary is of another format.                       *)
Listed(list) ==
  \E n \in {1, disk.sectors - 1} : Sound(n) /\ list = GptList(disk.headers[n].entries)
Decided == IF partitions = <<>> THEN HeaderAt(1).fault \in GptErrors ELSE Listed(partitions)

(* A header that was accepted is one that the disk has.                    *)
Accepted == \E n \in DOMAIN disk.headers :
              header = disk.headers[n] /\ header.fault \in {"none", "long"}

(* The table is inductive with: until the call returns the count is that   *)
(* of the list, and nothing is listed before the primary was parsed.       *)
Running ==
  /\ disk \in Disks
  /\ which \in {"primary", "backup"}
  /\ pc # "done" => result = "none" /\ count = Len(partitions)
  /\ pc \notin {"done", "header", "array"} => which = "primary"
  /\ pc # "done" /\ which = "primary" => partitions = <<>>

Parsing ==
  /\ pc = "mbr" => disk.mbr[1].part_type # "protective"
  /\ pc \in {"header", "array"} => disk.mbr[1].part_type = "protective"
  /\ pc \in {"header", "array"} /\ which = "backup" => Decided
  /\ pc = "array" => Accepted
  /\ pc = "array" /\ which = "backup" => partitions # <<>>

TableInv == Running /\ Parsing /\ CountMatchesList /\ ListedTable

-----------------------------------------------------------------------------
(* The faults of a header are those that are listed, and none is "ok".     *)
LEMMA FaultRange ==
  ASSUME disk \in Disks, NEW n
  PROVE  HeaderAt(n).fault \in HeaderFault
<1>1. CASE SectorAt(n) \in DOMAIN disk.headers
  <2>1. disk.headers[SectorAt(n)] \in Header
    BY <1>1, DisksAssumption
  <2> QED
    BY <1>1, <2>1 DEF HeaderAt, Header
<1>2. CASE SectorAt(n) \notin DOMAIN disk.headers
  BY <1>2 DEF HeaderAt, NoHeader, HeaderFault
<1> QED
  BY <1>1, <1>2

(* A header that has none of the faults is in a sector of the disk.        *)
LEMMA HeaderFound ==
  ASSUME NEW n, HeaderAt(n).fault \in {"none", "long"}
  PROVE  \E k \in DOMAIN disk.headers : HeaderAt(n) = disk.headers[k]
BY DEF HeaderAt, NoHeader

(* An array that is accepted is the whole one of a sound header.           *)
LEMMA ArrayAccepted ==
  ASSUME disk \in Disks, DOMAIN disk.headers \subseteq {1, disk.sectors - 1},
         Accepted, ArrayError(header) = "none"
  PROVE  Listed(GptList(Seen(header)))
<1>1. PICK n \in DOMAIN disk.headers : header = disk.headers[n] /\ header.fault \in {"none", "long"}
  BY DEF Accepted
<1>2. CrcMatches(header)
  BY DEF ArrayError
<1>3. header.array_crc /\ Seen(header) = header.entries
  BY <1>2 DEF CrcMatches
<1>4. header.size_of_entries > 1 => \A j \in DOMAIN header.entries : ~header.entries[j].tail
  BY DEF ArrayError
<1>5. Sound(n)
  BY <1>1, <1>3, <1>4 DEF Sound
<1> QED
  BY <1>1, <1>3, <1>5 DEF Listed

(* No error is taken for a success.                                        *)
LEMMA ErrorNames == "io" # "ok" /\ "io" \notin GptErrors /\ "ok" \notin HeaderFault
                    /\ ArrayError(header) \notin GptErrors \cup {"ok"}
BY DEF GptErrors, HeaderFault, ArrayError

-----------------------------------------------------------------------------
LEMMA InitTable == Init => TableInv
BY DEF Init, TableInv, Running, Parsing, CountMatchesList, ListedTable

(* After a return that is not a success only the disk has to be kept.      *)
LEMMA Returned ==
  ASSUME TableInv, disk' = disk, which' \in {"primary", "backup"},
         pc' = "done", result' # "ok"
  PROVE  TableInv'
BY DEF TableInv, Running, Parsing, CountMatchesList, ListedTable

LEMMA StutterTable == TableInv /\ UNCHANGED vars => TableInv'
BY DEF TableInv, vars, Running, Parsing, CountMatchesList, ListedTable, Decided, Accepted, Listed,
       Sound, HeaderAt

LEMMA ReadLba0Table == ASSUME TableInv, ReadLba0 PROVE TableInv'
<1> USE DEF ReadLba0, Return
<1>1. pc = "lba0" /\ result = "none" /\ which = "primary" /\ UNCHANGED <<disk, which, partitions, count>>
  BY DEF TableInv, Running
<1>2. CASE pc' = "done"
  BY <1>1, <1>2, Returned DEF TableInv, Running
<1>3. CASE pc' # "done"
  <2>1. result' = result
        /\ pc' = IF disk.mbr[1].part_type = "protective" THEN "header" ELSE "mbr"
    BY <1>3
  <2> QED
    BY <1>1, <2>1 DEF TableInv, Running, Parsing, CountMatchesList, ListedTable
<1> QED
  BY <1>2, <1>3

LEMMA ParseMbrTable == ASSUME TableInv, ParseMbr PROVE TableInv'
<1>1. pc = "mbr" /\ UNCHANGED <<disk, which>> /\ pc' = "done"
      /\ disk.mbr[1].part_type # "protective"
  BY DEF ParseMbr, Return, TableInv, Parsing
<1>2. CASE result' = "ok"
  <2>1. partitions' = MbrList(disk) /\ count' = Len(MbrList(disk))
    BY <1>2 DEF ParseMbr, Return
  <2> QED
    BY <1>1, <1>2, <2>1 DEF TableInv, Running, Parsing, CountMatchesList, ListedTable
<1>3. CASE result' # "ok"
  BY <1>1, <1>3, Returned DEF TableInv, Running
<1> QED
  BY <1>2, <1>3

(* The primary fails with an error of the format and the backup is next,   *)
(* or the call returns.                                                    *)
LEMMA FailedTable ==
  ASSUME TableInv, UNCHANGED disk, pc \in {"header", "array"},
         NEW error, error # "ok", HeaderFails(error),
         error \in GptErrors /\ which = "primary" =>
           UNCHANGED <<partitions, count>> /\ HeaderAt(1).fault \in GptErrors,
         which = "backup" => partitions' = <<>> \/ UNCHANGED <<partitions, count>>
  PROVE  TableInv'
<1>1. CASE which = "primary" /\ error \in GptErrors
  <2>1. pc' = "header" /\ which' = "backup" /\ result' = result /\ result = "none"
        /\ partitions = <<>>
    BY <1>1 DEF HeaderFails, PrimaryFails, TableInv, Running
  <2>2. HeaderAt(1)' = HeaderAt(1)
    BY DEF HeaderAt
  <2> QED
    BY <1>1, <2>1, <2>2 DEF TableInv, Running, Parsing, CountMatchesList, ListedTable, Decided
<1>2. CASE which = "primary" /\ error \notin GptErrors
  <2>1. Return(error) /\ UNCHANGED which
    BY <1>2 DEF HeaderFails, PrimaryFails
  <2> QED
    BY <2>1, Returned DEF Return, TableInv, Running
<1>3. CASE which = "backup" /\ partitions' = <<>>
  <2>1. Return(error) /\ UNCHANGED which
    BY <1>3 DEF HeaderFails, BackupFails
  <2> QED
    BY <2>1, Returned DEF Return, TableInv, Running
<1>4. CASE which = "backup" /\ partitions' # <<>>
  <2>1. Return("ok") /\ UNCHANGED <<which, partitions, count>>
    BY <1>4 DEF HeaderFails, BackupFails
  <2>2. Listed(partitions) /\ count = Len(partitions) /\ disk.mbr[1].part_type = "protective"
    BY <1>4, <2>1 DEF TableInv, Running, Parsing, Decided
  <2> QED
    BY <1>4, <2>1, <2>2
       DEF Return, TableInv, Running, Parsing, CountMatchesList, ListedTable, Listed, Sound
<1> QED
  BY <1>1, <1>2, <1>3, <1>4 DEF TableInv, Running

LEMMA ReadHeaderTable == ASSUME TableInv, ReadHeader PROVE TableInv'
<1>1. pc = "header" /\ UNCHANGED <<disk, count>> /\ disk \in Disks /\ "io" # "ok"
  BY DEF ReadHeader, TableInv, Running
<1> DEFINE h == HeaderAt(HeaderSector)
           error == IF h.fault = "long" THEN {"none", "crc"} ELSE {h.fault}
<1>2. h.fault \in HeaderFault
  BY <1>1, FaultRange
<1>3. CASE Return("io") /\ UNCHANGED <<which, header, partitions>>
  BY <1>1, <1>3, Returned DEF Return, TableInv, Running
<1>4. ASSUME NEW e \in error \ {"none"}, partitions' = partitions, HeaderFails(e)
      PROVE  TableInv'
  <2>1. e # "ok"
    BY <1>2, <1>4, ErrorNames
  <2>2. which = "primary" /\ e \in GptErrors => HeaderAt(1).fault \in GptErrors
    BY <1>4 DEF HeaderSector, GptErrors
  <2> QED
    BY <1>1, <1>4, <2>1, <2>2, FailedTable
<1>5. CASE /\ "none" \in error /\ header' = h
           /\ pc' = "array" /\ UNCHANGED <<which, partitions, result>>
           /\ which = "primary" \/ partitions # <<>>
  <2>1. h.fault \in {"none", "long"}
    BY <1>5
  <2>2. Accepted'
    BY <1>1, <1>5, <2>1, HeaderFound DEF Accepted
  <2>3. Decided' = Decided
    BY <1>1, <1>5 DEF Decided, HeaderAt, Listed, Sound
  <2> QED
    BY <1>1, <1>5, <2>2, <2>3 DEF TableInv, Running, Parsing, CountMatchesList, ListedTable
<1>6. CASE /\ Return("ok") /\ UNCHANGED <<which, partitions>>
           /\ ~(which = "primary" \/ partitions # <<>>)
  <2>1. HeaderAt(1).fault \in GptErrors /\ disk.mbr[1].part_type = "protective" /\ count = Len(partitions)
    BY <1>1, <1>6 DEF TableInv, Running, Parsing, Decided
  <2> QED
    BY <1>1, <1>6, <2>1
       DEF Return, TableInv, Running, Parsing, CountMatchesList, ListedTable, HeaderAt
<1> QED
  BY <1>3, <1>4, <1>5, <1>6 DEF ReadHeader

LEMMA ParseArrayTable ==
  ASSUME TableInv, ParseArray, DOMAIN disk.headers \subseteq {1, disk.sectors - 1}
  PROVE  TableInv'
<1>1. pc = "array" /\ UNCHANGED <<disk, header>> /\ disk \in Disks /\ Accepted
  BY DEF ParseArray, TableInv, Running, Parsing
<1>2. CASE partitions' = <<>> /\ HeaderFails("io")
  BY <1>1, <1>2, FailedTable, ErrorNames
<1>3. CASE Return("crash") /\ UNCHANGED which
  BY <1>1, <1>3, Returned DEF Return, TableInv, Running
<1>4. CASE partitions' = <<>> /\ HeaderFails(ArrayError(header))
  BY <1>1, <1>4, FailedTable, ErrorNames
<1>5. CASE /\ ArrayError(header) = "none" /\ GptList(Seen(header)) # <<>>
           /\ Store(GptList(Seen(header))) /\ ArrayDone
  <2>1. Listed(GptList(Seen(header)))
    BY <1>1, <1>5, ArrayAccepted
  <2>2. partitions' # <<>> /\ Listed(partitions)' /\ count' = Len(partitions')
    BY <1>1, <1>5, <2>1 DEF Store, Listed, Sound
  <2>3. disk.mbr[1].part_type = "protective" /\ result = "none"
    BY <1>1 DEF TableInv, Running, Parsing
  <2>4. CASE which = "primary"
    <3>1. pc' = "header" /\ which' = "backup" /\ UNCHANGED result
      BY <1>5, <2>4 DEF ArrayDone
    <3> QED
      BY <1>1, <2>2, <2>3, <3>1 DEF TableInv, Running, Parsing, CountMatchesList, ListedTable, Decided
  <2>5. CASE which # "primary"
    <3>1. pc' = "done" /\ result' = "ok" /\ UNCHANGED which
      BY <1>5, <2>5 DEF ArrayDone, Return
    <3> QED
      BY <1>1, <2>2, <2>3, <3>1
         DEF TableInv, Running, Parsing, CountMatchesList, ListedTable, Listed, Sound
  <2> QED
    BY <2>4, <2>5
<1> QED
  BY <1>2, <1>3, <1>4, <1>5 DEF ParseArray

-----------------------------------------------------------------------------
(* The count needs less: it is right in every state before the return.     *)
CountInv ==
  /\ pc # "done" => result = "none" /\ count = Len(partitions)
  /\ CountMatchesList

LEMMA CountStep == ASSUME CountInv, Next PROVE CountInv'
<1> USE DEF CountInv, CountMatchesList, Return
<1>1. CASE ReadLba0
  BY <1>1 DEF ReadLba0
<1>2. CASE ParseMbr
  BY <1>2 DEF ParseMbr
<1>3. CASE ReadHeader
  <2>1. pc = "header" /\ result = "none" /\ count = Len(partitions) /\ count' = count
    BY <1>3 DEF ReadHeader
  <2>2. CASE partitions' = partitions
    <3>1. pc' # "done" => result' = result
      BY <1>3, <2>1 DEF ReadHeader, HeaderFails, PrimaryFails, BackupFails
    <3> QED
      BY <2>1, <2>2, <3>1
  <2> QED
    BY <1>3, <2>2 DEF ReadHeader
<1>4. CASE ParseArray
  <2>1. pc = "array" /\ result = "none" /\ count = Len(partitions)
    BY <1>4 DEF ParseArray
  <2>2. CASE partitions' = <<>> /\ HeaderFails("io")
    <3>1. pc' = "done" /\ result' = "io"
      BY <2>2, ErrorNames DEF HeaderFails, PrimaryFails, BackupFails
    <3> QED
      BY <3>1
  <2>3. CASE Return("crash")
    BY <2>3
  <2>4. CASE partitions' = <<>> /\ count' = 0 /\ HeaderFails(ArrayError(header))
    <3>1. pc' = "done" /\ result' # "ok"
      BY <2>4, ErrorNames DEF HeaderFails, PrimaryFails, BackupFails
    <3> QED
      BY <3>1
  <2>5. CASE Store(GptList(Seen(header))) /\ ArrayDone
    BY <2>1, <2>5 DEF Store, ArrayDone
  <2> QED
    BY <1>4, <2>2, <2>3, <2>4, <2>5 DEF ParseArray
<1> QED
  BY <1>1, <1>2, <1>3, <1>4 DEF Next

(* The count that parse_partitions returns with a success is the length of *)
(* the list that it returns, for every disk and every failure.             *)
THEOREM CountTheorem == Spec => []CountMatchesList
<1>1. Init => CountInv
  BY DEF Init, CountInv, CountMatchesList
<1>2. CountInv /\ UNCHANGED vars => CountInv'
  BY DEF CountInv, CountMatchesList, vars
<1>3. CountInv /\ [Next]_vars => CountInv'
  BY <1>2, CountStep
<1>4. CountInv => CountMatchesList
  BY DEF CountInv
<1> QED
  BY <1>1, <1>3, <1>4, PTL DEF Spec

(* On a disk whose sectors hold a GPT header nowhere but in the second and *)
(* the last one, also where a 32 bit address reaches by mistake, what      *)
(* parse_partitions lists is one whole checked table, whatever the headers, *)
(* their arrays and the failures are.                                      *)
THEOREM TableTheorem ==
  ASSUME \A d \in Disks : DOMAIN d.headers \subseteq {1, d.sectors - 1}
  PROVE  Spec => []ListedTable
<1>1. TableInv /\ [Next]_vars => TableInv'
  <2> SUFFICES ASSUME TableInv, [Next]_vars PROVE TableInv'
    OBVIOUS
  <2>1. disk \in Disks
    BY DEF TableInv, Running
  <2> QED
    BY <2>1, ReadLba0Table, ParseMbrTable, ReadHeaderTable, ParseArrayTable, StutterTable DEF Next
<1>2. TableInv => ListedTable
  BY DEF TableInv
<1> QED
  BY <1>1, <1>2, InitTable, PTL DEF Spec

=============================================================================
