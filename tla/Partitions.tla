----------------------------- MODULE Partitions -----------------------------
(***************************************************************************)
(* parse_partitions (qcow_part.h): the MBR, or behind a protective MBR the *)
(* primary and then the backup GPT header with its array of entries.       *)
(*                                                                         *)
(* A disk gives the content of LBA 0, the GPT headers by sector and the    *)
(* entry arrays by sector.  What is in no header sector fails the          *)
(* signature.  Sizes of entries are in units of a gpt_entry_t.             *)
(***************************************************************************)
EXTENDS Integers, Sequences, SequencesExt

CONSTANTS
  Word,       \* sectors that a 32 bit byte address reaches
  U64,        \* one more than the largest u64
  PerSector,  \* gpt_entry_t in a sector
  Disks

ASSUME ConstantsAssumption == {Word, U64} \subseteq Nat \ {0} /\ PerSector \in Nat \ {0}

(* An entry that is not used is all zero; tail: are its bytes beyond a     *)
(* gpt_entry_t not all zero.                                               *)
Entry == [used : BOOLEAN, tail : BOOLEAN, starting_lba : Nat, ending_lba : Nat]
MbrEntry == [part_type : {"empty", "protective", "data"}, start : Nat, sectors : 0 .. U64 - 1]

(* fault is the first check of parse_gpt_header that fails; "long" is a    *)
(* header_size beyond the gpt_header_t that the checksum is taken of.      *)
HeaderFault == {"none", "signature", "revision", "header_size", "crc", "rsv", "long"}
Header == [fault : HeaderFault, entry_lba : Nat, size_of_entries : Nat, array_crc : BOOLEAN,
           entries : Seq(Entry)]

ASSUME DisksAssumption ==
  \A d \in Disks : /\ d.signature \in BOOLEAN /\ d.sectors \in Nat
                   /\ d.mbr \in [1 .. 4 -> MbrEntry]
                   /\ d.headers \in [DOMAIN d.headers -> Header]

VARIABLES
  disk,
  pc,          \* "lba0", "mbr", "header", "array", "done"
  which,       \* the header that is parsed: "primary", "backup"
  header,      \* gpt_header
  partitions,  \* *partitions, <<>> for NULL: no list of no bytes is allocated
  count,       \* *partitions_cnt
  result

vars == <<disk, pc, which, header, partitions, count, result>>


GptErrors == {"signature", "revision", "header_size", "rsv"}
NoHeader == [fault |-> "signature", entry_lba |-> 0, size_of_entries |-> 0, array_crc |-> FALSE,
             entries |-> <<>>]

(* get_n_sector_at: the sector, a u64, is passed as unsigned and its byte  *)
(* address is computed in 32 bits.                                         *)
SectorAt(n) == n % Word
HeaderAt(n) == IF SectorAt(n) \in DOMAIN disk.headers THEN disk.headers[SectorAt(n)] ELSE NoHeader

(* align adds the remainder: of an array that does not fill its last       *)
(* sector, only the whole sectors of the sum are read, the rest is zero.   *)
Align(n, unit) == IF n % unit = 0 THEN n ELSE n + (n % unit)
EntriesRead(h) ==
  LET units == Align(Len(h.entries) * h.size_of_entries, PerSector)
  IN  (units \div PerSector) * PerSector

Unused == [used |-> FALSE, tail |-> FALSE, starting_lba |-> 0, ending_lba |-> 0]
Seen(h) == [j \in DOMAIN h.entries |->
              IF j * h.size_of_entries <= EntriesRead(h) THEN h.entries[j] ELSE Unused]

(* The checksum is right when what is not read is zero as well.            *)
CrcMatches(h) ==
  h.array_crc /\ SectorAt(h.entry_lba) = h.entry_lba /\ Seen(h) = h.entries

(* Variant: the checksum of the array is not compared.                     *)
ArrayErrorNoCrc(h) ==
  CASE h.entries # <<>> /\ h.size_of_entries = 0                  -> "crash"
    [] h.size_of_entries > 1 /\ \E j \in DOMAIN h.entries : h.entries[j].tail -> "entry"
    [] OTHER                                                      -> "none"

(* parse_gpt_entry takes a size of 0 as a divisor, and looks at the tail   *)
(* of entries that are larger than a gpt_entry_t.                          *)
ArrayError(h) ==
  CASE ~CrcMatches(h)                                             -> "array_crc"
    [] h.entries # <<>> /\ h.size_of_entries = 0                  -> "crash"
    [] h.size_of_entries > 1 /\ \E j \in DOMAIN h.entries : h.entries[j].tail -> "entry"
    [] OTHER                                                      -> "none"

(* ending_lba belongs to the partition, num_sectors does not count it.     *)
GptPartition(e) ==
  [start_lba |-> e.starting_lba, num_sectors |-> (e.ending_lba - e.starting_lba) % U64]
MbrPartition(e) == [start_lba |-> e.start, num_sectors |-> e.sectors]
GptList(entries) ==
  LET used == SelectSeq(entries, LAMBDA e : e.used)
  IN  [j \in DOMAIN used |-> GptPartition(used[j])]
MbrList(d) ==
  LET used == SelectSeq(d.mbr, LAMBDA e : e.part_type # "empty")
  IN  [j \in DOMAIN used |-> MbrPartition(used[j])]

-----------------------------------------------------------------------------
Init ==
  /\ disk \in Disks
  /\ pc = "lba0" /\ which = "primary" /\ header = NoHeader
  /\ partitions = <<>> /\ count = 0 /\ result = "none"

Return(value) == pc' = "done" /\ result' = value

ReadLba0 ==
  /\ pc = "lba0"
  /\ \/ Return("io")
     \/ ~disk.signature /\ Return("invalid_disk")
     \/ /\ disk.signature
        /\ pc' = IF disk.mbr[1].part_type = "protective" THEN "header" ELSE "mbr"
        /\ UNCHANGED result
  /\ UNCHANGED <<disk, which, header, partitions, count>>

(* QCOW_SAFE_REALLOC to no bytes gives NULL and returns QCOW_IO_ERROR, as  *)
(* does an allocation that fails; the count stays.                         *)
ParseMbr ==
  /\ pc = "mbr"
  /\ \/ /\ MbrList(disk) # <<>>
        /\ partitions' = MbrList(disk) /\ count' = Len(MbrList(disk))
        /\ Return("ok")
     \/ /\ partitions' = <<>> /\ count' \in {0, Len(MbrList(disk))}
        /\ Return("io")
  /\ UNCHANGED <<disk, which, header>>

(* What parse_part_scheme does with an error of one of the headers.        *)
PrimaryFails(error) ==
  IF error \in GptErrors
  THEN /\ pc' = "header" /\ which' = "backup" /\ UNCHANGED result
  ELSE Return(error) /\ UNCHANGED which

BackupFails(error) ==
  /\ UNCHANGED which
  /\ IF partitions' = <<>> THEN Return(error) ELSE Return("ok")

HeaderFails(error) == IF which = "primary" THEN PrimaryFails(error) ELSE BackupFails(error)

HeaderSector == IF which = "primary" THEN 1 ELSE disk.sectors - 1

(* The entries of the backup are stored only if the primary's were: then   *)
(* calloc replaces the list, without freeing it.                           *)
ReadHeader ==
  /\ pc = "header"
  /\ \/ Return("io") /\ UNCHANGED <<which, header, partitions>>
     \/ LET h == HeaderAt(HeaderSector)
            error == IF h.fault = "long" THEN {"none", "crc"} ELSE {h.fault}
        IN \/ \E e \in error \ {"none"} :
                partitions' = partitions /\ HeaderFails(e) /\ UNCHANGED header
           \/ /\ "none" \in error
              /\ header' = h
              /\ IF which = "primary" \/ partitions # <<>>
                 THEN pc' = "array" /\ UNCHANGED <<which, partitions, result>>
                 ELSE Return("ok") /\ UNCHANGED <<which, partitions>>
  /\ UNCHANGED <<disk, count>>

ArrayDone ==
  IF which = "primary"
  THEN pc' = "header" /\ which' = "backup" /\ UNCHANGED result
  ELSE Return("ok") /\ UNCHANGED which

(* Variant: the count of the primary's list is not reset.                  *)
StoreAfter(list) == partitions' = list /\ count' = count + Len(list)

Store(list) == partitions' = list /\ count' = Len(list)

ParseArray ==
  /\ pc = "array"
  /\ \/ \* the list, or the read of the array: freed, and no count
        /\ partitions' = <<>> /\ count' \in {0, count} /\ HeaderFails("io")
     \/ /\ ArrayError(header) = "crash"
        /\ Return("crash") /\ UNCHANGED <<which, partitions, count>>
     \/ /\ ArrayError(header) \notin {"none", "crash"}
        /\ partitions' = <<>> /\ count' = 0 /\ HeaderFails(ArrayError(header))
     \/ /\ ArrayError(header) = "none"
        /\ GptList(Seen(header)) = <<>>
        /\ partitions' = <<>> /\ count' = 0 /\ HeaderFails("io")
     \/ /\ ArrayError(header) = "none"
        /\ GptList(Seen(header)) # <<>>
        /\ Store(GptList(Seen(header))) /\ ArrayDone
  /\ UNCHANGED <<disk, header>>

Next == ReadLba0 \/ ParseMbr \/ ReadHeader \/ ParseArray

Spec == Init /\ [][Next]_vars

-----------------------------------------------------------------------------
(* The count that a successful call returns is the length of the list it   *)
(* returns, through the list of the primary and of the backup being stored *)
(* at the same place and an error of the backup freeing it (lines 352-362). *)
CountMatchesList ==
  result = "ok" => count = Len(partitions)

(* What a successful call lists is, whole, what the MBR or one GPT lists   *)
(* whose header and array pass their checks, judged by the disk itself:    *)
(* the header at the sector 1 or the last one, its array complete.  No     *)
(* list is returned only if the primary header is one of another format    *)
(* (lines 397 to 416).                                                     *)
Sound(n) ==
  /\ n \in DOMAIN disk.headers
  /\ disk.headers[n].fault \in {"none", "long"} /\ disk.headers[n].array_crc
  /\ disk.headers[n].size_of_entries > 1 =>
       \A j \in DOMAIN disk.headers[n].entries : ~disk.headers[n].entries[j].tail

ListedTable ==
  result = "ok" =>
    IF disk.mbr[1].part_type # "protective" THEN partitions = MbrList(disk)
    ELSE IF partitions = <<>>
         THEN HeaderAt(1).fault \in GptErrors
         ELSE \E n \in {1, disk.sectors - 1} : Sound(n) /\ partitions = GptList(disk.headers[n].entries)

=============================================================================
