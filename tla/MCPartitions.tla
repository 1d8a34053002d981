----------------------------- MODULE MCPartitions ----------------------------
(* Disks for TLC: 12 sectors, a header at 1 and at 11, the arrays at 2 and  *)
(* 9.  Four entries fill a sector.                                         *)
EXTENDS Partitions, TLC

Used(first, last) == [used |-> TRUE, tail |-> FALSE, starting_lba |-> first, ending_lba |-> last]
Free == [used |-> FALSE, tail |-> FALSE, starting_lba |-> 0, ending_lba |-> 0]
Dirty(e) == [e EXCEPT !.tail = TRUE]

Arrays ==
  {<<>>, <<Free, Free, Free, Free>>, <<Used(3, 5), Free, Used(6, 8), Free>>,
   <<Used(3, 5), Free, Free, Free, Free>>, <<Used(3, 5), Free, Free, Free, Used(6, 8)>>,
   <<Dirty(Used(3, 8)), Used(8, 3)>>}

MCHeader(fault, lba, size, crc, entries) ==
  [fault |-> fault, entry_lba |-> lba, size_of_entries |-> size, array_crc |-> crc,
   entries |-> entries]

Good(lba) == MCHeader("none", lba, 1, TRUE, <<Used(3, 5), Free, Used(6, 8), Free>>)
Headers(lba) ==
  {[Good(lba) EXCEPT !.fault = f] : f \in HeaderFault}
  \cup {[Good(lba) EXCEPT !.entries = a, !.size_of_entries = n] : a \in Arrays, n \in 0 .. 2}
  \cup {[Good(lba) EXCEPT !.array_crc = FALSE], [Good(lba) EXCEPT !.entry_lba = 20]}

Mbr(first, second) ==
  [i \in 1 .. 4 |-> IF i = 1 THEN [part_type |-> first, start |-> 1, sectors |-> 4]
                    ELSE IF i = 3 THEN [part_type |-> second, start |-> 5, sectors |-> 5]
                    ELSE [part_type |-> "empty", start |-> 0, sectors |-> 0]]
DiskOf(sectors, mbr, headers) ==
  [signature |-> TRUE, sectors |-> sectors, mbr |-> mbr, headers |-> headers]

Gpt(primary, backup) ==
  DiskOf(12, Mbr("protective", "empty"), 1 :> primary @@ 11 :> backup)

(* The last disk is larger than Word; of it sector 35 is read as sector 3. *)
MCDisks ==
  {Gpt(p, b) : p \in Headers(2), b \in Headers(9)}
  \cup {DiskOf(12, Mbr(a, b), <<>>) : a \in {"empty", "data"}, b \in {"empty", "data"}}
  \cup {[Gpt(Good(2), Good(9)) EXCEPT !.signature = FALSE],
        DiskOf(36, Mbr("protective", "empty"), 1 :> Good(2) @@ 35 :> Good(34)),
        DiskOf(12, Mbr("protective", "empty"), <<>>)}

=============================================================================
