------------------------------ MODULE MCQcowFat ------------------------------
(* Volumes for TLC: clusters of three slots, directories and files of one to *)
(* three clusters that do not follow each other.                           *)
EXTENDS QcowFat, TLC

CONSTANTS f1, f2, d1

File(first, size) == [first |-> first, size |-> size, dir |-> FALSE]
Folder(first) == [first |-> first, size |-> 0, dir |-> TRUE]
Live(names, node) == [kind |-> "live", names |-> names, node |-> node]
Deleted == [kind |-> "deleted"]
Long(order, last) == [kind |-> "lfn", order |-> order, last |-> last, sum |-> 1, zero |-> TRUE]

(* 2, 5: the root; 8, 10: a directory with a long name across its clusters *)
(* and no entry that ends it; 11: one with a name of one part; 3, 6, 4     *)
(* and 7: files; 9: a file whose chain is cut short by a bad cluster.  The *)
(* numbers 0 and 18, which no cluster of the volume has, lead to sectors   *)
(* that hold entries, too.                                                 *)
MCFat == 0 :> 24 @@ 1 :> 31 @@ 2 :> 5 @@ 3 :> 6 @@ 4 :> 16 @@ 5 :> 16 @@ 6 :> 4 @@ 7 :> 17
         @@ 8 :> 10 @@ 9 :> 15 @@ 10 :> 18 @@ 11 :> 16

MCChain == 2 :> <<2, 5>> @@ 8 :> <<8, 10>> @@ 11 :> <<11>> @@ 3 :> <<3, 6, 4>> @@ 7 :> <<7>>
           @@ 9 :> <<9>>

FileA == File(3, 7)
FileB == File(9, 6)
FileC == File(7, 3)
Empty == File(0, 0)

(* No cluster of these directories ends with an entry that is returned.    *)
MCEntries ==
  <<2, 0>> :> Live({"a"}, FileA) @@ <<2, 1>> :> Live({"d"}, Folder(8)) @@ <<2, 2>> :> Deleted
  @@ <<5, 0>> :> Live({"e"}, Folder(11)) @@ <<5, 1>> :> Live({"z"}, Empty)
  @@ <<8, 0>> :> Live({".."}, Folder(0)) @@ <<8, 1>> :> Deleted @@ <<8, 2>> :> Long(2, TRUE)
  @@ <<10, 0>> :> Long(1, FALSE) @@ <<10, 1>> :> Live({"c"}, FileC) @@ <<10, 2>> :> Deleted
  @@ <<11, 0>> :> Live({"b"}, FileB) @@ <<11, 1>> :> Long(1, TRUE)
  @@ <<0, 0>> :> Live({"a"}, Folder(8)) @@ <<18, 1>> :> Live({"c"}, FileA)

MCFiles == {f1, f2}
MCDirs == {d1}
MCOpens == {<<f1, <<"a">>>>, <<f1, <<"a", "c">>>>, <<f1, <<"d", "..", "a">>>>,
            <<f2, <<"d", "c">>>>, <<f2, <<"e", "b">>>>, <<f2, <<"z">>>>,
            <<d1, <<>>>>, <<d1, <<"d">>>>, <<d1, <<"x">>>>, <<d1, <<"a">>>>}
MCBeyond == {0, 16}
MCReadSizes == {3}
MCSeeks == {<<1, "set">>, <<U64 - 1, "cur">>, <<0, "end">>}

(* For the runs that show a divergence: a seek into the second cluster of  *)
(* a file, a directory cluster that ends with an entry that is returned,   *)
(* and a directory with one long name, in the order of its parts.          *)
FarSeeks == {<<4, "set">>}
OpenFile == {<<f1, <<"a">>>>}
FullEntries == <<2, 2>> :> Live({"g"}, FileC) @@ MCEntries
OpenRoot == {<<d1, <<>>>>}
OpenLongName == {<<d1, <<"d">>>>}
=============================================================================
