------------------------------ MODULE MCQcowOpen ------------------------------
(* Images for TLC, laid out as the format says: the features, the order,   *)
(* the compression type when the header has one, and the extensions.       *)
EXTENDS QcowOpen, SequencesExt

W(hi, lo) == [hi |-> hi, lo |-> lo]
Data(length) == [i \in 1 .. (length + 7) \div 8 |->
                  W(7, IF 8 * i > length THEN 0 ELSE 7)]
Extension(e) == <<W(e[1], e[2])>> \o Data(e[2])
Area(list) == FlattenSeq([i \in DOMAIN list |-> Extension(list[i])])

Features(incompatible, autoclear, order, length) ==
  <<W(0, incompatible), W(0, 0), W(0, autoclear), W(order, length)>>
Image(words, list, fields) ==
  fields @@ [magic |-> TRUE, version |-> 3, backing_file_offset |-> 0,
             backing_file_name_size |-> 0, cluster_bits |-> 16, l1_size |-> 2,
             refcount_table_size |-> 4, words |-> words \o Area(list) \o <<W(0, 0), W(0, 0)>>,
             written |-> [i \in DOMAIN list |->
                           [type |-> list[i][1],
                            at |-> Len(words) + Len(Area(SubSeq(list, 1, i - 1))) + 1]]]

Version3(incompatible, list, fields) ==
  Image(Append(Features(incompatible, 0, 4, 112), W(0, 0)), list, fields)

None == [magic |-> TRUE]
Table == <<FEATURE_NAME_TABLE, 16>>
External == <<EXTERNAL_FILE_NAME, 12>>
Exts == {<<>>, <<Table, <<BACKING_FILE_NAME, 4>>, <<9, 8>>, <<BITMAPS_EXTENSION, 8>>>>,
         <<<<9, 0>>, <<BITMAPS_EXTENSION, 0>>, Table, <<BACKING_FILE_NAME, 12>>>>}

BackingFields == [backing_file_offset |-> 112, backing_file_name_size |-> 5]
Backing == Version3(0, <<<<BACKING_FILE_NAME, 4>>>>, BackingFields)
BadMagic == Version3(0, <<>>, [magic |-> FALSE])
WithExternalData == Version3(4, <<<<BITMAPS_EXTENSION, 8>>, External, Table>>, None)

Sound ==
  {Version3(0, list, None) : list \in Exts}
  \cup {Version3(1, <<>>, [l1_size |-> 3, refcount_table_size |-> 8]), WithExternalData,
        Backing, Image(Append(Features(8, 0, 6, 112), W(ZSTD, 0)), <<Table>>, None)}
ASSUME LayoutAssumption ==
  \A img \in Sound : header_length(img) = 112 => LaidOut(img)

Version2 ==
  {Image(<<>>, <<<<BACKING_FILE_NAME, 4>>, Table>>, [version |-> 2]),
   Image(<<>>, <<Table, <<9, 8>>>>, [version |-> 2]),
   Image(<<W(0, 0), W(0, 0), W(0, 0), W(0, 0)>>, <<>>, [version |-> 2])}
(* Refused by each check, or read in another way than it was written; cut  *)
(* short in the header and in the extensions.                              *)
Odd ==
  {BadMagic, Version3(0, <<>>, [words |-> Features(0, 0, 4, 112)]),
   Version3(0, <<>>, [words |-> <<W(0, 0)>>]),
   Version3(0, <<>>, [words |-> Append(Features(0, 0, 4, 112), W(0, 0)) \o <<W(9, 0)>>]), Version3(4, <<>>, None), Version3(0, <<External>>, BackingFields),
   Version3(4, <<External>>, BackingFields), Version3(2, <<>>, None), Version3(32, <<>>, None),
   Version3(8, <<>>, None), Version3(0, <<>>, [cluster_bits |-> 8]),
   Version3(0, <<>>, [backing_file_offset |-> 112]),
   Version3(0, <<>>, [backing_file_name_size |-> 5]),
   Image(Features(0, 0, 4, 104), <<Table>>, None), Image(Features(0, 0, 4, 104), <<>>, None),
   Image(<<W(TOP_BIT, 0), W(TOP_BIT, 0), W(TOP_BIT, 0), W(4, 112), W(0, 128)>>, <<>>, None),
   Image(<<W(1, 0), W(0, 0), W(0, 0), W(4, 112), W(0, 0)>>, <<>>, None),
   Image(Features(8, 0, 4, 104), <<>>, None), Image(Features(0, 2, 4, 112), <<>>, None),
   Image(Features(0, 0, 7, 112), <<>>, None), Image(Features(0, 0, 4, 111), <<>>, None),
   Image(Append(Features(0, 0, 2, 112), W(0, 0)), <<>>, None),
   Image(Append(Features(0, 0, 4, 112), W(0, 0)) \o <<W(9, 4), W(7, 7)>>, <<>>, None),
   Image(Append(Features(0, 0, 4, 112), W(0, 0)) \o <<W(BITMAPS_EXTENSION, 8), W(7, 7), W(9, 99)>>,
         <<>>, None)}

All == Sound \cup Version2 \cup Odd

OnlyBadMagic == {BadMagic}
OnlyVersion2 == Version2
OnlyBacking == {Backing}
OnlyExternal == {WithExternalData}

=============================================================================
