# Verification of qcow-utils

TLA+ models of the programs of this repository, TLC configurations that check
them on small instances, and proofs that TLAPS checks for every value of the
constants. The reference is the code; every definition that models code is
listed with its lines under `map` in `PROJECT.json`.

## 1. The system

qcow-utils is a set of single-file C libraries, each used by the next, in one
thread and without callbacks:

    qcow_qfs.h  (mount, open, read, seek, readdir)        file systems
       | qcow_fat.h, qcow_btrfs.h, qcow_ext4.h
    qcow_part.h (MBR and GPT partitions, sectors)         partitions
       | qread
    qcow_parser.h (init_qcow, qread, qwrite, deinit_qcow) the image
       | xcomp.h (zlib, zstd)                             codecs
    the image file, through stdio

There are no threads: what is hard in this code is what a *sequence* of calls
leaves on the file, what a call leaves behind when one of its steps fails or the
process is killed between two of them, and the arithmetic of addresses.

| component | state it keeps | operations | hard behaviour | what makes it correct |
|---|---|---|---|---|
| image: translation, allocation, `qwrite` (`qcow_parser.h`) | the file; `l1_table` and `refcount_table` in memory, copies of tables of the file; `img_file_base` | `qwrite`, `alloc_cluster`, `cow_alloc_cluster`, `set_lba_at_img_offset`, `update_ref_cnt`, `extend_img_file` | up to nine dependent writes of the file per cluster, each in the buffer of stdio until the next `fseek`; memory changes before the file; results that nobody looks at; crash between any two | no two clusters of the file overlap, memory agrees with the file, no guest word is lost, what was written is read back, errors are reported |
| image: opening and closing | the context, the header, the extensions | `init_qcow`, `deinit_qcow`, `recompute_ref_cnt` | fields used before they are copied; a context used again; failures between allocations; a file cut short; a dirty image | what a session leaves can be opened; what is open is what the context names; buffers are freed once |
| image: `qread` | none | `qread`, `read_from_backing_file` | which of refcount, mapping, subcluster and backing file decides | only bytes the guest wrote, or that were there, are returned |
| compressed clusters | the file, the entries that name their length | `read_compressed_cluster`, `write_compressed_cluster`, `cow_alloc_cluster` | a recompressed cluster that grew, at any position of a file shared with others | the neighbours are unchanged, what was written is read |
| codecs (`xcomp.h`) | bit position, output, the tables and recent offsets that live from block to block | `zlib_inflate`, `zlib_deflate`, `zstd_inflate` | codes that cross bytes, two sides that must count alike, overlapping copies, tables repeated over blocks, tables to be freed on every way out | inflate undoes deflate; what zstd gives is what the format says |
| partitions (`qcow_part.h`) | the list of partitions | `parse_partitions`, `get_n_sector_at` | primary against backup header; 32-bit products | the list is that of a valid header; the sector read is the one asked for |
| FAT (`qcow_fat.h`) | FAT tables, one cached cluster, the static state of long names | `fetch_next_cluster`, `fat_read`, `fat_lookup`, `fat_readdir` | cache after a failed read; chains with holes and cycles; names that span clusters | the cached cluster is the one named; a read follows the chain |
| QFS (`qcow_qfs.h`) | the mounted file system, file and directory cursors | `qfs_mount`, `qfs_open`, `qfs_read`, `qfs_seek`, `qfs_readdir` | interleaved handles that share the cache; seek against the chain | offset and cluster of a cursor agree |
| btrfs (`qcow_btrfs.h`) | the chunk map, one buffer per level | `parse_btrfs_fs`, `parse_btree` | a tree that maps its own nodes; boundaries of chunks | each logical address has the place its chunk gives it; the walk ends |
| ext4 | none | a stub | | |
| helpers (`common/`) | none | strings, alignment, masks | boundaries | |

They interact by calls only: every sector the upper layers read goes through
`qread` on one global context (`default_qcow_ctx`), and none of them calls `qwrite`.
So the image is the only component that changes what is persistent, and it comes
first.

`PROJECT.json` lists under `hazards` what can go wrong at which line, and the
properties that cover it.

## 2. Plan

| order | module | about | abstract specification, theorems |
|---|---|---|---|
| 1 (done) | `QcowImage` | the file, the tables, `qwrite` write by write, failures, crashes, reopening | `TypeCorrect`, `NoOverlapAlways`, `MappingAlways`, `RefCountsAlways`, `LinksTheorem`, `ClustersAlignedTheorem`, `DataTheorem`, `LossTheorem`, `ReadsTheorem`, `ReadBackTheorem` |
| 2 (done) | `QcowFat` | chains, the cached cluster, open files and directories, seek, lookups, long names and their static state | `CursorTheorem`, `ReadTheorem`, `OpenTheorem`, `ListedTheorem` |
| 3 (done) | `BtrfsTree` | superblock, chunk map, tree walks | `LevelsTheorem`, `BuffersTheorem`, `TranslationTheorem`, `RightNodeTheorem`, `NothingMissedTheorem` |
| 4 (done) | `Partitions` | MBR, GPT primary and backup, products modulo 2^w | `CountTheorem`, `TableTheorem` |
| 5 (done) | `ZstdTables`, `Zstd` | entropy tables and literals; frames, blocks, sequences | `ZstdFormat`, which `Zstd` implements (`ImplementsTheorem`) |
| 6 (done) | `Huffman`, `Deflate` | the tables of a dynamic block from writer to reader; blocks, matches, methods | |
| 7 (done) | `QcowOpen` | header, extensions, files and buffers of a context that is used again | `HoldingsTheorem`, `BuffersFreedTheorem`, `ExtensionsTheorem` |
| 8 (done) | `QcowCompressed` | recompression in place, copies of shared compressed clusters, compressed entries made plain | `ClustersTheorem` |
| left | `QcowRecompute` | `recompute_ref_cnt`, over the bytes of table entries | a dirty image has the refcounts that its L2 tables imply |
| left | `VirtualDisk` | what a caller is promised: a word holds the last value written, or one a failed call tried | `QcowImage` without failures implements it on dense images |

No module that is proved about has a recursive operator; the parameters are constants
with named assumptions, and every operation is an action of its own.

## 3. Modules

| module | what it is |
|---|---|
| `QcowImage`, `MCQcowImage` | the image behind `qwrite`; images, requests and fault points for TLC |
| `QcowOpen`, `MCQcowOpen` | `init_qcow` and `deinit_qcow` on one context; headers and extensions for TLC |
| `QcowCompressed`, `MCQcowCompressed` | writing to compressed clusters; files for TLC |
| `QcowFat`, `MCQcowFat` | a mounted FAT volume; volumes, and what is opened and read |
| `BtrfsTree`, `MCBtrfsTree` | mounting a btrfs volume; volumes for TLC |
| `Partitions`, `MCPartitions` | `parse_partitions`; disks for TLC |
| `ZstdFormat` | what a zstd decoder promises, the abstract specification of `Zstd` |
| `Zstd`, `MCZstd` | `zstd_inflate` from frames to sequences |
| `ZstdTables`, `MCZstdTables` | FSE and Huffman tables of zstd, and literals decoded with them |
| `Huffman`, `MCHuffman` | the codes of a dynamic deflate block |
| `Deflate`, `MCDeflate` | `zlib_deflate`, then `zlib_inflate` |
| `QcowImageProofs`, `DataProofs` | theorems about `QcowImage`: types and places; on these, tables in memory and on the file, then guest data |
| `QcowOpenProofs`, `QcowCompressedProofs`, `QcowFatProofs`, `PartitionsProofs`, `BtrfsTreeProofs`, `ZstdProofs` | theorems about the module of that name |

The modules meet where the code does. `QcowCompressed` takes inflate and deflate for
what `Deflate` and `Huffman` check of them; the dynamic blocks of `Deflate` have the codes
of `Huffman`, the tables of `Zstd` are those that `ZstdTables` builds. `QcowOpen` ends where
`QcowImage` begins, with the tables in memory. `Partitions`, `QcowFat` and `BtrfsTree` read
sectors that the image gives or refuses, and never write.

### QcowImage: state

The unit is a word of 8 bytes, the size of an entry of the L1, L2 and refcount
tables. `ClusterSize` words make a cluster, so it is also the number of entries of a
table; `Sector` words stand for the 512 bytes under which the address bits of an
entry begin. A word is a number `n` and bit 63, `copied`; `Mask` keeps bits 9..55
and `LowBits` the rest, of which bit 0 is the zero flag.

| variable | code |
|---|---|
| `disk`, `eof` | the image file and `fsize` of it, as its stream has them |
| `late` | the refcount that an iteration of `qwrite` left in the buffer of stdio: where it goes, and what the file has there meanwhile |
| `handle`, `base`, `l1`, `rt` | the context between `init_qcow` and `deinit_qcow`: `img_file_base`, `l1_table`, `refcount_table`, a table being NULL (`NoTable`) or whole |
| `pc` | which write of the file `qwrite` does next, or has in the buffer |
| `req`, `done` | the arguments of `qwrite`, and `bytes_written` |
| `entry`, `pos` | `img_offset`, and the position `allocate_l2_table` or `allocate_ref_cnt_table` is linking |
| `result` | the last error code |
| `calls`, `faults`, `opens`, `crashes` | how much of each bound is used |
| `allowed`, `erred` (ghosts) | for each guest word, what it may hold; whether a call on this handle returned an error |
| `unseen`, `stray`, `retried`, `uncounted` (ghosts) | what writes that failed without an error lost (an L2 entry, data); the guest clusters that memory maps to a place the file did not grow to, and whether one was written to again; the clusters whose refcount a kill lost in the buffer |

### QcowImage: actions

One iteration of the loop of `qwrite` is a path through these steps; the order, and
what memory holds when the file is written, are those of the code.

| step | code |
|---|---|
| `LookupFails`, `LookupUnallocated`, `LookupUnreferenced`, `LookupInPlace`, `LookupShared` | `get_lba_img_offset_for_write`: the five outcomes of refcount and mapping |
| `ExtendData` | `alloc_cluster`: `extend_img_file` for the data |
| `ExtendL2`, `LinkL2` | `allocate_l2_table`: the file grows, then the L1 entry is written and the table allocated |
| `SetEntry` | `set_lba_at_img_offset`: memory, then the L2 entry of the file |
| `WriteData` | `write_at` of the data |
| `ExtendRef`, `LinkRef` | `allocate_ref_cnt_table` |
| `UpdateRef` | `update_ref_cnt`: memory, then the file; then the next cluster, or the return |
| `ExtendFails`, `ExtendFailsMapped` | the zeros of `extend_img_file` fail in the loop of `fwrite`; or they fit in the buffer and fail in the `fseek` of line 1120, when `set_lba_at_img_offset` has put the entry in memory (1116) |
| `ReadLinkFails`, `UpdateRefFails` | the read of the L1 or refcount table entry fails after memory changed |
| `SetEntryFails` | the L2 entry is lost in the `fseek` of line 1467, whose result nobody looks at, and the data with it |
| `LinkL2Fails`, `LinkRefFails` | the entry that links a new table is lost in the next `fseek`, when memory has the table and the entry in it; or `calloc` of the table fails |
| `WriteDataFails`, `FlushDataFails` | the data fails in `write_at`, or in the first `fseek` of `update_ref_cnt`; neither is looked at |
| `ExtendRefFails` | the file does not grow for a refcount block |
| `FlushFails`, `CloseFails` | the refcount in the buffer is lost in the first `fseek` of what comes next, or in `fclose` |
| `Open`, `OpenFails`, `Close`, `StartWrite` | `init_qcow`, `deinit_qcow`, a call of `qwrite` |
| `Crash` | the process dies, within a call or between two, with or without what is in the buffer |

`LookupShared` ends the process: `cow_alloc_cluster` divides by zero (finding
`shared_write`), with the flags of the Makefile (`-O0`) on the machines it builds for.

### Abstractions

* A word is written whole or not at all; the data of a cluster may be cut at any word.
* What `fwrite` puts in the buffer reaches the file, or fails to, at the next `fseek`, with
  which `write_at`, `read_at`, `zero_out_at` and `fsize` begin. An action is the moment its
  write reaches the file, so `pc` names a write that is made or still in the buffer, and a
  failure does what the code does where it shows. Only the refcount of line 1028 has no
  `fseek` of its own iteration behind it and is kept apart (`late`): the next call or
  `fclose` flushes it, and a kill before that loses it. A flush that fails drops
  what was in the buffer, as that of glibc does. Zeros and data may be longer than the buffer and
  then reach the file in part and at once; both are modelled.
* A crash leaves a prefix of the writes in program order; the kernel keeps what it was
  given. Losing power, which may reorder writes, is not modelled. `fsize` fails together
  with the extension it precedes.
* When the entry of a new L2 table is lost, memory has the table and the file does not, and
  `set_lba_at_img_offset` writes its later entries relative to offset 0. The model does the
  same: `L2Table` is then 0, and the entry goes into the header, where no table is read.
* The words of the header are words no table owns; `init_qcow` parses the tables only
  (`QcowOpen` has the rest of it).
* `qread` changes nothing, so it is a pair of operators, for one word.
* Guest addresses are unbounded: the wrap of `unsigned int offset` at 4 GiB (line 1397)
  is a hazard that no property covers; `Partitions` has the same width.
* Refcounts are 64 bits wide (`refcount_order` 6). There are no compressed clusters
  (`QcowCompressed`), no extended L2 entries, no backing file, no external data file, no snapshots.

### QcowFat: state and actions

The unit is a slot of 32 bytes, the size of a directory entry; what slot k of cluster n
holds is named by its place `<<n, k>>`, so a property can tell which cluster a byte came
from. The volume is given by constants: the FAT as a function, for every first cluster
the chain that the FAT links from it (`VolumeAssumption` says that it does), and the
entries by place (`EntriesAssumption` says of what kinds). A number that no cluster of the
volume has may have entries, too: the product of `get_n_sector_at` wraps (`qcow_part.h:127`)
and finds some sectors of the disk. Empty files, and `..` in a directory of the root, have
the first cluster 0, which has no chain. What `qfs_mount` allocates is zeroed, and stored
nowhere (`Calloc`).

| variable | code |
|---|---|
| `mounted` | between `qfs_mount` and `qfs_unmount` |
| `cache` | `lru_cluster_idx`, `lru_cluster`; ghost `torn`: the buffer is not that cluster |
| `lfn` | the static `order` and `checksum` of `update_lfn_entry_name` |
| `file`, `dir` | the `qfs_file_t` and `qfs_dir_t` of the callers |
| `call`, `result` | the frame of the call on its way (`pc` says where it is) and its return |
| `spent` | how much of each bound is used |
| `listed`, `tainted` (ghosts) | the entries returned since `qfs_opendir`; files sought out of their first cluster or by more than a cluster (backwards: by a distance that wraps), directories listed from a torn buffer or over a number that is not of the volume |

| step | code |
|---|---|
| `Mount`, `Unmount` | `parse_fat_fs`, which allocates a zeroed buffer, `qfs_unmount` |
| `StartOpen`, `ResolveName`, `Opened` | `qfs_open`, `qfs_opendir`: a loop over the names of the path |
| `Seek`, `StartRead`, `StartReadDir` | `qfs_seek`, and `qfs_read`, `qfs_readdir` up to the first fetch |
| `FetchEnds`, `FetchCached`, `FetchStored`, `FetchFails` | `fetch_next_cluster`: no next cluster, found in the buffer, read, read in part |
| `Copy` | one iteration of `fat_read` |
| `ScanClusterEnds`, `ScanEnds`, `ScanSkips`, `ScanFinds`, `ScanLists`, `ScanLongName` | `iterate_fat_dir`, one entry per step, with what `fat_lookup` and `fat_readdir` do on each outcome |

Abstractions: names are members of a set, and an entry carries all the names that a
comparison accepts for it (the code compares the shorter of the two lengths).
`update_lfn_entry_name` advances the pointer `name_size` instead of the number, so from
the second character on it stores at indices found on the stack: the comparison of the
entry that follows may then go either way (`call.stray`); the outcomes in which the
process dies are not modelled. `fetch_next_cluster` leaves in the cursor the entry that ends a
chain (`qcow_fat.h:379`), and a `qfs_readdir` that follows reads that number as a cluster. A FAT
entry beyond the table is any of `BeyondTable`. A name of the path is compared as it is given: `sub_path` has no room for
a terminating zero, and the byte after it is taken to be one. The allocation of
`sub_path` that fails returns before anything has changed and is left out, as is an
empty name within a path. The FAT tables are read when mounting and do not change. `qfs_stat` is a lookup as
`qfs_open` makes it. The attribute of an entry is left to its kind: in the code every
read-only, hidden, system or volume-label entry is of kind `lfn`.

### QcowOpen: state and actions

From byte 72 on an image is a sequence of words of 8 bytes (`img.words`), each of two
32-bit numbers, because what a word means depends on where `fread` stands: the third part
of the header is read there for a header of version 2 too, and the extensions begin after
what was read last (`FirstExtension`). `img.written` says which
extensions an image was written with, and where; only `ExtensionsFound` uses it. Lengths of extensions are multiples of 4, and an
image has one external data file at most.

| variable | code |
|---|---|
| `ctx` | the pointers and sizes of `qcow_ctx_t` that outlive a call; a table is the length it was allocated with |
| `open` | the `FILE` objects, by what they are and which call opened them |
| `image`, `pc`, `word` | the file, the step of `init_qcow`, the position of `fread` |
| `exts`, `buffers` | `qcow_header_exts`, and the data buffers that are allocated |
| `result`, `death` | what the call returned, how the process ended |
| `spent`, ghost `retried` | the bounds; a context that held a file was opened again |

Every call of `init_qcow` is a path through `init_qcow_img`, `parse_qcow_header`
(`HeaderError` is the first check that fails, in the order of the code),
`parse_qcow_ext` (one extension a step), `GetBase`, `init_raw_external_data` or
`dump_qcow_header_extension` for each extension, `ChooseClustersFile`, `CopyFields`,
`parse_ref_cnt_table`, `parse_l1_table`, `recompute_ref_cnt`. The steps named `..._fails` are
the errors; `FailAfterDeinit` and `FailAsItIs` are the two ways out of `init_qcow`, most of
them after `deinit_qcow` and some not. A table with reserved bits ends a call like a read
that fails; of `recompute_ref_cnt` only the outcome is there. `ENCRYPTION_HEADER` is kept
and freed like `BITMAPS_EXTENSION`, which stands for both.

### QcowCompressed: state and actions

The file is a sequence of units, `C` to a cluster and `S` to a sector. A guest cluster holds
a value, deflate makes `Size[v]` units of it, and unit `i` of them is `<<v, i>>`; what inflate
finds at a position is the value whose units are all there. So a unit that is
overwritten, missing or not read makes a cluster unreadable, and nothing else does.

| step | code |
|---|---|
| `StartWrite`, `RefuseEntry` | a call of `qwrite`; an entry that is not aligned |
| `ReadOld`, `ReadShort` | refcount 1 and a compressed entry: `read_compressed_cluster`, and the same on a region that ends beyond the file or cannot be read |
| `ZeroOld`, `WriteNew`, `DeflateFails`, `ZeroOldFails`, `WriteNewFails` | `write_compressed_cluster`: deflate, and two writes that may stop after any unit |
| `SetEntry` | the new L2 entry |
| `MakePlain` | refcount 0: `alloc_cluster` links bits 9 to 55 of the entry as the offset of a plain cluster (lines 1211 to 1213 and 1366), that is, the position rounded down to a sector and with those of the additional sectors that lie below bit 56 |
| `FindPlain`, `WritePlain` | refcount 1 and a plain entry; the data of a plain cluster, any part of it, and the refcount |
| `CopyShared`, `CopySharedFails`, `CopyPlain` | refcount above 1: `cow_alloc_cluster`, of a compressed cluster in one step or one failing step, of a plain one the division by zero |

`Kept` and `Far` say how many values of the additional sectors the bits below 56 hold, and how
many units the lowest of them adds to an offset. `base` is the size of the file when it was opened:
new clusters are on multiples of the cluster size from there. The ghosts `want` (the
value of each cluster for its owner), `erred` (clusters that a failed call was about) and
`reached` (clusters with units where a call about another one may write) are for the
property. A request is about one guest cluster; there are no crashes. The L2 entry of a plain
cluster that is lost without an error (`SetEntryFails` of `QcowImage`) is left out, as an
entry is that which `qwrite` and `qread` see in memory.

### BtrfsTree: state and actions

A volume is a superblock, the blocks on the disk by physical address, and for each
logical address the node that the volume itself has there (`home`), which only
properties use. `stack` is the recursion of `parse_btree`, a frame per node with the index
in it; `call` is a call that has not read its node yet; `chunks` is the chunk map; `held` counts node
buffers; `seen` (the nodes parsed, in order) and `empty` (the addresses that read as zeros) are
ghosts. `NothingMissed` compares them with the tree the volume has: `InOrder` says that the
subtrees of the children of a node tile the list behind it, without recursion. `ReadSuperblock`, `SysChunk` (an item of the
system chunk array), `SysEnd`, `ReadNode` (translation, read, checks, every failure),
`LeafItem`, `ChildNode`, `NodeDone`, `ChunkTreeDone`, `RootTreeDone` are the steps. Addresses are
taken modulo `Word32` where the code has a `u32`. The mount frees the map and returns
`QCOW_TODO` when both walks succeed, as the code does.

### Partitions: state and actions

A disk is the content of LBA 0, GPT headers by sector and their arrays. `SectorAt` is the
32-bit product of `get_n_sector_at`, `Align` is `align` of `utils.h` as it computes, sizes of entries are in units of a
`gpt_entry_t`. `ReadLba0`, `ParseMbr`, `ReadHeader` (all checks of one header),
`ParseArray` (size, CRC, entries, the list) are the steps; `which` says whether the primary
or the backup is parsed, and `PrimaryFails` and `BackupFails` are what an error of each does
to the list and the count. The CRC is right or wrong.

### Zstd, ZstdFormat, ZstdTables: state and actions

`Zstd` follows `parse_frames`: `StartFrame`, `SkippableFrame`, `PlainBlock` (raw and RLE),
`CompressedBlock`, then `ParseLiterals`, `ParseSequencesHeader`, `ReadTables` (one field each),
`DecodeSequences`, `ExecuteSequence`, `ExecuteRest`, `FinishFrame`, `NextFrame`, `Return`, and
the refusals. A table is the set of the values it can decode to, and every byte is a
different one, as no decision is made on a byte. The ghosts `meant` and `damaged` are what the
format says: the table that a field has, and whether the stream is forbidden. The ghosts
`live`, `twice` and `cut` are about the heap: the tables that are allocated, those that were freed a second
time, and where the stream ended too early. `Deallocate` frees what the workspace points to,
allocated or not. `Truncated` is a read that finds the end of the stream, of which there are three
kinds: most free the workspace once; the streams of Huffman coded literals are read with the
table to be freed on failure, by a copy of its pointer, and `deallocate_workspace` frees it again;
the checksum is read with nothing to be freed. `ShortStream` is a single stream
that holds fewer literals than announced, which the code takes for a success.

`ZstdFormat` knows plain bytes, literals, sequences and recent offsets, and nothing of
tables, headers or workspaces. Its operator `Repeat` says what a match is, without a
copy. The mapping: `PlainBlock` is `PlainBytes`, `ParseLiterals` and `ShortStream` are `ReadLiterals`,
`DecodeSequences` is `ReadSequences`, `ExecuteSequence` is `Sequence`, `ExecuteRest` is
`LastLiterals`, `FinishFrame` is `FinishFrame`, `Return` is `Accept` or `Refuse`, an error is
`Refuse`, and the other steps stutter.

`ZstdTables` builds one FSE table from a description drawn value by value
(`ReadProbability`, `RepeatZeros`, `BuildTable`), or one Huffman table from weights
(`BuildHuffTable`) and decodes with it the literals that an encoder following the
format put down, in one or four streams (`OpenStream`, `DecodeLiteral`, `StreamRefused`,
`CloseStream`).

### Huffman, Deflate: state and actions

`Huffman` takes the frequencies of both alphabets of a dynamic block through
`generate_hf_tree` (`Merge`, `TreeBuilt`), `rle_encoding` (`Pack`), `decode_lengths` (`Unpack`,
`Overrun`), `generate_codes` on both sides and one code of each symbol (`Symbol`). The third
tree, of the code lengths, is of the same kind and left out: packed lengths travel as
values.

`Deflate` cuts a buffer (`Split`), searches it (`Encode`, `LongestMatch`), ends a block
(`Delimit`), writes it by any of the three methods (`Choose`: which is the shortest, and at
which bit a compressed block ends, is left open), and reads it back (`Header`, `Stored`,
`Tables`, `DecodeLiteral`, `DecodeMatch`, `DecodeEnd`). `StoredSkipsByte`,
`FixedTablesGone` and `DecodeMatchFails` are what goes wrong (section 6).

## 4. Runs

Every property of a passing run has a mutant, a variant of one definition as a plausible
slip would have it, under which TLC finds the property violated. `CHECK_DEADLOCK FALSE` in
all of them: the environment stops when its bounds are used up, a program when it is done.

| run | states | properties | shows |
|---|---|---|---|
| `session` | 667,000 | `TypeOK`, `ReadBack`, `MappingCoherent`, `ClustersAligned`, `LossIsReported`, `QwriteReturns` | one handle, three writes, up to two failures of anything, at once or where stdio empties its buffer: calls return, can be read back, leave coherent tables, and lose data without an error in one place only |
| `crash` | 350,000 | `RefCountsCoherent`, `DiskKeepsData`, `ReadsAllowed`, `LinksAreFinal`, `NoOverlap` | guest data survives a kill between any two writes or two calls, with or without the buffer, and reopening; with a failure clusters stay apart until one without a place is written to again |
| `open` | 44,000 | `HoldingsAccounted`, `BuffersFreed`, `ExtensionsFound` | what a context holds through three openings of sound, old and damaged images |
| `rewrite` | 859,000 | `ClustersKept` | three writes to compressed, plain, shared and uncounted clusters, with and without room, one of which fails |
| `fat` | 861,000 | `CursorOnChain`, `ReadExact`, `ListedOnce`, `OpenExact`, `CallReturns` | five calls on two files and a directory that share the cached cluster, with a failing read and a second mount, on a volume with an empty file, `..` to the root and a chain that no entry ends |
| `mount` | 600 | `TypeOK`, `LevelsDescend`, `RightNode`, `NothingMissed`, `BuffersBalanced`, `TranslationStable`, `MountEnds` | some forty volumes, sound and damaged, every read and allocation failing in turn |
| `parse` | 4,700 | `CountMatchesList`, `ListedTable` | every pair of sound and damaged GPT headers, MBR disks, a disk beyond the 32-bit addresses |
| `zstd_tables` | 217,000 | `SpendsExactly`, `EveryMoveOnce`, `LiteralsExact` | every description of an FSE table of 32 states; literals for eleven weight vectors |
| `zstd` | 2,600,000 | `TypeOK`, `TablesAgree`, `NoneRefused`, `Implements` | up to two frames of up to two blocks, damage at every point and a stream that ends anywhere |
| `huffman` | 302,000 | `LengthsSurvive`, `CodesDecode` | literal alphabets of seven symbols with all frequencies of three values, and four distance alphabets |
| `deflate` | 845,000 | `ReadsBack`, `MatchesCover` | two-letter buffers of up to two blocks, every method, two bit positions |
| `zero_flag` | | `ZeroOffsetNeedsErdf` (violated) | the finding of section 6 that contradicts a comment word by word |

In `QcowFat`, `QcowOpen`, `QcowCompressed` and `ZstdTables` the type invariant is a conjunct of
`CursorOnChain`, `HoldingsAccounted`, `ClustersKept` and `EveryMoveOnce`.

### Bounds

*Image.* Clusters of 4 words, sectors of 2, an L1 table of 2 entries and a refcount table of
4: 8 guest clusters, two L2 tables, and refcount blocks that a guest address can reach,
miss, or be beyond. Images are laid out as `qemu-img` does: header, refcount table, refcount
block, L1 table. `ShortImage` ends with the last L1 entry, as freshly created images do;
`SharedImage` has a refcount of 2; `DiscardedImage` and `ZeroFlagImage` have a cluster with
the zero flag; `SparseImage` maps a guest cluster beyond the host clusters. The requests of
`session` are inside a cluster, across two, across two L2 tables, a whole cluster, beyond
the disk, beyond the refcount table; `crash` has two inside a cluster and the one across two L2 tables. Every interesting
case needs two writes (allocate, then use or retry), so three leave room for one before or
after; two failures fail a call and its retry, at any of the points where the code may fail.
The choice of images is part of what a run states: `crash` has no sparse image and its
properties but `NoOverlap` are about behaviours without a failure (`faults = 0`), `session`
starts from files of whole clusters and asks of `MappingCoherent` and `LossIsReported` only
what holds until an error is returned.

Six conditions in the properties name what the code does not keep; each has a configuration in
section 6 or a line there. When zeros that fit the buffer are lost, memory has an entry for a
cluster that the file has not; its place is handed out again, and a second write to it in
the session links it (`retried`). `NoOverlap`, `MappingCoherent` and `ClustersAligned` hold until
then. An L2 entry or data that is lost in the unchecked `write_at` of line 1467 is lost without
an error (`unseen`): `MappingCoherent` excepts the entry, `LossIsReported` both, and says
that nothing else is lost so. A refcount that a kill lost in the buffer makes its cluster read as
zeros (`uncounted`), which `ReadsAllowed` excepts for that cluster only, until it is counted again. On a file that does not
end on a sector (`RaggedImage` of `crash`) a new refcount block begins at an address whose
low bits are part of the word in memory and not of the place on the file, so
`RefCountsCoherent` is about sessions with `base % Sector = 0`. On a file that does not
end on a cluster new clusters are not on cluster boundaries, so `ReadBack` and
`ClustersAligned` are about `WholeSession`. What one session loses and reports shows in
the next one, which did not report it, so `LossIsReported` is about the first.

*Opening.* 34 images: every check of the header fails in one of them, headers of version
2 with and without extensions, headers that end early, lists of known and unknown extensions
with and without data and padding, backing and external files. Three openings, because
what one image leaves in the context shows in the second and its closing before a third.

*Compressed clusters.* Four units to a cluster, two to a sector; values that deflate to less
than a cluster, a cluster, and a cluster and a sector. Images with room behind each
cluster and with clusters one behind the other, as writers of compressed images lay them out;
files that end with a cluster, before one, and inside a sector; a damaged cluster; refcounts of 2,
and of 0 at every kind of position; plain clusters, aligned or not, shared or not. One additional sector is
below bit 56 (`Kept` is 2) and leads beyond the file (`Far` is 16). `ClustersKept` excepts what a
failed call was about (`erred`), what a call about another cluster reaches (`reached`: a
region in place, or the place that a plain entry made of a compressed one names), and values that their
entry names too small a region for; that these three are losses is in section 6.

*FAT.* Clusters of three slots; a root of two clusters, a directory whose long name
crosses from its first cluster to its second, that has a `..` to the root (first cluster 0) and no
entry that ends it, one with a long name of a single part, an empty file, a fragmented file of three clusters, one that ends with its
cluster, and one whose chain is cut short. The numbers 0 and 18, which no cluster of the volume has, lead to
sectors that hold entries. Five calls open the root and list its
four entries over its cluster boundary, list directory `d` to its end and once more past it, or
open two files and read them in turns over a cluster boundary with a failure between.
What `ReadExact`, `ListedOnce` and `OpenExact` leave out is named by a ghost, and is a
defect of the code: calls served by a buffer that a failed fetch or a second mount has
overwritten (`call.sure`, `tainted`), listings that go on after the end of a chain was reported as
`file_not_found` (`tainted`), lookups through a directory without a chain, as `..` to the root
(`call.sure`), names compared after a long name (`call.sure`), and files
moved by `qfs_seek` out of their first cluster, or to it by a distance that is not within one
(`tainted`; `fat` seeks backwards by one, which `qfs_seek` takes for a distance of 2^64 - 1).
`ListedOnce` is about directories no cluster of which ends with an entry that is returned (`Listable`).

*btrfs.* Trees of up to three levels over two to three chunks; the damaged volumes have a
wrong level, a node that is its own descendant, a block of another file system, an
overlapping chunk, a system chunk array that ends inside an item. Mirrored copies of a block
agree, and in every volume a block with a right checksum and an address that something
points at is the node of that address (`NodesSigned`). The program has no
loop but over these, so small trees meet every case.

*Partitions.* 12 sectors with arrays of up to five entries, one disk of 36 sectors where 16
are addressed by 32 bits.

*Codecs.* The run limits are 3 and 4 instead of 6, 10 and 138, so that a run takes two items
in a row; blocks of 13 bytes with matches up to 4; five of the 32 states of an FSE table
are enough for a symbol with states of two widths, and all descriptions are drawn. In `RepeatZeros`
the model stops a run of zeros at the symbols that a table may have.

### Fairness

`FairSpec` adds weak fairness of the steps of a call: in `QcowImage` the writes that succeed,
in `QcowFat` every step of a call but a failing fetch, in `BtrfsTree` every step. A call runs
in the thread of its caller, holds no lock and waits for nobody, so it takes its next
step. Nothing is assumed of the callers, of failures, or of crashes. `QwriteReturns` and
`CallReturns` are checked with failures, `CallReturns` on FAT chains without a cycle: on a
cyclic chain of full directory clusters a lookup does not end. `MountEnds` needs no such choice: a tree with a cycle is refused.

## 5. Proofs

For every value of the constants that satisfies the assumptions their modules name.

`QcowImageProofs` proves `TypeCorrect == Spec => []TypeOK`. `TypeOK` is inductive by itself.
What is not bookkeeping in it: `done \in 0 .. req.len - 1`, that is, `qwrite` never enters an
iteration with nothing left, which follows from `Chunk` being positive and at most what is
left (`OffType`, from `RemainderRange`, one of the lemmas on `%` and `\div` that the
module begins with); that an index into a table is below its size
(`IndexRange`); and that an L2 entry is read only from a table that is not NULL
(`MappedType`). There is one lemma per group of actions, over lemmas for the three ways the
file changes (`PutWordType`, `ZeroToType`, `PutDataType`).

`BufferType` adds that what is lost in the buffer does not leave the file longer, and `MarksType` the ghosts.

It proves `NoOverlapAlways == Spec => []NoOverlap`, that is, for every failure and every kill until a
cluster without a place is written to once more (`retried`), from two more assumptions
about the image a session is given: `LayoutAssumption` (the L1 and the refcount table are
past the header and apart from each other) and `SoundImage`, a conjunct of `Init` (the
clusters that the image already has do not overlap, and begin within the file). Nothing
is assumed of the size of the file being a multiple of the cluster size, so images cut
short, and what failed extensions leave, are included. `NoOverlap` speaks of what the
tables of the file refer to, which is not inductive: a cluster is handed out by
`extend_img_file` several writes before a table refers to it, and when the write of an L2
entry fails the cluster stays in the L2 table in memory, where a later call finds it. The
invariant `IInv` is about *claims*: a place is claimed by an owner (an L1 entry, a refcount
table entry or an L2 entry) if the file refers to it, if the L2 table in memory does
(`HeldInMemory`), or if the call on its way holds it (`HeldByCall`). An entry in memory whose cluster the file did not get (`stray`) claims nothing, as its place is
handed out again. `ClaimsApart` says that
two different claims are on disjoint clusters, `ClaimsPlaced` that a claim begins within the
part of the file that is not lost with the buffer (`Reached`), on a sector, and off the header
and the two fixed tables. With them go
`IndexChecked`, `NewTableBlank` (the L2 table being linked is empty, so linking it claims
nothing more), `TablesInFile` and `LateCounted` (the word in the buffer is in a refcount block, and
the file has nothing else past its end without it). `SoundClaims` is the whole as long as nothing is
`retried`, which stays once it is so (`RetriedStays`). The argument:

* an extension makes one new claim, at `Mask(ExtendedEof)`, and `FreshPlace` shows that it
  begins past every claimed cluster and past every table: the file grows by a cluster
  beyond its old end, which rounding down to a sector does not lose, because the other
  claims begin on sectors (`ClaimsGrow`);
* no other step makes a claim, it turns one kind into another (`ClaimsFollow`): the lookup
  hands a claim of memory to the call, `SetEntry` and `LinkL2` hand one of the call to the
  file, `Open` one of the file to memory, and a failure or a crash drops some; a cluster whose zeros are
  lost is dropped with the file's growth, and what stays in memory is stray (`MappedStray`);
* losing the buffer takes back a refcount, and no place (`LoseKept`);
* a write of data or of a refcount stays within a cluster claimed by an owner that is not
  an L1 entry, or in the header, and so changes no entry of a table (`ClusterWritten`).

The first part of `DataProofs` is about the two copies of every table. `MappingAlways` and `RefCountsAlways`:
between two calls the L2 tables and the refcount blocks in memory are those of the file, in
every session and after any crash: the L2 tables up to the first failure that was reported, or that lost
an entry in the unchecked write of the data (`Reported`), the refcounts up to the first that
happened. Between the writes of a call they are not, so the invariants `MapInv` and `RefInv`
say at each step which entry is ahead, and that a table which is being linked is
not yet used (`NewTable`, `NewBlock`). `SoundMap` and `SoundRefs` put them on `SoundClaims`; `Counters`
says that without a failure there is nothing `unseen`, `stray` or `retried` and nothing is taken back
but by a kill. `LinksTheorem`: an entry of the file is put once
and then only gets its flag, the action property that a guest cluster is never moved behind
the back of the table in memory. `ClustersAlignedTheorem` assumes `AlignedImage`, that what the
image already has is on cluster boundaries; `ClaimsAligned` is the invariant, about claims
again, because the cluster of a failed call is used by a later one.

Its second part is about the words of the guest, and rests on all of the above: that a write of
data goes to a cluster of this guest cluster alone (`NoOverlap`), that the entry which
leads there is on the file (`MapInv`) and stays (`LinksAreFinal`). `Sound` is the conjunction
of the invariants so far.

* `DataTheorem`: after every single write of the file, each guest word on the disk is one that
  `allowed` has, wherever the process is killed. `DataInv` says what a call has changed so
  far (`WrittenSoFar`, `ChunkWritten`), that the cluster in hand reads as what it is to
  replace until it is linked (`HeldReads`), and where the entry of it is (`EntryThere`).
* `LossTheorem`: the same after failures in the first session, until a call returns an error or the write of
  the data, with an entry or a refcount that fails in its `fseek`, has lost some
  (`unseen`). `LateMapped`: the refcount in the buffer is that of a cluster which has a place, so
  losing it loses no data.
* `ReadsTheorem`: what `qread` returns, from tables in memory and the refcounts that it asks
  first. `CountInv`: the clusters a call has passed are counted (`CountedSoFar`);
  `ZeroInv`: what is not counted may read as zeros, or was counted in the buffer of a process that was
  killed (`MayBeZero`).
* `ReadBackTheorem`: what a call reported written is read back. `BackInv`: the entries of the
  call are aligned, and what it served so far is in memory, counted, and within the file.

Two hypotheses on the image they start from: `ZeroFlagsCounted` (a cluster with the zero flag and
no place has a refcount) and, for `ReadsTheorem`, `DataCounted` (a guest cluster whose guest
address has no refcount reads as zeros). Both hold in every image of `session` and `crash`.
The first fails for the image of `QcowImage_zero_flag` alone, the second for
that of `QcowImage_sparse_read` alone, and these two runs show that the code goes wrong
there.

`QcowOpenProofs` proves `HoldingsTheorem` and `BuffersFreedTheorem` for every set of images
(`ImageFile`). The invariant `OpenInv` has three parts: `Shape` (the types, and which steps
follow which), `Held` (at each step, which of the pointers of the context may be NULL and which `FILE`
each names) and `Counted` (the data buffers that are allocated are as many as the
extensions with data that were parsed and not yet freed, for which the proof counts with
`Cardinality`). `Held` cannot be weaker: what `deinit_qcow` closes at a failure depends on
how far the call came, and on what an earlier one left in the context.
`ExtensionsTheorem` has no hypothesis beyond what `ExtensionsFound` says of an image
(`LaidOut`: version 3, a header of 112 bytes, each extension behind the padded data of the one
before, an end). The invariant `Followed`: `parse_qcow_ext` stands where the `k`-th extension was
written, for some `k`, and the list holds those of the first `k - 1` that are kept, in order
(`Follows`, an increasing map from the list to what was written); the padding that the code
skips by and the length that it reads by add up to the place of the next one.

`QcowCompressedProofs` proves `ClustersTheorem == Spec => []ClustersKept`, for all sizes of clusters,
sectors and values, all images, refcounts and failures, and without a hypothesis: what goes wrong is in
the property, which excepts clusters that a failed call was about, that a call about another cluster reaches,
and values that their entry names too small a region for. `ClustersKept` says what inflate returns, and is not
inductive: a region may be read short at the end of the file, and what is
there after another call has let the file grow is a different read. The invariant `IInv` speaks
of the units that are on the file at the position of each entry (`Holds`), for the clusters that are
`Tracked` (`AllHeld`). `Clear` says that none of these has units in the region that
the call on its way may still write, its `Target`, which only shrinks from step to step: `StartWrite`
puts in `reached` what it meets. `Rewriting` is the call's own cluster, which has its units
on the file when its entry is set. `WriteKeeps` and `LongerKeeps` are the lemmas that the steps share:
units outside of a write are as they were, also where the file grows, and `OthersHeld` carries
`AllHeld` over a step. A copy of a shared cluster is put past the end of the file
(`CopyPlace`), where nothing has units. `KeptByHeld` ends it: where the units of a value are, no other
value begins (`OneValue`).

`QcowFatProofs` proves four theorems, for every volume, number of files and directories, and
interleaving of calls. `CursorTheorem` and `ReadTheorem`: `CursorOnChain` holds between calls
only. In a read the offset moves first and the cluster after, and the fetch between may fail,
so `OnChain` says for every state which of the two is ahead (`Crossing`); `InFile`, that a read stays within the file and
fetches only at a boundary, is needed for it. `Returned` is about what a read has copied so
far, and holds because the buffer is the cluster that the cursor names unless it is
torn (`CacheHeld`). That a chain links each cluster to one next cluster (`ChainLink`), and the
last to none (`ChainGoesOn`), is all that is used of the FAT.

`OpenTheorem`: the invariant `Looked` says of a lookup that the names already done lead to the
node whose directory is scanned (`OnPath`), at which position of that directory the scan
is, and that no entry before it has the next name (`ScannedTo`), as long as every directory passed has a chain
(`call.sure`): a path through `..` to the root is scanned in what cluster 0 wraps to, and nothing is
claimed of it. The position is one past the
cluster where the scan moves on, so the fetch of the next cluster keeps it. `Reached` states
what a path names by a trail of nodes, which a proof can extend by one, and cut.

`ListedTheorem`: the invariant `ListInv` ties the two halves of a directory's cursor, the
index and the cluster, to one position (`DirPlace`), between calls, in a scan, at the end of a
cluster, and after the cursor has left a chain that no entry ends. The entries listed are
those before that position (`Enumerates`, by counting). There is no hypothesis on the volume: `ListedOnce` is
about each directory that is `Listable`, that is, has a chain, no cluster that ends with a live entry, and
fewer entries than a u32 counts. Without the second,
the index is in the next cluster and the cursor is not, and entries are listed twice:
`QcowFat_readdir` shows it. A cursor that has left the chain (`OffChain`) has returned all entries and the call
`file_not_found`; a call after it fetches a number that is not of the volume, lists what is there, and is
`tainted` from the fetch on (`Astray`), whatever those sectors hold.

`PartitionsProofs` proves `CountTheorem` (the count is the length of the list) and
`TableTheorem` (what is listed is whole, from the MBR or from one GPT whose header and
array are sound). The invariant `TableInv` follows the list through both passes: while the
backup is parsed the list of the primary is still stored, and only an error of a kind that
the loop goes on after lets it survive. `TableTheorem` assumes that a disk has headers only
in sector 1 and the last one; without it the 32-bit product of `get_n_sector_at` may find
a header elsewhere.

`BtrfsTreeProofs` proves `TypeTheorem`, `LevelsTheorem`, `BuffersTheorem` and
`TranslationTheorem` whatever the blocks of the volume hold. Levels fall along the stack
because `ReadNode` compares the level of a node with the one its parent expects; the
invariant needs that of the pending call, too. The buffers held are the frames of the stack,
up to a failure. A translation that exists is not changed, because the chunk map is only
appended to and the first match decides. `RightNodeTheorem` assumes `NodesSigned`, that no sound block carries
the address of another node: then the node that is parsed is the one stored under the
address asked for, even where the first match is the chunk before, because its address is
compared.

`NothingMissedTheorem` needs `NodesSigned` and `ChunksLead`: from inside of its range no
chunk item leads from an address that is pointed at to zeros, unless the volume has zeros
there. Without it a wrong chunk item could make a node that is there read as zeros, and the code
could not tell. Of the 45 volumes of `mount` 44 satisfy the first and 42 the second, those with
nodes at the edges of chunks among them. The invariant `ListInv` has four parts: `Fates`
(an address that was answered with a node or with zeros still is, as the map only grows),
`Kin` (the next child of a frame is the frame above it, or the pending call), `Walked` and `Others`
(the list so far: each frame knows where in the list its node is, each finished tree where it ends,
and what is between is tiled by the children already done). `EmptyInv` adds that each range of the map is a stripe of a
chunk item of the volume, so zeros at an address that has a node come from the upper end of a
range, which the code takes for a part of it.

`ZstdProofs` proves five theorems. `CopyTheorem`: the byte-by-byte copy of a match is
`Repeat`, by showing that `Repeat` solves the recursion of the copy and that nothing else
does, for every offset, also where the copy reads what it writes. The invariant `ZInv` is
`Data` (bytes, literals left, offsets positive), `Tables` (what a field decodes with is what
the format means), `Places` (what may be allocated at which stage) and `Bounded` (the sum of
literal lengths is at most the literals). Beside it `Heap`: what is allocated is what the workspace points
to, and nothing was freed twice, unless the stream ended at the checksum or in coded
literals. From them `TypeTheorem`, `TablesTheorem` and
`NoneRefusedTheorem`; and `ImplementsTheorem == Spec => Format!Spec`, one lemma per action,
under the mapping of section 3. That the first of the repeated offsets minus one is not
zero is what the last check of `DecodeSequences` is needed for.

Only model-checked:

* `QwriteReturns`, `CallReturns` and `MountEnds`: TLAPS in this version does not reason about
  fairness and `ENABLED`;
* what `ZstdTables`, `Huffman` and `Deflate` compute
  (`SpendsExactly`, `EveryMoveOnce`, `LiteralsExact`, `LengthsSurvive`, `CodesDecode`,
  `ReadsBack`, `MatchesCover`): recursion over data, which asks for an induction that no
  installed prover can instantiate.

## 6. Where the code and its documentation part

`zero_flag` is the run that is kept as a finding. The configurations below end in a
violation by design and are not part of the list of runs: `tlc -config X.cfg MCmodule`
shows the counterexample.

| configuration | property | the code |
|---|---|---|
| `QcowImage_zero_flag` | `ZeroOffsetNeedsErdf` | a cluster that reads as zeros by its flag is linked to offset 0, the header (`qcow_parser.h:1212`, against the comment at 1054) |
| `QcowImage_sparse_read` | `ReadsAllowed` | refcounts of host clusters are looked up with guest addresses, so a mapped cluster may read as zeros (`:955`) |
| `QcowImage_shared_write` | `SharedIsCopied` | copy-on-write of a plain cluster divides by zero (`:1155`, `:1244`) |
| `QcowImage_reopen` | `ReopensAfterClose` | the position of a new table is one cluster too far, and a file that ends with one is refused by the next `init_qcow` (`:1169`) |
| `QcowImage_lost_extension` | `Apart` | zeros that fit the buffer of stdio fail after the entry of the cluster is in memory (`:1116`, `:1120`); the place is handed out again, and a second write to the first cluster links it there, too |
| `QcowImage_lost_write` | `EveryLossReported` | an L2 entry or data that fails in the `fseek` of the write of the data is a success (`:1467`) |
| `QcowImage_killed_count` | `AcknowledgedIsRead` | the refcount stays in the buffer when `qwrite` has returned (`:1028`); after a kill the cluster reads as zeros |
| `QcowOpen_failure` | `FailureReturned` | `deinit_qcow` passes a NULL `clusters_file` to `fclose` when the header or the extensions are refused (`:313`) |
| `QcowOpen_version2` | `VersionTwoOpens` | `refcount_order` is read beyond a header of version 2; zeros there divide by zero (`:930`) |
| `QcowOpen_backing` | `BackingIsOpened` | the size of the name is tested before it is copied from the header (`:882`); on a context that held an image with a backing file the next opening fails |
| `QcowOpen_external` | `ExternalIsUsed` | the `else` at `:918` replaces the external data file by the image file |
| `QcowCompressed_packed` | `OnlyErrorsLose` | rewriting a compressed cluster puts zeros over a whole cluster from its position, and over what begins there (`:1311`) |
| the same, with `Size <- LargeSize` and `Images <- Spaced` | `OnlyErrorsLose` | a size above a cluster by less than a sector gets no additional sector (`:1437`); more are shifted by another amount than where they are read (`:1328`) |
| `QcowCompressed_end` | `ShortReadReturned` | a region that ends beyond the file is decompressed from a buffer that was freed (`:1335`) |
| `QcowCompressed_shared` | `CopiedIsPlain` | a shared compressed cluster is copied as it is and linked as a plain one (`:1283`) |
| `Huffman_no_distances` | `AnnouncedLengthsFollow` | an alphabet without distances is announced as one with a single length, which is not written (`xcomp.h:2412`) |
| `QcowFat_seek` | `SameInDifferentWays` | `qfs_seek` takes clusters as consecutive (`qcow_qfs.h:446`) |
| `QcowFat_readdir` | `NoEntryTwice` | a cluster that ends with a live entry is listed again (`qcow_fat.h:512`) |
| `QcowFat_lfn` | `LongNamesAccepted` | after one complete long name every later one is refused (`qcow_fat.h:205`) |

More of the same kind, met while modelling; the models have these steps, and the
properties name them as exceptions or exclude them by their bounds:

* image: a write into a region without an L2 table is refused when the refcount at the
  guest address is 1 (`qcow_parser.h:1389`); on a file that does not end on a cluster
  boundary new clusters are unaligned (`:1155`); a retry after an L2 entry that could not be written succeeds without writing it (`:1116`);
  when the entry of a new L2 table is lost (`:1086`), memory has the table, and its later entries go to the header;
* opening: the errors between lines 898 and 917 and at 947 return without `deinit_qcow`, and
  the external file and extension buffers leak; a header of length 104 has its first
  extension read as the compression type, and extensions begin at byte 112 whatever
  `header_length` says (`:723`);
* partitions: `num_sectors` is one short, as `ending_lba` is inclusive (`qcow_part.h:288`);
  an error of the backup header frees the partitions of a sound primary (`:406` to `:416`);
* compressed clusters: one whose refcount reads as 0 is made a plain one, at its position rounded down to a sector and
  over what is there (`:1212`, `:1366`);
* FAT: a listing that is asked again after `file_not_found` reads the number that ended the chain as a cluster and
  lists what its product wraps to (`qcow_fat.h:379`, `qcow_part.h:127`); `..` to the root is read at cluster 0; a name is taken for matching by the shorter length; the last valid cluster
  number is off (`qcow_fat.h:161`); the attribute of long names hides hidden and system files (`:418`);
* btrfs: the chunk tree address is a `u32` (`qcow_btrfs.h:1224`, against the comment at 362);
* zstd: a repeat of a single-symbol table is refused (comment at `xcomp.h:1621`); after a wrong
  size the stream and the output are not freed (against the note at 1101), nor after a
  header that cannot be read (`:3008`); an error path of `read_probabilities` frees the
  address of a local variable (`:1195`, out of reach as `SpendsExactly` shows); a single
  stream that holds fewer literals than announced is a success (`:1468`); a stream that ends in coded literals frees
  their table twice (`:1466`, `:1475`, `:1479` by a copy of the pointer, `:137`, then `:1847`), one that ends at the checksum
  frees no table (`:1854`);
* zlib: a stored block whose header begins at bit 5 loses a byte (`:2814`); a block with a
  single distance ends as if it were read (`:2978`); the pointer to the fixed tables outlives
  the function they are local to, which works without optimisation only; nothing limits a
  code to 15 bits, and the reader counts the codes of a length modulo 256 (`:2643`).

## 7. Not modelled

* `recompute_ref_cnt`: it takes offsets from the refcount table without converting them
  from big endian and deallocates what they then name, so where it writes depends on the
  bytes of the offsets.
* Extended L2 entries, backing files in `qread`, and the wrap of `unsigned int offset` at
  4 GiB.
* Which file system `qfs_mount` tries first, the checks of a FAT volume when it is mounted,
  `qfs_stat` (a lookup as `qfs_open` makes it).
* `read_weights` of zstd (the weights are given), xxhash and CRC-32 (right or wrong), the
  growth of buffers in the bit stream.
* ext4, which is a stub, the printing functions and the error texts.
