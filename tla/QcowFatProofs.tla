---------------------------- MODULE QcowFatProofs ----------------------------
(***************************************************************************)
(* Theorems about QcowFat, for every volume and all constants: cursors are *)
(* on the chain of their file, reads return what the chain holds, paths    *)
(* lead to what they name, and listings are complete.                      *)
(***************************************************************************)
EXTENDS QcowFat, SequenceTheorems, FiniteSetTheorems, TLAPS

(* The types, in the parts that the steps can disturb.                     *)
FileCursor == [open : BOOLEAN, node : Node, offset : Word, cluster : Word]
DirCursor == [open : BOOLEAN, node : Node, cluster : Word, idx : Word, cnt : Word \cup {-1}]
Buffer == [Slots -> Place]

Cached ==
  /\ cache \in [idx : Word, data : Buffer, torn : BOOLEAN]
  /\ lfn \in [order : {0, LastMask, FirstOrder}, sum : 0 .. 255]
  /\ mounted \in BOOLEAN /\ result \in Results /\ tainted \subseteq Handles

Cursors ==
  /\ file \in [Files -> FileCursor] /\ dir \in [Dirs -> DirCursor]
  /\ \A h \in Files : file[h].offset <= file[h].node.size

Fields == {"pc", "op", "who", "path", "goal", "node", "at", "slot", "stray", "left", "from",
           "out", "sure"}

Frame(c) ==
  /\ DOMAIN c = Fields
  /\ c.node \in Node
  /\ c.at \in Word /\ c.slot \in 0 .. Size
  /\ c.left \in Word /\ c.from \in Word /\ c.stray \in BOOLEAN
  /\ c.out \in Seq(Place) /\ c.sure \in BOOLEAN

(* The operations that each step is one of, and who they are about.        *)
Lookups == {"open", "opendir"}

Steps ==
  /\ \/ pc = "idle"
     \/ pc = "resolve" /\ op \in Lookups
     \/ pc = "scan" /\ op \in Lookups \cup {"readdir"}
     \/ pc \in {"fetch", "advance"} /\ op \in Lookups \cup {"read", "readdir"}
     \/ pc = "copy" /\ op = "read" /\ call.left > 0
  /\ pc # "idle" => mounted
  /\ \/ op = "none"
     \/ op \in {"open", "seek", "read"} /\ who \in Files
     \/ op \in {"opendir", "readdir"} /\ who \in Dirs

(* A read moves the offset by what it returns, within the file.            *)
InFile ==
  op = "read" =>
    /\ file[who].open
    /\ file[who].offset = call.from + Len(call.out)
    /\ file[who].offset + call.left <= file[who].node.size
    /\ pc = "advance" => file[who].offset % Size = 0 /\ file[who].offset > 0

(* The cluster of a cursor, in every state: while a read fetches the next  *)
(* cluster, the offset is already in it.                                   *)
Crossing(h) == op = "read" /\ who = h /\ pc = "advance"

OnChain ==
  \A h \in Files \ tainted :
    LET chain == Chain[file[h].node.first]
        k == (file[h].offset \div Size) + (IF Crossing(h) THEN 0 ELSE 1)
    IN file[h].open /\ file[h].node.first \in DOMAIN Chain /\ k <= Len(chain) =>
         file[h].cluster = chain[k]

(* The buffer that is not torn, and the one that a read copies from.  The  *)
(* cluster 0 counts as cached before any has been fetched.                 *)
CacheHeld ==
  /\ ~cache.torn /\ cache.idx # 0 => cache.data = Stored(cache.idx)
  /\ pc = "copy" /\ call.sure /\ file[who].cluster # 0 => cache.data = Stored(file[who].cluster)

(* What a read on its way has returned so far.                             *)
Returned ==
  op = "read" /\ call.sure /\ who \notin tainted /\ Complete(file[who].node) =>
    call.out = [i \in 1 .. Len(call.out) |-> Spot(file[who].node.first, call.from + i - 1)]

Typed == Cached /\ Cursors /\ Frame(call) /\ Steps /\ InFile
FatInv == Typed /\ OnChain /\ CacheHeld /\ Returned

-----------------------------------------------------------------------------
(* The types of what the steps are made of.                                *)

(* The constants, as the steps use them.                                   *)
LEMMA Constants ==
  /\ Size \in Nat \ {0} /\ U32 \in Nat \ {0} /\ U64 \in Nat \ {0}
  /\ 0 \in Word /\ 0 \in Slots /\ 0 \in 0 .. Size
  BY SizeAssumption DEF Word, Slots

(* A chain begins with its first cluster, and is of clusters below Max.    *)
LEMMA ChainType ==
  ASSUME NEW f \in DOMAIN Chain
  PROVE  /\ Chain[f] \in Seq(2 .. Max) /\ Len(Chain[f]) \in Nat \ {0}
         /\ Chain[f][1] = f /\ f \in 2 .. Max /\ f \in Word
<1>1. Chain[f] \in Seq(2 .. Max) /\ Len(Chain[f]) > 0 /\ Chain[f][1] = f
  BY VolumeAssumption
<1>2. 1 \in 1 .. Len(Chain[f])
  BY <1>1, LenProperties
<1>3. f \in 2 .. Max
  BY <1>1, <1>2, ElementOfSeq
<1> QED
  BY <1>1, <1>2, <1>3, LenProperties, SizeAssumption DEF Word, RsvClusters

LEMMA RootType ==
  /\ Root \in Node /\ Root.first \in DOMAIN Chain /\ Root.size = 0
<1>1. RootCluster \in DOMAIN Chain
  BY VolumeAssumption
<1>2. RootCluster \in Word
  BY <1>1, ChainType
<1> QED
  BY <1>1, <1>2, Constants DEF Root, Node

LEMMA ClosedType ==
  Closed \in FileCursor /\ ClosedDir \in DirCursor /\ Closed.node = Root /\ Closed.offset = 0
  BY RootType, Constants DEF Closed, ClosedDir, FileCursor, DirCursor

LEMMA NoCallType ==
  /\ Frame(NoCall) /\ NoCall.pc = "idle" /\ NoCall.op = "none" /\ NoCall.left = 0
  /\ NoCall.node = Root /\ NoCall.out = <<>>
  BY RootType, Constants DEF Frame, NoCall, Fields

(* What is linked to a cluster is a word.                                  *)
LEMMA LinkedWord ==
  ASSUME NEW n
  PROVE  Linked(n) \subseteq Word
  BY VolumeAssumption DEF Linked

(* So is what is fetched.                                                  *)
LEMMA WantedWord ==
  ASSUME Typed, Fetching
  PROVE  Cluster \in Word /\ Wanted \subseteq Word
<1>1. Cluster \in Word
  BY DEF Typed, Cursors, Frame, Steps, Fetching, Cluster, Lookups, FileCursor, DirCursor
<1>2. Wanted \subseteq Word
  BY <1>1, LinkedWord DEF Wanted
<1> QED
  BY <1>1, <1>2

(* An entry of the cached cluster is one of the volume, or ends it.        *)
LEMMA EntryType ==
  /\ Entry.kind = "live" => Entry.node \in Node
  /\ Entry.kind = "lfn" => Entry.sum \in 0 .. 255
<1> DEFINE p == cache.data[call.slot]
<1>1. CASE p \in DOMAIN Entries
  <2>1. Entry = Entries[p]
    BY <1>1 DEF Entry, EntryAt
  <2> QED
    BY <2>1, <1>1, EntriesAssumption
<1>2. CASE p \notin DOMAIN Entries
  BY <1>2 DEF Entry, EntryAt, EndEntry
<1> QED
  BY <1>1, <1>2

(* The words that are stored in a cluster.                                 *)
LEMMA StoredType ==
  ASSUME NEW n \in Word
  PROVE  Stored(n) \in Buffer
  BY DEF Stored, Buffer, Place

LEMMA CallocType == Calloc \in Buffer
  BY DEF Calloc, Buffer, Place

-----------------------------------------------------------------------------
(* Every step keeps the types.                                             *)

(* The parts are those of TypeOK.                                          *)
LEMMA TypesOK ==
  ASSUME Typed
  PROVE  TypeOK
  BY DEF Typed, TypeOK, Cached, Cursors, Frame, Steps, Lookups, FileCursor, DirCursor, Buffer

LEMMA TypedMount ==
  ASSUME Typed, Mount
  PROVE  Typed'
<1>1. Cached'
  <2>1. Calloc \in Buffer
    BY CallocType
  <2> QED
    BY <2>1 DEF Typed, Cached, Mount
<1>2. Cursors' /\ Frame(call)' /\ Steps' /\ InFile'
  BY DEF Typed, Cursors, Frame, Steps, InFile, Mount, pc, op, who
<1> QED
  BY <1>1, <1>2 DEF Typed

LEMMA TypedUnmount ==
  ASSUME Typed, Unmount
  PROVE  Typed'
<1>1. Cached'
  BY DEF Typed, Cached, Unmount
<1>2. Cursors'
  BY ClosedType, RootType DEF Cursors, Unmount
<1>3. Frame(call)' /\ Steps' /\ InFile'
  BY NoCallType DEF Steps, InFile, Unmount, pc, op
<1> QED
  BY <1>1, <1>2, <1>3 DEF Typed

LEMMA TypedStartOpen ==
  ASSUME Typed, StartOpen
  PROVE  Typed'
<1> PICK o \in Opens :
       call' = [NoCall EXCEPT !.pc = "resolve", !.op = IF o[1] \in Files THEN "open" ELSE "opendir",
                              !.who = o[1], !.path = o[2], !.goal = o[2]]
  BY DEF StartOpen
<1>1. Cached' /\ Cursors' /\ mounted'
  BY DEF Typed, Cached, Cursors, StartOpen, Ready
<1>2. Frame(call)'
  BY NoCallType DEF Frame, Fields
<1>3. Steps' /\ InFile'
  <2>1. /\ pc' = "resolve" /\ op' = (IF o[1] \in Files THEN "open" ELSE "opendir")
        /\ who' = o[1] /\ o[1] \in Handles
    BY NoCallType, SizeAssumption DEF Frame, Fields, pc, op, who
  <2> QED
    BY <1>1, <2>1 DEF Steps, InFile, Lookups, Handles
<1> QED
  BY <1>1, <1>2, <1>3 DEF Typed

LEMMA TypedResolveName ==
  ASSUME Typed, ResolveName
  PROVE  Typed'
<1>1. Cached' /\ Cursors'
  BY DEF Typed, Cached, Cursors, ResolveName, Return, Results
<1>2. Frame(call)' /\ pc' \in {"fetch", "idle"} /\ op' = op /\ who' = who /\ mounted' = mounted
  <2>1. Frame(call) /\ call.node.first \in Word /\ mounted' = mounted
    BY DEF Typed, Frame, Node, ResolveName
  <2>2. CASE call' = [call EXCEPT !.pc = "idle"]
    BY <2>1, <2>2 DEF Frame, Fields, pc, op, who
  <2>3. CASE \E b \in BOOLEAN :
               call' = [call EXCEPT !.pc = "fetch", !.at = call.node.first, !.sure = b]
    BY <2>1, <2>3 DEF Frame, Fields, pc, op, who
  <2>4. (call.sure /\ call.node.first \in DOMAIN Chain) \in BOOLEAN
    OBVIOUS
  <2> QED
    BY <2>2, <2>3, <2>4 DEF ResolveName, Return
<1>3. pc = "resolve"
  BY DEF ResolveName
<1>4. Steps' /\ InFile'
  BY <1>2, <1>3 DEF Typed, Steps, InFile, Lookups
<1> QED
  BY <1>1, <1>2, <1>4 DEF Typed

LEMMA TypedOpened ==
  ASSUME Typed, Opened
  PROVE  Typed'
<1>1. Cached'
  BY DEF Typed, Cached, Opened, Return, Results
<1>2. Frame(call)' /\ pc' = "idle" /\ op' = op /\ who' = who /\ mounted' = mounted
  BY DEF Typed, Frame, Fields, Opened, Return, pc, op, who
<1>3. pc = "resolve" /\ op \in Lookups
  BY DEF Typed, Steps, Opened
<1>4. Steps' /\ InFile'
  BY <1>2, <1>3 DEF Typed, Steps, InFile, Lookups
<1>5. Cursors'
  <2> DEFINE f == [open |-> TRUE, node |-> call.node, offset |-> 0, cluster |-> call.node.first]
             d == [open |-> TRUE, node |-> call.node, cluster |-> call.node.first, idx |-> 0,
                   cnt |-> -1]
  <2>1. call.node \in Node
    BY DEF Typed, Frame
  <2>2. f \in FileCursor /\ f.offset <= f.node.size
    BY <2>1, Constants DEF FileCursor, Node, Word
  <2>3. d \in DirCursor
    BY <2>1, Constants DEF DirCursor, Node
  <2>4. file' \in {file, [file EXCEPT ![who] = f]} /\ dir' \in {dir, [dir EXCEPT ![who] = d]}
    BY DEF Opened
  <2> HIDE DEF f, d
  <2> QED
    BY <2>2, <2>3, <2>4 DEF Typed, Cursors
<1> QED
  BY <1>1, <1>2, <1>4, <1>5 DEF Typed

(* A seek ends where the offset is within the file, or nowhere.            *)
LEMMA SeekCases ==
  ASSUME Typed, Seek
  PROVE  \E h \in Files, off \in Nat :
           /\ call' = [NoCall EXCEPT !.op = "seek", !.who = h]
           /\ \/ \E offset \in 0 .. file[h].node.size : SeekTo(h, off, offset)
              \/ result' = "invalid_offset" /\ UNCHANGED <<file, tainted>>
<1> PICK h \in Files, s \in Seeks :
       LET off == s[1]
           whence == s[2]
           size == file[h].node.size
           target == IF whence = "set" THEN off ELSE (off + file[h].offset) % U64
       IN /\ call' = [NoCall EXCEPT !.op = "seek", !.who = h]
          /\ \/ /\ whence # "end" /\ target <= size
                /\ SeekTo(h, off, target)
             \/ /\ whence = "end"
                /\ SeekTo(h, off, size)
             \/ /\ whence # "end" /\ target > size
                /\ result' = "invalid_offset"
                /\ UNCHANGED <<file, tainted>>
  BY DEF Seek
<1>1. s[1] \in Nat
  BY SizeAssumption
<1>2. file[h].offset \in Nat /\ file[h].node.size \in Nat
  BY DEF Typed, Cursors, FileCursor, Node, Word
<1>3. (s[1] + file[h].offset) % U64 \in Nat
  BY <1>1, <1>2, Constants
<1> DEFINE target == IF s[2] = "set" THEN s[1] ELSE (s[1] + file[h].offset) % U64
<1>4. target \in Nat
  BY <1>1, <1>3
<1>5. \/ target \in 0 .. file[h].node.size /\ SeekTo(h, s[1], target)
      \/ file[h].node.size \in 0 .. file[h].node.size /\ SeekTo(h, s[1], file[h].node.size)
      \/ result' = "invalid_offset" /\ UNCHANGED <<file, tainted>>
  BY <1>2, <1>4
<1>6. call' = [NoCall EXCEPT !.op = "seek", !.who = h]
  OBVIOUS
<1> HIDE DEF target
<1> QED
  BY <1>1, <1>5, <1>6, Zenon

LEMMA SeekClusterType ==
  ASSUME NEW f \in FileCursor, NEW off \in Nat
  PROVE  SeekCluster(f, off) \in Word
<1>1. f.node.first \in Nat /\ off - (off % Size) \in Nat
  BY Constants DEF FileCursor, Node, Word
<1>2. PICK n \in Nat : n = off - (off % Size)
  BY <1>1
<1>3. PICK m \in Nat : m = f.node.first + n \div Size
  BY <1>1, Constants
<1>4. m % U32 \in 0 .. U32 - 1
  BY Constants
<1> QED
  BY <1>2, <1>3, <1>4 DEF SeekCluster, Word

LEMMA TypedSeek ==
  ASSUME Typed, Seek
  PROVE  Typed'
<1> PICK h \in Files, off \in Nat :
      /\ call' = [NoCall EXCEPT !.op = "seek", !.who = h]
      /\ \/ \E offset \in 0 .. file[h].node.size : SeekTo(h, off, offset)
         \/ result' = "invalid_offset" /\ UNCHANGED <<file, tainted>>
  BY SeekCases
<1>1. Cached'
  BY DEF Typed, Cached, Seek, SeekTo, Results, Handles
<1>2. Frame(call)' /\ pc' = "idle" /\ op' = "seek" /\ who' = h
  BY NoCallType DEF Frame, Fields, pc, op, who
<1>3. Steps' /\ InFile'
  BY <1>2 DEF Steps, InFile
<1>4. Cursors'
  <2>1. dir' = dir
    BY DEF Seek
  <2>2. CASE \E offset \in 0 .. file[h].node.size : SeekTo(h, off, offset)
    <3> PICK offset \in 0 .. file[h].node.size : SeekTo(h, off, offset)
      BY <2>2
    <3>1. file[h] \in FileCursor
      BY DEF Typed, Cursors
    <3>2. offset \in Word
      BY <3>1, Constants DEF FileCursor, Node, Word
    <3>3. PICK c \in Word : file' = [file EXCEPT ![h].offset = offset, ![h].cluster = c]
      BY <3>1, SeekClusterType DEF SeekTo
    <3>4. file'[h] \in FileCursor /\ file'[h].node = file[h].node /\ file'[h].offset = offset
      BY <3>1, <3>2, <3>3 DEF FileCursor, Typed, Cursors
    <3>5. \A g \in Files \ {h} : file'[g] = file[g]
      BY <3>3 DEF Typed, Cursors
    <3>6. DOMAIN file' = Files /\ file' = [g \in Files |-> file'[g]]
      BY <3>3 DEF Typed, Cursors
    <3>7. file' \in [Files -> FileCursor]
      BY <3>4, <3>5, <3>6 DEF Typed, Cursors
    <3> QED
      BY <2>1, <3>1, <3>4, <3>5, <3>7 DEF Typed, Cursors
  <2> QED
    BY <2>1, <2>2 DEF Typed, Cursors
<1> QED
  BY <1>1, <1>2, <1>3, <1>4 DEF Typed

LEMMA TypedStartRead ==
  ASSUME Typed, StartRead
  PROVE  Typed'
<1> PICK h \in Files, n \in ReadSizes :
       LET f == file[h]
           frame == [NoCall EXCEPT !.op = "read", !.who = h, !.from = f.offset]
       IN /\ f.open
          /\ \/ /\ f.offset >= f.node.size
                /\ call' = frame
                /\ result' = "end_of_file"
             \/ /\ f.offset < f.node.size
                /\ call' = [frame EXCEPT !.pc = "fetch",
                                         !.left = Smaller(n, f.node.size - f.offset)]
                /\ UNCHANGED result
  BY DEF StartRead
<1> DEFINE offset == file[h].offset
           size == file[h].node.size
           m == Smaller(n, size - offset)
<1>1. UNCHANGED <<mounted, cache, lfn, file, dir, tainted>> /\ mounted /\ file[h].open
  BY DEF StartRead, Ready
<1>2. offset \in Word /\ size \in Word /\ n \in Nat /\ offset <= size
  BY SizeAssumption DEF Typed, Cursors, FileCursor, Node
<1>3. m \in Word /\ offset + m <= size
  BY <1>2, Constants DEF Smaller, Word
<1>4. call' \in {[NoCall EXCEPT !.op = "read", !.who = h, !.from = offset],
                 [NoCall EXCEPT !.pc = "fetch", !.op = "read", !.who = h, !.from = offset, !.left = m]}
  BY NoCallType DEF Frame, Fields
<1> HIDE DEF offset, size, m
<1>5. /\ Frame(call)' /\ pc' \in {"idle", "fetch"} /\ op' = "read" /\ who' = h
      /\ call'.from = offset /\ call'.out = <<>> /\ call'.left \in {0, m}
  <2>1. CASE call' = [NoCall EXCEPT !.op = "read", !.who = h, !.from = offset]
    BY <1>2, <2>1, NoCallType DEF Frame, Fields, pc, op, who
  <2>2. CASE call' = [NoCall EXCEPT !.pc = "fetch", !.op = "read", !.who = h, !.from = offset,
                                    !.left = m]
    BY <1>2, <1>3, <2>2, NoCallType DEF Frame, Fields, pc, op, who
  <2> QED
    BY <1>4, <2>1, <2>2
<1>6. Cached' /\ Cursors'
  BY <1>1 DEF Typed, Cached, Cursors, Results
<1>7. Steps'
  BY <1>1, <1>5 DEF Steps
<1>8. InFile'
  BY <1>1, <1>2, <1>3, <1>5 DEF InFile, offset, size, Word
<1> QED
  BY <1>5, <1>6, <1>7, <1>8 DEF Typed

LEMMA TypedStartReadDir ==
  ASSUME Typed, StartReadDir
  PROVE  Typed'
<1> PICK d \in Dirs :
      call' \in {[NoCall EXCEPT !.op = "readdir", !.who = d],
                 [NoCall EXCEPT !.pc = "fetch", !.op = "readdir", !.who = d]}
  BY NoCallType DEF StartReadDir, Frame, Fields
<1>1. UNCHANGED <<mounted, cache, lfn, file, dir, tainted>> /\ mounted
      /\ result' \in {result, "end_of_directory"}
  BY DEF StartReadDir, Ready
<1>2. Frame(call)' /\ pc' \in {"idle", "fetch"} /\ op' = "readdir" /\ who' = d
  BY NoCallType DEF Frame, Fields, pc, op, who
<1>3. Cached' /\ Cursors' /\ Steps' /\ InFile'
  BY <1>1, <1>2 DEF Typed, Cached, Cursors, Steps, InFile, Results
<1> QED
  BY <1>2, <1>3 DEF Typed

(* The fetch moves one cursor, and only its cluster.                       *)
LEMMA MoveType ==
  ASSUME Typed, NEW n \in Word, MoveCursor(n), Fetching
  PROVE  /\ Cursors'
         /\ \A h \in Files : /\ file'[h].open = file[h].open /\ file'[h].node = file[h].node
                             /\ file'[h].offset = file[h].offset
                             /\ h = who /\ op = "read" => file'[h].cluster = n
                             /\ h # who \/ op # "read" => file'[h] = file[h]
<1>1. \A h \in Files : file[h] \in FileCursor
  BY DEF Typed, Cursors
<1>2. /\ file' \in [Files -> FileCursor]
      /\ \A h \in Files : /\ file'[h].open = file[h].open /\ file'[h].node = file[h].node
                          /\ file'[h].offset = file[h].offset
                          /\ h = who /\ op = "read" => file'[h].cluster = n
                          /\ h # who \/ op # "read" => file'[h] = file[h]
  <2>1. CASE op = "read"
    <3>1. file' = [file EXCEPT ![who].cluster = n] /\ file \in [Files -> FileCursor]
      BY <2>1 DEF MoveCursor, Typed, Cursors
    <3> QED
      BY <2>1, <3>1, <1>1 DEF FileCursor
  <2>2. CASE op # "read"
    BY <2>2 DEF MoveCursor, Typed, Cursors
  <2> QED
    BY <2>1, <2>2
<1>3. dir' \in [Dirs -> DirCursor]
  <2>1. CASE op = "readdir"
    <3>1. dir' = [dir EXCEPT ![who].cluster = n] /\ dir \in [Dirs -> DirCursor]
      BY <2>1 DEF MoveCursor, Typed, Cursors
    <3> QED
      BY <2>1, <3>1 DEF DirCursor
  <2>2. CASE op # "readdir"
    BY <2>2 DEF MoveCursor, Typed, Cursors
  <2> QED
    BY <2>1, <2>2
<1> QED
  BY <1>2, <1>3 DEF Typed, Cursors

(* A call that ends keeps its frame.                                       *)
LEMMA ReturnType ==
  ASSUME Typed, call' = [call EXCEPT !.pc = "idle"]
  PROVE  /\ Frame(call)' /\ pc' = "idle" /\ op' = op /\ who' = who
         /\ call'.left = call.left /\ call'.from = call.from /\ call'.out = call.out
         /\ call'.sure = call.sure
  BY DEF Typed, Frame, Fields, pc, op, who

(* So does one that goes on with a read or a scan.                         *)
LEMMA FetchedType ==
  ASSUME Typed, Fetching, NEW n \in Word, NEW held \in BOOLEAN, Fetched(n, held)
  PROVE  /\ Frame(call)' /\ op' = op /\ who' = who /\ result' \in Results
         /\ call'.left = call.left /\ call'.from = call.from /\ call'.out = call.out
         /\ call'.sure => call.sure
         /\ \/ op = "read" /\ pc' = "copy" /\ call.left > 0 /\ (call'.sure => held)
            \/ op = "read" /\ pc' = "idle"
            \/ op # "read" /\ pc' = "scan"
<1>1. CASE op = "read" /\ call.left > 0
  <2>1. call' = [call EXCEPT !.pc = "copy", !.sure = @ /\ held] /\ result' = result
    BY <1>1 DEF Fetched
  <2> QED
    BY <1>1, <2>1 DEF Typed, Cached, Frame, Fields, pc, op, who
<1>2. CASE op = "read" /\ call.left = 0
  BY <1>2, ReturnType DEF Fetched, Return, Results
<1>3. CASE op # "read"
  <2> DEFINE slot == IF op = "readdir" THEN dir[who].idx % Size ELSE 0
  <2>1. slot \in 0 .. Size
    <3>1. CASE op = "readdir"
      <4>1. who \in Dirs
        BY <3>1 DEF Typed, Steps
      <4>2. dir[who].idx \in Nat
        BY <4>1 DEF Typed, Cursors, DirCursor, Word
      <4> QED
        BY <4>2, <3>1, Constants
    <3> QED
      BY <3>1, Constants
  <2>2. At(n) \in Word
    BY Constants DEF At
  <2>3. call' = [call EXCEPT !.pc = "scan", !.sure = @ /\ held, !.at = At(n), !.slot = slot]
        /\ result' = result
    BY <1>3 DEF Fetched
  <2> HIDE DEF slot
  <2> QED
    BY <1>3, <2>1, <2>2, <2>3 DEF Typed, Cached, Frame, Fields, pc, op, who
<1> QED
  BY <1>1, <1>2, <1>3, Constants DEF Fetched

(* What the fetches have in common.                                        *)
LEMMA TypedFetch ==
  ASSUME Typed, Fetching, NEW n \in Word, MoveCursor(n), NEW held \in BOOLEAN,
         \/ Fetched(n, held)
         \/ call' = [call EXCEPT !.pc = "idle"],
         mounted' = mounted, Cached'
  PROVE  Typed'
<1>1. Cursors'
  BY MoveType
<1>2. /\ Frame(call)' /\ op' = op /\ who' = who
      /\ call'.left = call.left /\ call'.from = call.from /\ call'.out = call.out
      /\ \/ op = "read" /\ pc' = "copy" /\ call'.left > 0
         \/ pc' = "idle"
         \/ op # "read" /\ pc' = "scan"
  BY ReturnType, FetchedType
<1>3. Steps'
  BY <1>2 DEF Typed, Steps, Fetching, Lookups
<1>4. InFile'
  <2> SUFFICES ASSUME op = "read" PROVE InFile'
    BY <1>2 DEF InFile
  <2>1. who \in Files
    BY DEF Typed, Steps
  <2> QED
    BY <1>2, <2>1, MoveType DEF Typed, InFile
<1> QED
  BY <1>1, <1>2, <1>3, <1>4 DEF Typed

LEMMA TypedFetchEnds ==
  ASSUME Typed, FetchEnds
  PROVE  Typed'
<1> PICK n \in Linked(Cluster) :
       /\ MoveCursor(n)
       /\ FetchReturns("file_not_found") \/ FetchReturns("corrupted_directory")
  BY DEF FetchEnds
<1>1. n \in Word /\ Fetching
  BY LinkedWord DEF FetchEnds, Fetching
<1>2. call' = [call EXCEPT !.pc = "idle"] /\ mounted' = mounted
  BY DEF FetchReturns, Return, FetchEnds
<1>3. Cached'
  BY DEF Typed, Cached, FetchEnds, FetchReturns, Return, Results
<1> QED
  BY <1>1, <1>2, <1>3, TypedFetch

LEMMA TypedFetchCached ==
  ASSUME Typed, FetchCached
  PROVE  Typed'
<1>1. /\ Fetching /\ cache.idx \in Word /\ MoveCursor(cache.idx) /\ (~cache.torn) \in BOOLEAN
      /\ Fetched(cache.idx, ~cache.torn) /\ mounted' = mounted
  BY DEF Typed, Cached, FetchCached
<1>2. result' \in Results
  BY <1>1, FetchedType
<1>3. tainted' \subseteq Handles
  <2>1. op = "readdir" => who \in Handles
    BY DEF Typed, Steps, Handles
  <2> QED
    BY <2>1 DEF Typed, Cached, FetchCached, Astray
<1>4. Cached'
  BY <1>2, <1>3 DEF Typed, Cached, FetchCached
<1> QED
  BY <1>1, <1>4, TypedFetch

LEMMA TypedFetchStored ==
  ASSUME Typed, FetchStored
  PROVE  Typed'
<1> PICK n \in Wanted \ {cache.idx} :
       /\ MoveCursor(n)
       /\ Fetched(n, TRUE)
       /\ Astray(n, FALSE)
       /\ cache' = [idx |-> n, data |-> Stored(n), torn |-> FALSE]
  BY DEF FetchStored
<1>1. Fetching /\ n \in Word /\ mounted' = mounted
  BY WantedWord DEF FetchStored
<1>2. result' \in Results
  BY <1>1, FetchedType
<1>4. tainted' \subseteq Handles
  <2>1. op = "readdir" => who \in Handles
    BY DEF Typed, Steps, Handles
  <2> QED
    BY <2>1 DEF Typed, Cached, Astray
<1>3. Cached'
  BY <1>1, <1>2, <1>4, StoredType DEF Typed, Cached, FetchStored
<1> QED
  BY <1>1, <1>3, TypedFetch

LEMMA TypedFetchFails ==
  ASSUME Typed, FetchFails
  PROVE  Typed'
<1> PICK n \in Wanted \ {cache.idx}, k \in Slots :
       /\ MoveCursor(n)
       /\ cache' = [cache EXCEPT !.data = [i \in Slots |-> IF i < k THEN <<n, i>> ELSE @[i]],
                                 !.torn = @ \/ k > 0]
  BY DEF FetchFails
<1>1. Fetching /\ n \in Word /\ mounted' = mounted
  BY WantedWord DEF FetchFails
<1>2. call' = [call EXCEPT !.pc = "idle"] /\ result' \in Results
  BY DEF FetchFails, FetchReturns, Return, Results
<1>3. Cached'
  <2> DEFINE data == [i \in Slots |-> IF i < k THEN <<n, i>> ELSE cache.data[i]]
             torn == cache.torn \/ k > 0
  <2>1. data \in Buffer
    BY <1>1 DEF Typed, Cached, Buffer, Place
  <2>2. torn \in BOOLEAN
    BY DEF Typed, Cached
  <2>3. cache' = [cache EXCEPT !.data = data, !.torn = torn]
    BY DEF Typed, Cached
  <2> HIDE DEF data, torn
  <2> QED
    BY <1>2, <2>1, <2>2, <2>3 DEF Typed, Cached, FetchFails
<1> QED
  BY <1>1, <1>2, <1>3, TypedFetch

(* The offset before a copy, how much is copied, and what.                 *)
Offset == file[who].offset
Amount == Readable(Offset)
Piece == [i \in 1 .. Amount |-> cache.data[(Offset % Size) + i - 1]]

(* What a copy moves is of the cluster that the offset is in, and of what  *)
(* is left.                                                                *)
LEMMA CopyRange ==
  ASSUME Typed, Copy
  PROVE  /\ op = "read" /\ who \in Files /\ pc = "copy"
         /\ Offset \in Nat /\ Offset % Size \in Slots /\ call.left \in Nat
         /\ Amount \in 1 .. call.left /\ Amount <= Size - (Offset % Size)
         /\ file' = [file EXCEPT ![who].offset = Offset + Amount]
         /\ call' = [call EXCEPT !.out = @ \o Piece, !.left = @ - Amount,
                                 !.pc = IF (Offset + Amount) % Size = 0 THEN "advance" ELSE "idle"]
         /\ UNCHANGED <<mounted, cache, lfn, dir, tainted>>
<1>1. pc = "copy" /\ op = "read" /\ call.left > 0 /\ who \in Files /\ call.left \in Nat
  BY DEF Copy, Typed, Steps, Frame, Word
<1>2. Offset \in Nat
  BY <1>1 DEF Typed, Cursors, FileCursor, Word, Offset
<1>3. Offset % Size \in Slots
  BY <1>2, Constants DEF Slots
<1>4. Amount \in 1 .. call.left /\ Amount <= Size - (Offset % Size)
  BY <1>1, <1>3, Constants DEF Amount, Readable, Smaller, Slots
<1> QED
  BY <1>1, <1>2, <1>3, <1>4 DEF Copy, Crosses, Offset, Amount, Piece

(* The frame and the cursor after a copy.                                  *)
LEMMA CopyType ==
  ASSUME Typed, Copy
  PROVE  /\ Piece \in Seq(Place) /\ Len(Piece) = Amount
         /\ Frame(call)' /\ op' = op /\ who' = who
         /\ call'.left = call.left - Amount /\ call'.from = call.from /\ call'.sure = call.sure
         /\ call'.out = call.out \o Piece
         /\ pc' = (IF (Offset + Amount) % Size = 0 THEN "advance" ELSE "idle")
         /\ Cursors'
         /\ file'[who].open = file[who].open /\ file'[who].node = file[who].node
         /\ file'[who].offset = Offset + Amount /\ file'[who].cluster = file[who].cluster
         /\ \A h \in Files \ {who} : file'[h] = file[h]
<1>1. /\ op = "read" /\ who \in Files
      /\ Offset \in Nat /\ Offset % Size \in Slots /\ call.left \in Nat
      /\ Amount \in 1 .. call.left /\ Amount <= Size - (Offset % Size)
      /\ file' = [file EXCEPT ![who].offset = Offset + Amount]
      /\ call' = [call EXCEPT !.out = @ \o Piece, !.left = @ - Amount,
                              !.pc = IF (Offset + Amount) % Size = 0 THEN "advance" ELSE "idle"]
      /\ dir' = dir
  BY CopyRange
<1>2. Piece \in Seq(Place) /\ Len(Piece) = Amount
  <2>1. ASSUME NEW i \in 1 .. Amount PROVE cache.data[(Offset % Size) + i - 1] \in Place
    <3>1. (Offset % Size) + i - 1 \in Slots
      BY <1>1, Constants DEF Slots
    <3>2. cache.data \in Buffer
      BY DEF Typed, Cached
    <3> QED
      BY <3>1, <3>2 DEF Buffer
  <2>2. Piece \in [1 .. Amount -> Place]
    BY <2>1 DEF Piece
  <2> QED
    BY <1>1, <2>2, SeqDef, LenProperties
<1>3. call.out \o Piece \in Seq(Place)
  BY <1>2, ConcatProperties DEF Typed, Frame
<1>4. call.left - Amount \in Word
  BY <1>1, Constants DEF Typed, Frame, Word
<1>5. /\ Frame(call)' /\ op' = op /\ who' = who
      /\ call'.left = call.left - Amount /\ call'.from = call.from /\ call'.sure = call.sure
      /\ call'.out = call.out \o Piece
      /\ pc' = (IF (Offset + Amount) % Size = 0 THEN "advance" ELSE "idle")
  BY <1>1, <1>3, <1>4 DEF Typed, Frame, Fields, pc, op, who
<1>6. file[who] \in FileCursor /\ file \in [Files -> FileCursor]
  BY <1>1 DEF Typed, Cursors
<1>7. /\ file'[who].open = file[who].open /\ file'[who].node = file[who].node
      /\ file'[who].offset = Offset + Amount /\ file'[who].cluster = file[who].cluster
      /\ \A h \in Files \ {who} : file'[h] = file[h]
  BY <1>1, <1>6 DEF FileCursor, Offset
<1>8. Offset + Amount <= file[who].node.size
  <2>1. Offset + call.left <= file[who].node.size /\ file[who].node.size \in Nat
    BY <1>1, <1>6 DEF Typed, InFile, FileCursor, Node, Word, Offset
  <2> QED
    BY <1>1, <2>1
<1>9. Cursors'
  <2>1. Offset + Amount \in Word
    BY <1>1, <1>6, <1>8, Constants DEF FileCursor, Node, Word
  <2>2. file' \in [Files -> FileCursor]
    BY <1>1, <1>6, <2>1 DEF FileCursor
  <2> QED
    BY <1>1, <1>7, <1>8, <2>2 DEF Typed, Cursors
<1> QED
  BY <1>2, <1>5, <1>7, <1>9

LEMMA TypedCopy ==
  ASSUME Typed, Copy
  PROVE  Typed'
<1>1. /\ op = "read" /\ who \in Files /\ pc = "copy" /\ Offset \in Nat /\ call.left \in Nat
      /\ Amount \in 1 .. call.left /\ UNCHANGED <<mounted, cache, lfn, tainted>>
  BY CopyRange
<1>2. /\ Len(Piece) = Amount /\ Piece \in Seq(Place)
      /\ Frame(call)' /\ op' = op /\ who' = who /\ Cursors'
      /\ call'.left = call.left - Amount /\ call'.from = call.from
      /\ call'.out = call.out \o Piece
      /\ pc' = (IF (Offset + Amount) % Size = 0 THEN "advance" ELSE "idle")
      /\ file'[who].open = file[who].open /\ file'[who].node = file[who].node
      /\ file'[who].offset = Offset + Amount
  BY CopyType
<1>3. Cached'
  BY <1>1 DEF Typed, Cached, Copy, Results
<1>4. Steps'
  BY <1>1, <1>2 DEF Typed, Steps
<1>5. InFile'
  <2>1. /\ file[who].open /\ Offset = call.from + Len(call.out)
        /\ Offset + call.left <= file[who].node.size
        /\ call.from \in Nat /\ call.out \in Seq(Place)
    BY <1>1 DEF Typed, InFile, Frame, Word, Offset
  <2>2. Len(call.out \o Piece) = Len(call.out) + Amount /\ Len(call.out) \in Nat
    <3>1. Len(call.out \o Piece) = Len(call.out) + Len(Piece)
      <4>1. call.out \in Seq(Place) /\ Piece \in Seq(Place)
        BY <1>2, <2>1
      <4> QED
        BY <4>1, ConcatProperties, Zenon
    <3> QED
      BY <1>2, <2>1, <3>1, LenProperties
  <2>3. file[who].node.size \in Nat
    BY <1>1 DEF Typed, Cursors, FileCursor, Node, Word
  <2>4. /\ Amount \in Nat /\ call.left \in Nat /\ Offset \in Nat
        /\ call'.left = call.left - Amount /\ call'.out = call.out \o Piece
        /\ call'.from = call.from
    BY <1>1, <1>2 DEF Typed, Frame, Word
  <2>5. /\ Offset + Amount = call'.from + Len(call'.out)
        /\ (Offset + Amount) + call'.left <= file[who].node.size
    <3>1. PICK a \in Nat, l \in Nat, o \in Nat, f \in Nat, n \in Nat, z \in Nat :
            /\ a = Amount /\ l = call.left /\ o = Offset /\ f = call.from
            /\ n = Len(call.out) /\ z = file[who].node.size
      BY <2>1, <2>2, <2>3, <2>4
    <3>2. o = f + n /\ o + l <= z
      BY <2>1, <3>1
    <3>3. Len(call'.out) = n + a /\ call'.left = l - a /\ call'.from = f
      BY <2>2, <2>4, <3>1
    <3>4. o + a = f + (n + a) /\ (o + a) + (l - a) <= z
      BY <3>2
    <3> QED
      BY <3>1, <3>3, <3>4
  <2>6. pc' = "advance" => (Offset + Amount) % Size = 0 /\ Offset + Amount > 0
    BY <1>1, <1>2
  <2>7. /\ file'[who].open = file[who].open /\ file'[who].node = file[who].node
        /\ file'[who].offset = Offset + Amount /\ who' = who
    BY <1>2
  <2> QED
    BY <2>1, <2>5, <2>6, <2>7 DEF InFile
<1> QED
  BY <1>2, <1>3, <1>4, <1>5 DEF Typed

(* What a step of a scan does to the cursors of directories.               *)
DirMoves ==
  \/ dir' = dir
  \/ op = "readdir" /\ dir' = [dir EXCEPT ![who].idx = (@ + 1) % U32]
  \/ op = "readdir" /\ dir' = [dir EXCEPT ![who].cnt = dir[who].idx]

(* A step of a scan that goes on with the frame of the call.               *)
LEMMA TypedScan ==
  ASSUME Typed, pc = "scan",
         mounted' = mounted, cache' = cache, file' = file, tainted' = tainted, result' \in Results,
         lfn' \in [order : {0, LastMask, FirstOrder}, sum : 0 .. 255],
         DirMoves, Frame(call)', op' = op, who' = who,
         pc' \in {"idle", "scan", "advance", "resolve"}, pc' = "resolve" => op # "readdir"
  PROVE  Typed'
<1>1. op \in Lookups \cup {"readdir"} /\ (op = "readdir" => who \in Dirs)
  BY DEF Typed, Steps, Lookups
<1>2. Cached'
  BY DEF Typed, Cached
<1>3. Steps'
  BY <1>1 DEF Typed, Steps, Lookups
<1>4. InFile'
  BY <1>1 DEF InFile, Lookups
<1>5. dir' \in [Dirs -> DirCursor]
  <2>1. dir \in [Dirs -> DirCursor]
    BY DEF Typed, Cursors
  <2>2. CASE dir' = dir
    BY <2>1, <2>2
  <2>3. CASE op = "readdir" /\ dir' = [dir EXCEPT ![who].cnt = dir[who].idx]
    <3>1. dir[who] \in DirCursor
      BY <1>1, <2>1, <2>3
    <3> QED
      BY <2>1, <2>3, <3>1 DEF DirCursor
  <2>4. CASE op = "readdir" /\ dir' = [dir EXCEPT ![who].idx = (@ + 1) % U32]
    <3>1. dir[who] \in DirCursor
      BY <1>1, <2>1, <2>4
    <3>2. (dir[who].idx + 1) % U32 \in Word
      BY <3>1, Constants DEF DirCursor, Word
    <3>3. PICK i \in Word : i = (dir[who].idx + 1) % U32
      BY <3>2
    <3>4. dir' = [dir EXCEPT ![who].idx = i]
      BY <2>4, <3>3
    <3> QED
      BY <2>1, <3>1, <3>4 DEF DirCursor
  <2> QED
    BY <2>2, <2>3, <2>4 DEF DirMoves
<1>6. Cursors'
  BY <1>5 DEF Typed, Cursors
<1> QED
  BY <1>2, <1>3, <1>4, <1>6 DEF Typed

LEMMA TypedScanClusterEnds ==
  ASSUME Typed, ScanClusterEnds
  PROVE  Typed'
<1>1. Frame(call)' /\ pc' = "advance" /\ op' = op /\ who' = who
  BY DEF Typed, Frame, Fields, ScanClusterEnds, pc, op, who
<1>2. result' \in Results /\ lfn' \in [order : {0, LastMask, FirstOrder}, sum : 0 .. 255]
  BY DEF Typed, Cached, ScanClusterEnds
<1>3. /\ pc = "scan" /\ mounted' = mounted /\ cache' = cache /\ file' = file
      /\ tainted' = tainted /\ DirMoves
  BY DEF ScanClusterEnds, DirMoves
<1> QED
  BY <1>1, <1>2, <1>3, TypedScan

LEMMA TypedScanEnds ==
  ASSUME Typed, ScanEnds
  PROVE  Typed'
<1>1. call' = [call EXCEPT !.pc = "idle"] /\ pc = "scan"
  BY DEF ScanEnds, Scanning, Return
<1>2. Frame(call)' /\ pc' = "idle" /\ op' = op /\ who' = who
  BY <1>1, ReturnType
<1>3. result' \in Results /\ lfn' \in [order : {0, LastMask, FirstOrder}, sum : 0 .. 255]
  BY DEF Typed, Cached, ScanEnds, Return, Results
<1>4. DirMoves
  BY DEF ScanEnds, DirMoves
<1>5. mounted' = mounted /\ cache' = cache /\ file' = file /\ tainted' = tainted
  BY DEF ScanEnds, Return
<1> QED
  BY <1>1, <1>2, <1>3, <1>4, <1>5, TypedScan

LEMMA TypedScanSkips ==
  ASSUME Typed, ScanSkips
  PROVE  Typed'
<1> DEFINE stray == call.stray /\ Entry.kind = "deleted"
<1>1. /\ pc = "scan" /\ call.slot < Size /\ DirMoves
      /\ call' = [call EXCEPT !.slot = @ + 1, !.stray = stray]
      /\ mounted' = mounted /\ cache' = cache /\ file' = file /\ tainted' = tainted
  BY DEF ScanSkips, Scanning, Typed, Frame, Fields, CountEntry, DirMoves
<1>2. stray \in BOOLEAN
  BY DEF Typed, Frame
<1>3. call.slot + 1 \in 0 .. Size
  BY <1>1, Constants DEF Typed, Frame
<1> HIDE DEF stray
<1>4. Frame(call)' /\ pc' = "scan" /\ op' = op /\ who' = who
  BY <1>1, <1>2, <1>3 DEF Typed, Frame, Fields, pc, op, who
<1>5. result' \in Results /\ lfn' \in [order : {0, LastMask, FirstOrder}, sum : 0 .. 255]
  BY DEF Typed, Cached, ScanSkips
<1> QED
  BY <1>1, <1>4, <1>5, TypedScan

LEMMA TypedScanFinds ==
  ASSUME Typed, ScanFinds
  PROVE  Typed'
<1>1. /\ pc = "scan" /\ op # "readdir" /\ mounted' = mounted /\ cache' = cache /\ file' = file /\ dir' = dir /\ tainted' = tainted
      /\ call' = [call EXCEPT !.pc = "resolve", !.node = Entry.node, !.path = Tail(@)]
      /\ Entry.kind = "live"
  BY DEF ScanFinds, Scanning
<1>2. Entry.node \in Node
  BY <1>1, EntryType
<1>3. PICK n : n = Entry.node
  OBVIOUS
<1>4. Frame(call)' /\ pc' = "resolve" /\ op' = op /\ who' = who
  BY <1>1, <1>2, <1>3 DEF Typed, Frame, Fields, pc, op, who
<1>5. result' \in Results /\ lfn' \in [order : {0, LastMask, FirstOrder}, sum : 0 .. 255]
  BY DEF Typed, Cached, ScanFinds
<1>6. DirMoves
  BY <1>1 DEF DirMoves
<1> QED
  BY <1>1, <1>4, <1>5, <1>6, TypedScan

LEMMA TypedScanLists ==
  ASSUME Typed, ScanLists
  PROVE  Typed'
<1>1. /\ pc = "scan" /\ mounted' = mounted /\ cache' = cache /\ file' = file /\ tainted' = tainted /\ DirMoves
      /\ call' = [call EXCEPT !.pc = "idle"]
  BY DEF ScanLists, Scanning, Return, CountEntry, DirMoves
<1>2. Frame(call)' /\ pc' = "idle" /\ op' = op /\ who' = who
  BY <1>1, ReturnType
<1>3. result' \in Results /\ lfn' \in [order : {0, LastMask, FirstOrder}, sum : 0 .. 255]
  BY DEF Typed, Cached, ScanLists, Return, Results
<1> QED
  BY <1>1, <1>2, <1>3, TypedScan

LEMMA TypedScanLongName ==
  ASSUME Typed, ScanLongName
  PROVE  Typed'
<1> DEFINE e == Entry
           order == IF e.order = 1 THEN FirstOrder ELSE lfn.order
           sum == IF e.order # 1 /\ e.last THEN e.sum ELSE lfn.sum
           stray == op # "readdir"
           sure == call.sure /\ op = "readdir"
<1>1. /\ pc = "scan" /\ call.slot < Size /\ e.kind = "lfn"
      /\ mounted' = mounted /\ cache' = cache /\ file' = file /\ tainted' = tainted
      /\ \/ /\ Return("corrupted_lfn_entry")
            /\ lfn' \in {lfn, [order |-> order, sum |-> sum]}
         \/ /\ call' = [call EXCEPT !.slot = @ + 1, !.stray = stray, !.sure = sure]
            /\ lfn' = [order |-> IF e.last THEN LastMask ELSE 0, sum |-> sum]
            /\ result' = result
  BY DEF ScanLongName, Scanning, Typed, Frame, Fields
<1>2. order \in {0, LastMask, FirstOrder} /\ sum \in 0 .. 255
  BY <1>1, EntryType DEF Typed, Cached
<1>3. lfn' \in [order : {0, LastMask, FirstOrder}, sum : 0 .. 255]
  <2> HIDE DEF e, order, sum
  <2> QED
    BY <1>1, <1>2 DEF Typed, Cached
<1>4. result' \in Results
  BY <1>1 DEF Return, Results, Typed, Cached
<1>5. call.slot + 1 \in 0 .. Size
  BY <1>1, Constants DEF Typed, Frame
<1>6. stray \in BOOLEAN /\ sure \in BOOLEAN
  BY DEF Typed, Frame
<1> HIDE DEF e, order, sum, stray, sure
<1>7. Frame(call)' /\ pc' \in {"idle", "scan"} /\ op' = op /\ who' = who
  <2>1. CASE call' = [call EXCEPT !.pc = "idle"]
    BY <2>1, ReturnType
  <2>2. CASE call' = [call EXCEPT !.slot = @ + 1, !.stray = stray, !.sure = sure]
    BY <1>1, <1>5, <1>6, <2>2 DEF Typed, Frame, Fields, pc, op, who
  <2> QED
    BY <1>1, <2>1, <2>2 DEF Return
<1>8. DirMoves
  BY DEF ScanLongName, CountEntry, DirMoves
<1> QED
  BY <1>1, <1>3, <1>4, <1>7, <1>8, TypedScan

(* Every step keeps the types.                                             *)
LEMMA TypedNext ==
  ASSUME Typed, [Next]_vars
  PROVE  Typed'
<1>1. CASE UNCHANGED vars
  BY <1>1 DEF vars, Typed, Cached, Cursors, Frame, Steps, InFile, pc, op, who
<1> QED
  BY <1>1, TypedMount, TypedUnmount, TypedStartOpen, TypedSeek, TypedStartRead,
     TypedStartReadDir, TypedResolveName, TypedOpened, TypedFetchEnds, TypedFetchCached,
     TypedFetchStored, TypedFetchFails, TypedCopy, TypedScanClusterEnds, TypedScanEnds,
     TypedScanSkips, TypedScanFinds, TypedScanLists, TypedScanLongName
     DEF Next, Start, Fetch, Scan, Step

-----------------------------------------------------------------------------
(* Offsets and clusters.                                                   *)

LEMMA Division ==
  ASSUME NEW a \in Nat, NEW b \in Nat \ {0}
  PROVE  a % b \in 0 .. b - 1 /\ a \div b \in Nat /\ a = b * (a \div b) + (a % b)
  BY SMT

LEMMA Undivided ==
  ASSUME NEW a \in Nat, NEW b \in Nat \ {0}, a < b
  PROVE  a % b = a
  BY SMT

LEMMA DivisionUnique ==
  ASSUME NEW b \in Nat \ {0}, NEW q \in Nat, NEW r \in 0 .. b - 1
  PROVE  (b * q + r) \div b = q /\ (b * q + r) % b = r
  BY SMT

(* The offsets up to the end of a cluster are in it, and the next offset   *)
(* begins the next cluster.                                                *)
LEMMA ClusterOffsets ==
  ASSUME NEW a \in Nat, NEW i \in Nat, (a % Size) + i <= Size
  PROVE  /\ (a % Size) + i < Size =>
              (a + i) \div Size = a \div Size /\ (a + i) % Size = (a % Size) + i
         /\ (a % Size) + i = Size =>
              (a + i) \div Size = (a \div Size) + 1 /\ (a + i) % Size = 0
<1>1. Size \in Nat \ {0}
  BY Constants
<1>2. PICK q \in Nat, r \in 0 .. Size - 1 :
        a % Size = r /\ a \div Size = q /\ a = Size * q + r
  BY <1>1, Division
<1>3. PICK x \in Nat : x = Size * q
  BY <1>1, <1>2
<1>4. CASE r + i < Size
  <2>1. a + i = Size * q + (r + i) /\ r + i \in 0 .. Size - 1
    BY <1>1, <1>2, <1>3, <1>4
  <2>2. (a + i) \div Size = q /\ (a + i) % Size = r + i
    BY <1>1, <1>2, <2>1, DivisionUnique
  <2> QED
    BY <1>1, <1>2, <1>4, <2>2
<1>5. CASE r + i = Size
  <2>1. Size * (q + 1) = Size * q + Size
    BY <1>1, <1>2
  <2>2. a + i = Size * (q + 1) + 0 /\ 0 \in 0 .. Size - 1 /\ q + 1 \in Nat
    <3>1. PICK y \in Nat : y = Size * (q + 1)
      BY <1>1, <1>2
    <3> QED
      BY <1>1, <1>2, <1>3, <1>5, <2>1, <3>1
  <2>3. (a + i) \div Size = q + 1 /\ (a + i) % Size = 0
    BY <1>1, <2>2, DivisionUnique
  <2> QED
    BY <1>1, <1>2, <1>5, <2>3
<1> QED
  BY <1>1, <1>2, <1>4, <1>5

(* An offset below the end of a chain is in one of its clusters.           *)
LEMMA OffsetInChain ==
  ASSUME NEW a \in Nat, NEW l \in Nat, a < l * Size
  PROVE  (a \div Size) + 1 \in 1 .. l
<1>1. Size \in Nat \ {0}
  BY Constants
<1>2. PICK q \in Nat, r \in 0 .. Size - 1 : a \div Size = q /\ a = Size * q + r
  BY <1>1, Division
<1>3. SUFFICES ASSUME l <= q PROVE FALSE
  BY <1>2
<1>4. Size * l <= Size * q
  BY <1>1, <1>2, <1>3
<1>5. PICK x \in Nat, y \in Nat : x = Size * q /\ y = Size * l
  BY <1>1, <1>2
<1>6. l * Size = Size * l
  BY <1>1
<1> QED
  BY <1>2, <1>4, <1>5, <1>6

(* The offsets below the size of a cluster are in the first.               *)
LEMMA FirstCluster ==
  ASSUME NEW a \in Nat, a < Size
  PROVE  a \div Size = 0 /\ a % Size = a
  BY Constants

(* Each cluster of a chain is linked to the next, and only to it.          *)
LEMMA ChainLink ==
  ASSUME NEW f \in DOMAIN Chain, NEW j \in Nat, j >= 1, j + 1 <= Len(Chain[f])
  PROVE  Linked(Chain[f][j]) = {Chain[f][j + 1]}
<1>1. Len(Chain[f]) \in Nat
  BY ChainType
<1>2. j \in 1 .. Len(Chain[f]) - 1 /\ j \in 1 .. Len(Chain[f])
  BY <1>1
<1> QED
  BY <1>2, VolumeAssumption DEF Linked

-----------------------------------------------------------------------------
(* The cursors.                                                            *)

(* A step that leaves files, taints and the place of the call.             *)
LEMMA OnChainKept ==
  ASSUME OnChain, file' = file, tainted \subseteq tainted' \cup Dirs,
         \/ op' = op /\ who' = who /\ (pc' = "advance" <=> pc = "advance")
         \/ op' # "read" /\ op # "read"
         \/ pc # "advance" /\ pc' # "advance"
  PROVE  OnChain'
<1> SUFFICES ASSUME NEW h \in Files \ tainted'
             PROVE  LET chain == Chain[file[h].node.first]
                        k == (file[h].offset \div Size) + (IF Crossing(h)' THEN 0 ELSE 1)
                    IN file[h].open /\ file[h].node.first \in DOMAIN Chain /\ k <= Len(chain) =>
                         file[h].cluster = chain[k]
  BY DEF OnChain
<1>1. h \in Files \ tainted
  BY SizeAssumption
<1>2. Crossing(h)' = Crossing(h)
  BY DEF Crossing, pc, op, who
<1> QED
  BY <1>1, <1>2 DEF OnChain

LEMMA OnChainUnmount ==
  ASSUME OnChain, Unmount
  PROVE  OnChain'
<1>1. \A h \in Files : ~file'[h].open
  BY DEF Unmount, Closed
<1> QED
  BY <1>1 DEF OnChain

LEMMA OnChainOpened ==
  ASSUME Typed, OnChain, Opened
  PROVE  OnChain'
<1>1. pc = "resolve" /\ pc' = "idle" /\ op' = op /\ who' = who /\ op \in Lookups
  BY ReturnType DEF Opened, Return, Typed, Steps
<1>2. CASE file' = file /\ tainted \subseteq tainted' \cup Dirs
  BY <1>1, <1>2, OnChainKept DEF Lookups
<1>3. CASE op = "opendir"
  <2>1. who \in Dirs
    BY <1>3 DEF Typed, Steps
  <2> QED
    BY <1>2, <1>3, <2>1 DEF Opened
<1>4. CASE op = "open"
  <2>1. who \in Files
    BY <1>4 DEF Typed, Steps
  <2>2. CASE call.node.dir
    BY <1>2, <1>4, <2>2 DEF Opened
  <2>3. CASE ~call.node.dir
    <3> DEFINE f == [open |-> TRUE, node |-> call.node, offset |-> 0, cluster |-> call.node.first]
    <3>1. file' = [file EXCEPT ![who] = f] /\ tainted' = tainted \ {who}
      BY <1>4, <2>3 DEF Opened
    <3>2. file'[who] = f /\ \A h \in Files \ {who} : file'[h] = file[h]
      BY <2>1, <3>1 DEF Typed, Cursors
    <3>4. /\ (0 \div Size) + 1 = 1
          /\ call.node.first \in DOMAIN Chain => Chain[call.node.first][1] = call.node.first
      BY ChainType, Constants
    <3>5. SUFFICES ASSUME NEW h \in Files \ tainted'
                   PROVE  LET chain == Chain[file'[h].node.first]
                              k == (file'[h].offset \div Size) + (IF Crossing(h)' THEN 0 ELSE 1)
                          IN file'[h].open /\ file'[h].node.first \in DOMAIN Chain /\ k <= Len(chain) =>
                               file'[h].cluster = chain[k]
      BY DEF OnChain
    <3>6. ~Crossing(h)' /\ ~Crossing(h)
      BY <1>1 DEF Crossing, Lookups
    <3>7. CASE h = who
      BY <3>2, <3>4, <3>6, <3>7
    <3>8. CASE h # who
      <4>1. h \in Files \ tainted /\ file'[h] = file[h]
        BY <3>1, <3>2, <3>8
      <4> QED
        BY <4>1, <3>6 DEF OnChain
    <3> QED
      BY <3>7, <3>8
  <2> QED
    BY <2>2, <2>3
<1> QED
  BY <1>1, <1>3, <1>4 DEF Lookups

LEMMA OnChainSeek ==
  ASSUME Typed, OnChain, Seek
  PROVE  OnChain'
<1> PICK h \in Files, off \in Nat :
      /\ call' = [NoCall EXCEPT !.op = "seek", !.who = h]
      /\ \/ \E offset \in 0 .. file[h].node.size : SeekTo(h, off, offset)
         \/ result' = "invalid_offset" /\ UNCHANGED <<file, tainted>>
  BY SeekCases
<1>1. pc = "idle" /\ pc' = "idle"
  BY NoCallType DEF Seek, Ready, Frame, Fields, pc
<1>2. CASE UNCHANGED <<file, tainted>>
  BY <1>1, <1>2, OnChainKept
<1>3. ASSUME NEW offset \in 0 .. file[h].node.size, SeekTo(h, off, offset)
      PROVE  OnChain'
  <2>1. file[h] \in FileCursor
    BY DEF Typed, Cursors
  <2>2. /\ file' = [file EXCEPT ![h].offset = offset, ![h].cluster = SeekCluster(file[h], off)]
        /\ tainted' = IF offset < Size /\ off < Size THEN tainted \ {h} ELSE tainted \cup {h}
    BY <1>3 DEF SeekTo
  <2>3. /\ file'[h].node = file[h].node /\ file'[h].offset = offset
        /\ file'[h].cluster = SeekCluster(file[h], off)
    BY <2>1, <2>2 DEF Typed, Cursors, FileCursor
  <2>4. \A g \in Files \ {h} : file'[g] = file[g]
    BY <2>2 DEF Typed, Cursors
  <2>5. SUFFICES ASSUME NEW g \in Files \ tainted'
                 PROVE  LET chain == Chain[file'[g].node.first]
                            k == (file'[g].offset \div Size) + (IF Crossing(g)' THEN 0 ELSE 1)
                        IN file'[g].open /\ file'[g].node.first \in DOMAIN Chain /\ k <= Len(chain) =>
                             file'[g].cluster = chain[k]
    BY DEF OnChain
  <2>6. ~Crossing(g)' /\ ~Crossing(g)
    BY <1>1 DEF Crossing
  <2>7. CASE g = h
    <3>1. offset < Size /\ off < Size /\ offset \in Nat
      BY <2>2, <2>7
    <3>2. offset \div Size = 0 /\ off % Size = off
      BY <3>1, FirstCluster
    <3>3. SeekCluster(file[h], off) = file[h].node.first
      <4>1. file[h].node.first \in 0 .. U32 - 1 /\ U32 \in Nat \ {0}
        BY <2>1, Constants DEF FileCursor, Node, Word
      <4>2. off - (off % Size) = 0 /\ 0 \div Size = 0
        BY <3>2, Constants
      <4>3. SeekCluster(file[h], off) = file[h].node.first % U32
        BY <4>1, <4>2 DEF SeekCluster
      <4> QED
        BY <4>1, <4>3
    <3>4. file[h].node.first \in DOMAIN Chain => Chain[file[h].node.first][1] = file[h].node.first
      BY ChainType
    <3> QED
      BY <2>3, <2>6, <2>7, <3>2, <3>3, <3>4
  <2>8. CASE g # h
    <3>1. g \in Files \ tainted /\ file'[g] = file[g]
      BY <2>2, <2>4, <2>8
    <3> QED
      BY <2>6, <3>1 DEF OnChain
  <2> QED
    BY <2>7, <2>8
<1> QED
  BY <1>2, <1>3

(* Whatever comes of the fetch: the cursor goes where it was, or where its *)
(* cluster is linked to.                                                   *)
LEMMA OnChainFetch ==
  ASSUME Typed, OnChain, Fetching,
         NEW n \in Word, MoveCursor(n), n = Cluster \/ pc = "advance",
         pc = "advance" => n \in Linked(Cluster),
         op' = op, who' = who, pc' # "advance", tainted \subseteq tainted'
  PROVE  OnChain'
<1>1. SUFFICES ASSUME NEW h \in Files \ tainted'
               PROVE  LET chain == Chain[file'[h].node.first]
                          k == (file'[h].offset \div Size) + (IF Crossing(h)' THEN 0 ELSE 1)
                      IN file'[h].open /\ file'[h].node.first \in DOMAIN Chain /\ k <= Len(chain) =>
                           file'[h].cluster = chain[k]
  BY DEF OnChain
<1>2. h \in Files \ tainted /\ ~Crossing(h)'
  BY DEF Crossing
<1> DEFINE f == file[h]
           chain == Chain[f.node.first]
<1>3. /\ file'[h].open = f.open /\ file'[h].node = f.node /\ file'[h].offset = f.offset
      /\ h = who /\ op = "read" => file'[h].cluster = n
      /\ h # who \/ op # "read" => file'[h] = f
  BY MoveType
<1>4. CASE ~(h = who /\ op = "read")
  BY <1>2, <1>3, <1>4 DEF OnChain, Crossing
<1>5. CASE h = who /\ op = "read" /\ pc = "fetch"
  <2>1. n = f.cluster /\ ~Crossing(h)
    BY <1>5 DEF Cluster, Crossing
  <2> QED
    BY <1>2, <1>3, <1>5, <2>1 DEF OnChain
<1>6. CASE h = who /\ op = "read" /\ pc = "advance"
  <2> SUFFICES ASSUME f.open, f.node.first \in DOMAIN Chain, (f.offset \div Size) + 1 <= Len(chain)
               PROVE  n = chain[(f.offset \div Size) + 1]
    BY <1>2, <1>3, <1>6
  <2>1. f.offset \in Nat /\ f.offset % Size = 0 /\ f.offset > 0 /\ f.node.first \in DOMAIN Chain
    BY <1>6 DEF Typed, Cursors, InFile, FileCursor, Word
  <2>2. PICK j \in Nat : j = f.offset \div Size
    BY <2>1, Constants
  <2>3. j >= 1
    <3>1. Size \in Nat \ {0} /\ f.offset = Size * j + 0
      BY <2>1, <2>2, Constants, Division
    <3>2. CASE j = 0
      BY <2>1, <3>1, <3>2
    <3> QED
      BY <2>2, <3>2
  <2>4. Len(chain) \in Nat
    BY <2>1, ChainType
  <2>5. Crossing(h) /\ Cluster = f.cluster
    BY <1>6 DEF Crossing, Cluster
  <2>6. f.cluster = chain[j]
    <3>1. j <= Len(chain) /\ j + 0 = j
      BY <2>2, <2>4
    <3> QED
      BY <1>2, <2>2, <2>5, <3>1 DEF OnChain
  <2>7. Linked(Cluster) = {chain[j + 1]}
    BY <2>1, <2>2, <2>3, <2>5, <2>6, ChainLink
  <2> QED
    BY <1>6, <2>2, <2>7
<1> QED
  BY <1>4, <1>5, <1>6 DEF Fetching

LEMMA OnChainCopy ==
  ASSUME Typed, OnChain, Copy
  PROVE  OnChain'
<1>1. /\ op = "read" /\ who \in Files /\ pc = "copy" /\ Offset \in Nat /\ Amount \in Nat
      /\ call.left \in Nat /\ (Offset % Size) + Amount <= Size /\ tainted' = tainted
  <2>1. /\ op = "read" /\ who \in Files /\ pc = "copy" /\ Offset \in Nat
        /\ Offset % Size \in Slots /\ call.left \in Nat
        /\ Amount \in 1 .. call.left /\ Amount <= Size - (Offset % Size) /\ tainted' = tainted
    BY CopyRange
  <2> QED
    BY <2>1, Constants DEF Slots
<1>2. /\ op' = op /\ who' = who
      /\ pc' = (IF (Offset + Amount) % Size = 0 THEN "advance" ELSE "idle")
      /\ file'[who].open = file[who].open /\ file'[who].node = file[who].node
      /\ file'[who].offset = Offset + Amount /\ file'[who].cluster = file[who].cluster
      /\ \A h \in Files \ {who} : file'[h] = file[h]
  BY CopyType
<1>3. SUFFICES ASSUME NEW h \in Files \ tainted'
               PROVE  LET chain == Chain[file'[h].node.first]
                          k == (file'[h].offset \div Size) + (IF Crossing(h)' THEN 0 ELSE 1)
                      IN file'[h].open /\ file'[h].node.first \in DOMAIN Chain /\ k <= Len(chain) =>
                           file'[h].cluster = chain[k]
  BY DEF OnChain
<1>4. ~Crossing(h)
  BY <1>1 DEF Crossing
<1>5. CASE h # who
  <2>1. ~Crossing(h)' /\ file'[h] = file[h] /\ h \in Files \ tainted
    BY <1>1, <1>2, <1>5 DEF Crossing
  <2> QED
    BY <1>4, <2>1 DEF OnChain
<1>6. CASE h = who
  <2>1. (file'[h].offset \div Size) + (IF Crossing(h)' THEN 0 ELSE 1) = (Offset \div Size) + 1
    <3>1. PICK q \in Nat, r \in 0 .. Size - 1 : Offset \div Size = q /\ Offset % Size = r
      BY <1>1, Constants, Division
    <3>2. CASE r + Amount = Size
      <4>1. (Offset + Amount) \div Size = q + 1 /\ (Offset + Amount) % Size = 0
        BY <1>1, <3>1, <3>2, ClusterOffsets
      <4>2. Crossing(h)'
        BY <1>1, <1>2, <1>6, <4>1 DEF Crossing
      <4> QED
        BY <1>2, <1>6, <3>1, <4>1, <4>2
    <3>3. CASE r + Amount < Size
      <4>1. (Offset + Amount) \div Size = q /\ (Offset + Amount) % Size = r + Amount
        BY <1>1, <3>1, <3>3, ClusterOffsets
      <4>2. r + Amount # 0
        <5>1. Amount \in 1 .. call.left
          BY CopyRange
        <5> QED
          BY <1>1, <3>1, <5>1
      <4>3. ~Crossing(h)'
        BY <1>1, <1>2, <4>1, <4>2 DEF Crossing
      <4> QED
        BY <1>2, <1>6, <3>1, <4>1, <4>3
    <3> QED
      BY <1>1, <3>1, <3>2, <3>3, Constants
  <2>2. Offset = file[h].offset /\ h \in Files \ tainted
    BY <1>1, <1>6 DEF Offset
  <2> QED
    BY <1>2, <1>4, <1>6, <2>1, <2>2 DEF OnChain
<1> QED
  BY <1>5, <1>6

-----------------------------------------------------------------------------
(* The cached cluster.                                                     *)

LEMMA CacheHeldKept ==
  ASSUME CacheHeld, cache' = cache, pc' # "copy"
  PROVE  CacheHeld'
  BY DEF CacheHeld

LEMMA CacheHeldMount ==
  ASSUME Typed, CacheHeld, Mount
  PROVE  CacheHeld'
<1>1. pc' # "copy"
  BY DEF Typed, Steps, Mount, pc
<1>2. cache'.torn = (cache.idx # 0) /\ cache'.idx = cache.idx
  BY DEF Typed, Cached, Mount
<1> QED
  BY <1>1, <1>2 DEF CacheHeld

LEMMA CacheHeldFetchCached ==
  ASSUME Typed, CacheHeld, FetchCached
  PROVE  CacheHeld'
<1>1. /\ Fetching /\ cache.idx \in Word /\ MoveCursor(cache.idx) /\ (~cache.torn) \in BOOLEAN
      /\ Fetched(cache.idx, ~cache.torn) /\ cache' = cache
  BY DEF Typed, Cached, FetchCached
<1>2. /\ who' = who
      /\ \/ op = "read" /\ pc' = "copy" /\ (call'.sure => ~cache.torn)
         \/ pc' # "copy"
  <2>1. /\ who' = who
        /\ \/ op = "read" /\ pc' = "copy" /\ call.left > 0 /\ (call'.sure => ~cache.torn)
           \/ op = "read" /\ pc' = "idle"
           \/ op # "read" /\ pc' = "scan"
    BY <1>1, FetchedType
  <2> QED
    BY <2>1
<1>3. op = "read" => file'[who].cluster = cache.idx
  <2>1. op = "read" => who \in Files
    BY DEF Typed, Steps
  <2> QED
    BY <1>1, <2>1, MoveType
<1> QED
  BY <1>1, <1>2, <1>3 DEF CacheHeld

LEMMA CacheHeldFetchStored ==
  ASSUME Typed, CacheHeld, FetchStored
  PROVE  CacheHeld'
<1> PICK n \in Wanted \ {cache.idx} :
       /\ MoveCursor(n)
       /\ Fetched(n, TRUE)
       /\ cache' = [idx |-> n, data |-> Stored(n), torn |-> FALSE]
  BY DEF FetchStored
<1>1. Fetching /\ n \in Word
  BY WantedWord DEF FetchStored
<1>2. /\ who' = who
      /\ \/ op = "read" /\ pc' = "copy"
         \/ pc' # "copy"
  <2>1. /\ who' = who
        /\ \/ op = "read" /\ pc' = "copy" /\ call.left > 0 /\ (call'.sure => TRUE)
           \/ op = "read" /\ pc' = "idle"
           \/ op # "read" /\ pc' = "scan"
    BY <1>1, FetchedType
  <2> QED
    BY <2>1
<1>3. op = "read" => file'[who].cluster = n
  <2>1. op = "read" => who \in Files
    BY DEF Typed, Steps
  <2> QED
    BY <1>1, <2>1, MoveType
<1>4. cache'.data = Stored(n) /\ cache'.idx = n
  OBVIOUS
<1> QED
  BY <1>2, <1>3, <1>4 DEF CacheHeld

LEMMA CacheHeldFetchFails ==
  ASSUME Typed, CacheHeld, FetchFails
  PROVE  CacheHeld'
<1> PICK n \in Wanted \ {cache.idx}, k \in Slots :
       cache' = [cache EXCEPT !.data = [i \in Slots |-> IF i < k THEN <<n, i>> ELSE @[i]],
                              !.torn = @ \/ k > 0]
  BY DEF FetchFails
<1>1. pc' = "idle"
  BY ReturnType DEF FetchFails, FetchReturns, Return
<1> DEFINE data == [i \in Slots |-> IF i < k THEN <<n, i>> ELSE cache.data[i]]
           torn == cache.torn \/ k > 0
<1>2. cache' = [cache EXCEPT !.data = data, !.torn = torn]
  BY DEF Typed, Cached
<1>3. cache.data \in Buffer /\ k \in Nat
  BY Constants DEF Typed, Cached, Slots
<1>4. ~torn => data = cache.data
  <2> SUFFICES ASSUME ~torn PROVE data = cache.data
    OBVIOUS
  <2>1. k = 0
    BY <1>3
  <2>2. \A i \in Slots : data[i] = cache.data[i]
    BY <2>1, Constants DEF Slots
  <2> QED
    BY <1>3, <2>2 DEF Buffer
<1>5. ~torn => ~cache.torn
  OBVIOUS
<1>6. cache'.idx = cache.idx /\ cache'.data = data /\ cache'.torn = torn
  <2> HIDE DEF data, torn
  <2> QED
    BY <1>2 DEF Typed, Cached
<1> HIDE DEF data, torn
<1> QED
  BY <1>1, <1>4, <1>5, <1>6 DEF CacheHeld

-----------------------------------------------------------------------------
(* What reads return.                                                      *)

LEMMA ReturnedKept ==
  ASSUME Returned, op' = op, who' = who, call'.out = call.out, call'.from = call.from,
         call'.sure => call.sure, who \notin tainted' => who \notin tainted,
         op = "read" => file'[who].node = file[who].node
  PROVE  Returned'
  BY DEF Returned, Complete

LEMMA ReturnedCopy ==
  ASSUME Typed, OnChain, CacheHeld, Returned, Copy
  PROVE  Returned'
<1> SUFFICES ASSUME op' = "read", call'.sure, who' \notin tainted', Complete(file'[who'].node)
             PROVE  call'.out = [i \in 1 .. Len(call'.out) |->
                                   Spot(file'[who'].node.first, call'.from + i - 1)]
  BY DEF Returned
<1>1. /\ op = "read" /\ who \in Files /\ pc = "copy" /\ Offset \in Nat
      /\ Offset % Size \in Slots /\ call.left \in Nat
      /\ Amount \in 1 .. call.left /\ Amount <= Size - (Offset % Size) /\ tainted' = tainted
  BY CopyRange
<1>2. /\ Piece \in Seq(Place) /\ Len(Piece) = Amount
      /\ who' = who /\ call'.from = call.from /\ call'.sure = call.sure
      /\ call'.out = call.out \o Piece /\ file'[who].node = file[who].node
  BY CopyType
<1> DEFINE first == file[who].node.first
           chain == Chain[first]
           out == call.out
           k == (Offset \div Size) + 1
<1>3. /\ file[who].open /\ file[who].node.size \in Nat
      /\ Offset = call.from + Len(out) /\ Offset + call.left <= file[who].node.size
      /\ call.from \in Nat /\ out \in Seq(Place)
  BY <1>1 DEF Typed, Cursors, InFile, Frame, FileCursor, Node, Word, Offset
<1>12. first \in DOMAIN Chain
  BY <1>2 DEF Complete
<1>4. out = [i \in 1 .. Len(out) |-> Spot(first, call.from + i - 1)]
  BY <1>1, <1>2 DEF Returned
<1>5. k \in 1 .. Len(chain)
  <2>1. Len(chain) \in Nat
    BY <1>12, ChainType
  <2>2. file[who].node.size <= Len(chain) * Size
    BY <1>2 DEF Complete
  <2>3. Offset < Len(chain) * Size
    <3>1. PICK x \in Nat : x = Len(chain) * Size
      BY <2>1, Constants
    <3> QED
      BY <1>1, <1>3, <2>2, <3>1
  <2> QED
    BY <1>1, <2>1, <2>3, OffsetInChain
<1>6. cache.data = Stored(chain[k])
  <2>1. file[who].cluster # 0 => cache.data = Stored(file[who].cluster)
    BY <1>1, <1>2 DEF CacheHeld
  <2>2. ~Crossing(who) /\ who \in Files \ tainted
    BY <1>1, <1>2 DEF Crossing
  <2>3. (file[who].offset \div Size) + (IF Crossing(who) THEN 0 ELSE 1) = k
    BY <2>2 DEF Offset
  <2>4. file[who].cluster = chain[k]
    BY <1>3, <1>5, <1>12, <2>2, <2>3 DEF OnChain
  <2>5. chain[k] \in 2 .. Max
    BY <1>5, <1>12, ChainType, ElementOfSeq
  <2> QED
    BY <2>1, <2>4, <2>5
<1>7. \A i \in 1 .. Amount : Piece[i] = Spot(first, Offset + i - 1)
  <2> SUFFICES ASSUME NEW i \in 1 .. Amount PROVE Piece[i] = Spot(first, Offset + i - 1)
    OBVIOUS
  <2>1. PICK r \in 0 .. Size - 1 : r = Offset % Size
    BY <1>1, Constants, Division
  <2>2. PICK j \in Nat : j = i - 1 /\ Offset + i - 1 = Offset + j
    BY <1>1
  <2>3. r + j < Size /\ Size \in Nat
    BY <1>1, <2>1, <2>2, Constants
  <2>4. (Offset + j) \div Size = Offset \div Size /\ (Offset + j) % Size = r + j
    <3>1. (Offset % Size) + j <= Size /\ (Offset % Size) + j < Size /\ Offset \in Nat
      BY <1>1, <2>1, <2>2, <2>3
    <3>2. /\ (Offset + j) \div Size = Offset \div Size
          /\ (Offset + j) % Size = (Offset % Size) + j
      BY <2>2, <3>1, ClusterOffsets
    <3> QED
      BY <2>1, <3>2
  <2>5. Piece[i] = cache.data[r + j]
    <3>1. Piece[i] = cache.data[(Offset % Size) + i - 1]
      BY DEF Piece
    <3>2. (Offset % Size) + i - 1 = r + j
      BY <2>1, <2>2
    <3> QED
      BY <3>1, <3>2
  <2>6. r + j \in Slots
    BY <2>1, <2>2, <2>3 DEF Slots
  <2>7. Piece[i] = <<chain[k], r + j>>
    BY <1>6, <2>5, <2>6 DEF Stored
  <2> HIDE DEF chain, first
  <2>8. Spot(first, Offset + j) = <<Chain[first][k], r + j>>
    BY <2>4 DEF Spot
  <2> QED
    BY <2>2, <2>7, <2>8 DEF chain
<1>8. Len(out \o Piece) = Len(out) + Amount /\ Len(out) \in Nat
  <2>1. Len(out \o Piece) = Len(out) + Len(Piece)
    <3>1. out \in Seq(Place) /\ Piece \in Seq(Place)
      BY <1>2, <1>3
    <3> HIDE DEF out
    <3> QED
      BY <3>1, ConcatProperties, Zenon
  <2> QED
    BY <1>2, <1>3, <2>1, LenProperties
<1>9. \A i \in 1 .. Len(out \o Piece) : (out \o Piece)[i] = Spot(first, call.from + i - 1)
  <2> SUFFICES ASSUME NEW i \in 1 .. Len(out) + Amount
               PROVE  (out \o Piece)[i] = Spot(first, call.from + i - 1)
    BY <1>8
  <2>1. (out \o Piece)[i] = IF i <= Len(out) THEN out[i] ELSE Piece[i - Len(out)]
    BY <1>1, <1>2, <1>3, <1>8, ConcatProperties
  <2>2. CASE i <= Len(out)
    <3>1. i \in 1 .. Len(out)
      BY <1>8, <2>2, <1>1
    <3>2. out[i] = Spot(first, call.from + i - 1)
      <4> HIDE DEF out, first
      <4> QED
        BY <1>4, <3>1, Zenon
    <3> QED
      BY <2>1, <2>2, <3>2
  <2>3. CASE ~(i <= Len(out))
    <3>1. i - Len(out) \in 1 .. Amount /\ Offset + (i - Len(out)) - 1 = call.from + i - 1
      BY <1>1, <1>3, <1>8, <2>3
    <3> QED
      BY <1>7, <2>1, <2>3, <3>1
  <2> QED
    BY <2>2, <2>3
<1>10. out \o Piece \in [1 .. Len(out \o Piece) -> Place]
  <2>1. out \o Piece \in Seq(Place)
    BY <1>2, <1>3, ConcatProperties
  <2> QED
    BY <2>1, LenProperties
<1>11. out \o Piece = [i \in 1 .. Len(out \o Piece) |-> Spot(first, call.from + i - 1)]
  <2> HIDE DEF out, first
  <2> QED
    BY <1>9, <1>10
<1> QED
  BY <1>2, <1>11

-----------------------------------------------------------------------------
(* The invariant.                                                          *)

LEMMA InvInit ==
  ASSUME Init
  PROVE  FatInv
<1>1. Cached
  <2>1. Calloc \in Buffer
    BY CallocType
  <2> QED
    <3>1. cache \in [idx : Word, data : Buffer, torn : BOOLEAN]
      BY <2>1, Constants DEF Init
    <3>2. lfn \in [order : {0, LastMask, FirstOrder}, sum : 0 .. 255]
      BY DEF Init
    <3>3. mounted \in BOOLEAN /\ result \in Results /\ tainted \subseteq Handles
      BY DEF Init, Results
    <3> QED
      BY <3>1, <3>2, <3>3 DEF Cached
<1>2. Cursors
  BY ClosedType, RootType DEF Init, Cursors
<1>3. Frame(call) /\ Steps /\ InFile
  BY NoCallType DEF Init, Steps, InFile, pc, op
<1>4. OnChain
  <2>1. \A h \in Files : ~file[h].open
    BY DEF Init, Closed
  <2> QED
    BY <2>1 DEF OnChain
<1>5. CacheHeld /\ Returned
  BY NoCallType DEF Init, CacheHeld, Returned, Calloc, pc, op
<1> QED
  BY <1>1, <1>2, <1>3, <1>4, <1>5 DEF FatInv, Typed

(* The steps that begin a call.                                            *)
LEMMA InvStart ==
  ASSUME FatInv, StartOpen \/ StartRead \/ StartReadDir
  PROVE  OnChain' /\ CacheHeld' /\ Returned'
<1>1. pc = "idle" /\ file' = file /\ tainted' = tainted /\ cache' = cache
  BY DEF StartOpen, StartRead, StartReadDir, Ready
<1>2. \/ pc' \in {"idle", "fetch", "resolve"} /\ op' # "read"
      \/ pc' \in {"idle", "fetch"} /\ call'.out = <<>>
  BY NoCallType DEF StartOpen, StartRead, StartReadDir, Frame, Fields, pc, op
<1>3. OnChain'
  BY <1>1, <1>2, OnChainKept DEF FatInv
<1>4. CacheHeld'
  BY <1>1, <1>2, CacheHeldKept DEF FatInv
<1>5. Returned'
  <2>1. CASE op' # "read"
    BY <2>1 DEF Returned
  <2>2. CASE call'.out = <<>>
    <3>1. <<>> = [i \in 1 .. Len(<<>>) |-> Spot(file'[who'].node.first, call'.from + i - 1)]
      <4>1. Len(<<>>) = 0 /\ 1 .. 0 = {}
        OBVIOUS
      <4> QED
        BY <4>1
    <3> QED
      BY <2>2, <3>1 DEF Returned
  <2> QED
    BY <1>2, <2>1, <2>2
<1> QED
  BY <1>3, <1>4, <1>5

(* The steps of a lookup or of a listing, outside of the fetch.            *)
LEMMA InvLookup ==
  ASSUME FatInv, ResolveName \/ ScanClusterEnds \/ ScanEnds \/ ScanSkips \/ ScanFinds
                   \/ ScanLists \/ ScanLongName
  PROVE  OnChain' /\ CacheHeld' /\ Returned'
<1>1. pc \in {"resolve", "scan"} /\ op # "read"
  BY DEF FatInv, Typed, Steps, Lookups, ResolveName, ScanClusterEnds, ScanEnds, ScanSkips,
         ScanFinds, ScanLists, ScanLongName, Scanning
<1>2. file' = file /\ tainted' = tainted /\ cache' = cache
  BY DEF ResolveName, ScanClusterEnds, ScanEnds, ScanSkips, ScanFinds, ScanLists, ScanLongName
<1>3. op' = op /\ pc' # "copy"
  BY <1>1 DEF FatInv, Typed, Frame, Fields, ResolveName, ScanClusterEnds, ScanEnds, ScanSkips,
         ScanFinds, ScanLists, ScanLongName, Return, pc, op
<1>4. OnChain'
  BY <1>1, <1>2, <1>3, OnChainKept DEF FatInv
<1>5. CacheHeld'
  BY <1>2, <1>3, CacheHeldKept DEF FatInv
<1>6. Returned'
  BY <1>1, <1>3 DEF Returned
<1> QED
  BY <1>4, <1>5, <1>6

(* The fetches.                                                            *)
LEMMA InvFetch ==
  ASSUME FatInv, FetchEnds \/ FetchCached \/ FetchStored \/ FetchFails
  PROVE  OnChain' /\ CacheHeld' /\ Returned'
<1>1. Typed /\ OnChain /\ CacheHeld /\ Returned
  BY DEF FatInv
<1>2. Fetching
  BY DEF FetchEnds, FetchCached, FetchStored, FetchFails, Fetching
<1>3. PICK n \in Word : MoveCursor(n) /\ n \in (IF pc = "fetch" THEN {Cluster} ELSE Linked(Cluster))
  <2>1. CASE FetchEnds
    BY <2>1, LinkedWord DEF FetchEnds
  <2>2. CASE FetchCached
    BY <1>1, <1>2, <2>2, WantedWord DEF FetchCached, Wanted
  <2>3. CASE FetchStored \/ FetchFails
    <3>1. PICK n \in Wanted : MoveCursor(n)
      BY <2>3 DEF FetchStored, FetchFails
    <3> QED
      BY <1>1, <1>2, <3>1, WantedWord DEF Wanted
  <2> QED
    BY <2>1, <2>2, <2>3
<1>4. /\ op' = op /\ who' = who /\ pc' \in {"copy", "idle", "scan"}
      /\ call'.out = call.out /\ call'.from = call.from /\ (call'.sure => call.sure)
  <2>1. CASE call' = [call EXCEPT !.pc = "idle"]
    BY <1>1, <2>1, ReturnType
  <2>2. ASSUME NEW m \in Word, NEW held \in BOOLEAN, Fetched(m, held)
        PROVE  /\ op' = op /\ who' = who /\ pc' \in {"copy", "idle", "scan"}
               /\ call'.out = call.out /\ call'.from = call.from /\ (call'.sure => call.sure)
    BY <1>1, <1>2, <2>2, FetchedType
  <2>3. CASE FetchEnds \/ FetchFails
    BY <2>1, <2>3 DEF FetchEnds, FetchFails, FetchReturns, Return
  <2>4. CASE FetchCached
    BY <1>1, <2>2, <2>4 DEF FetchCached, Typed, Cached
  <2>5. CASE FetchStored
    <3>1. PICK m \in Wanted : Fetched(m, TRUE)
      BY <2>5 DEF FetchStored
    <3> QED
      BY <1>1, <1>2, <2>2, <3>1, WantedWord
  <2> QED
    BY <2>3, <2>4, <2>5
<1>5. tainted \subseteq tainted' /\ (who \notin tainted' => who \notin tainted)
  BY DEF FetchEnds, FetchCached, FetchStored, FetchFails, Astray
<1>6. OnChain'
  BY <1>1, <1>2, <1>3, <1>4, <1>5, OnChainFetch DEF Fetching
<1>7. CacheHeld'
  <2>1. CASE FetchEnds
    <3>1. cache' = cache /\ pc' # "copy"
      BY <1>1, <2>1, ReturnType DEF FetchEnds, FetchReturns, Return
    <3> QED
      BY <1>1, <3>1, CacheHeldKept
  <2> QED
    BY <1>1, <2>1, CacheHeldFetchCached, CacheHeldFetchStored, CacheHeldFetchFails
<1>8. Returned'
  <2>1. op = "read" => file'[who].node = file[who].node
    <3>1. op = "read" => who \in Files
      BY <1>1 DEF Typed, Steps
    <3> QED
      BY <1>1, <1>2, <1>3, <3>1, MoveType
  <2> QED
    BY <1>1, <1>4, <1>5, <2>1, ReturnedKept
<1> QED
  BY <1>6, <1>7, <1>8

LEMMA InvNext ==
  ASSUME FatInv, [Next]_vars
  PROVE  FatInv'
<1>1. Typed'
  BY TypedNext DEF FatInv
<1>2. OnChain' /\ CacheHeld' /\ Returned'
  <2>1. Typed /\ OnChain /\ CacheHeld /\ Returned
    BY DEF FatInv
  <2>2. CASE UNCHANGED vars
    BY <2>1, <2>2 DEF vars, OnChain, CacheHeld, Returned, Crossing, Complete, pc, op, who
  <2>3. CASE Mount
    <3>1. /\ file' = file /\ tainted' = tainted /\ call' = call
          /\ pc' = pc /\ op' = op /\ who' = who
      BY <2>3 DEF Mount, pc, op, who
    <3>2. OnChain'
      BY <2>1, <3>1, OnChainKept
    <3>3. Returned'
      BY <2>1, <3>1, ReturnedKept
    <3> QED
      BY <2>1, <2>3, <3>2, <3>3, CacheHeldMount
  <2>4. CASE Unmount
    <3>1. cache' = cache /\ pc' = "idle" /\ op' = "none"
      BY <2>4, NoCallType DEF Unmount, pc, op
    <3> QED
      BY <2>1, <2>4, <3>1, OnChainUnmount, CacheHeldKept DEF Returned
  <2>5. CASE Seek
    <3>1. cache' = cache /\ pc' = "idle" /\ op' = "seek"
      BY <2>5, NoCallType DEF Seek, Frame, Fields, pc, op
    <3> QED
      BY <2>1, <2>5, <3>1, OnChainSeek, CacheHeldKept DEF Returned
  <2>6. CASE Opened
    <3>1. cache' = cache /\ pc' = "idle" /\ op' = op /\ op # "read"
      BY <2>1, <2>6, ReturnType DEF Opened, Return, Typed, Steps, Lookups
    <3> QED
      BY <2>1, <2>6, <3>1, OnChainOpened, CacheHeldKept DEF Returned
  <2>7. CASE Copy
    <3>1. cache' = cache /\ pc' # "copy"
      BY <2>1, <2>7, CopyRange, CopyType
    <3> QED
      BY <2>1, <2>7, <3>1, OnChainCopy, ReturnedCopy, CacheHeldKept
  <2> QED
    BY <2>2, <2>3, <2>4, <2>5, <2>6, <2>7, InvStart, InvLookup, InvFetch
       DEF Next, Start, Step, Fetch, Scan
<1> QED
  BY <1>1, <1>2 DEF FatInv

LEMMA InvAlways == Spec => []FatInv
  BY InvInit, InvNext, PTL DEF Spec

-----------------------------------------------------------------------------
(* Positions of a directory.                                               *)

(* The product with Size of a number and of its successors.                *)
ProductOrder(a, l) ==
  /\ (a - 1) * Size \in Nat /\ a * Size \in Nat /\ l * Size \in Nat
  /\ a * Size = (a - 1) * Size + Size
  /\ a <= l => a * Size <= l * Size

LEMMA ProductsOrdered ==
  ASSUME NEW a \in Nat \ {0}, NEW l \in Nat
  PROVE  ProductOrder(a, l)
<1>1. Size \in Nat \ {0} /\ a - 1 \in Nat
  BY Constants
<1>2. (a - 1) * Size \in Nat /\ a * Size \in Nat /\ l * Size \in Nat
  BY <1>1
<1>3. a * Size = (a - 1) * Size + Size
  BY <1>1
<1>4. a <= l => a * Size <= l * Size
  BY <1>1
<1> QED
  BY <1>2, <1>3, <1>4 DEF ProductOrder

(* Position (k - 1) * Size + s is slot s of the k-th cluster.              *)
LEMMA SpotAt ==
  ASSUME NEW f \in DOMAIN Chain, NEW k \in 1 .. Len(Chain[f]), NEW s \in Slots
  PROVE  /\ Spot(f, (k - 1) * Size + s) = <<Chain[f][k], s>>
         /\ (k - 1) * Size + s \in 0 .. (Len(Chain[f]) * Size) - 1
<1>1. Size \in Nat \ {0} /\ Len(Chain[f]) \in Nat \ {0} /\ k - 1 \in Nat /\ s \in 0 .. Size - 1
  BY Constants, ChainType DEF Slots
<1>2. (k - 1) * Size = Size * (k - 1)
  BY <1>1
<1>3. /\ ((k - 1) * Size + s) \div Size = k - 1
      /\ ((k - 1) * Size + s) % Size = s
  BY <1>1, <1>2, DivisionUnique
<1>4. Spot(f, (k - 1) * Size + s) = <<Chain[f][k], s>>
  <2>1. (k - 1) + 1 = k
    BY <1>1
  <2> QED
    BY <1>3, <2>1 DEF Spot
<1>5. ProductOrder(k, Len(Chain[f]))
  BY <1>1, ProductsOrdered
<1> QED
  BY <1>1, <1>4, <1>5 DEF ProductOrder

(* What a scan reads in slot s of the cached k-th cluster.                 *)
LEMMA ScannedEntry ==
  ASSUME NEW f \in DOMAIN Chain, NEW k \in 1 .. Len(Chain[f]), call.slot \in Slots,
         cache.data = Stored(Chain[f][k])
  PROVE  /\ Entry = Nth(f, (k - 1) * Size + call.slot)
         /\ cache.data[call.slot] = Spot(f, (k - 1) * Size + call.slot)
<1>1. cache.data[call.slot] = <<Chain[f][k], call.slot>>
  BY DEF Stored
<1> QED
  BY <1>1, SpotAt DEF Entry, Nth

(* The chain goes on where another cluster is fetched, and ends where the  *)
(* fetch ends.                                                             *)
LEMMA ChainGoesOn ==
  ASSUME NEW f \in DOMAIN Chain, NEW k \in 1 .. Len(Chain[f]),
         NEW n \in Linked(Chain[f][k])
  PROVE  \/ k + 1 \in 1 .. Len(Chain[f]) /\ n = Chain[f][k + 1] /\ n < EndOfChain /\ ~Refused(n)
         \/ k = Len(Chain[f]) /\ n \notin 1 .. Max /\ (n >= EndOfChain \/ Refused(n))
<1>1. Chain[f] \in Seq(2 .. Max) /\ Len(Chain[f]) \in Nat \ {0} /\ n \in Word
  BY ChainType, LinkedWord
<1>2. CASE k < Len(Chain[f])
  <2>1. n = Chain[f][k + 1] /\ k + 1 \in 1 .. Len(Chain[f])
    <3>1. k \in Nat /\ k >= 1 /\ k + 1 <= Len(Chain[f])
      BY <1>1, <1>2
    <3>2. Linked(Chain[f][k]) = {Chain[f][k + 1]}
      BY <3>1, ChainLink
    <3> QED
      BY <1>1, <3>1, <3>2
  <2>2. n \in 2 .. Max
    BY <1>1, <2>1, ElementOfSeq
  <2> QED
    BY <2>1, <2>2, SizeAssumption DEF Refused, BadCluster, FreeCluster, RsvClusters
<1>3. CASE k = Len(Chain[f])
  <2>1. n \notin 1 .. Max
    BY <1>1, <1>3, VolumeAssumption DEF Linked
  <2> QED
    BY <1>1, <1>3, <2>1, SizeAssumption DEF Refused, BadCluster, FreeCluster, RsvClusters, Word
<1> QED
  BY <1>1, <1>2, <1>3

(* The positions before p are no end, and p ends the directory.            *)
Passed(f, p) == \A m \in 0 .. p - 1 : Nth(f, m).kind # "end"
EndsAt(f, p) == p = Len(Chain[f]) * Size \/ Nth(f, p).kind = "end"

LEMMA LivePosition ==
  ASSUME NEW f \in DOMAIN Chain, NEW p \in 0 .. (Len(Chain[f]) * Size) - 1, Passed(f, p),
         Nth(f, p).kind = "live"
  PROVE  p \in LivePositions(f)
<1>1. Len(Chain[f]) * Size \in Nat
  BY ChainType, Constants
<1>2. p \in Nat /\ \A m \in 0 .. p : m \in 0 .. p - 1 \/ m = p
  BY <1>1
<1>3. p \in Positions(f)
  BY <1>2 DEF Passed, Positions
<1> QED
  BY <1>3 DEF LivePositions

LEMMA LiveBeforeEnd ==
  ASSUME NEW f \in DOMAIN Chain, NEW p \in Nat, EndsAt(f, p)
  PROVE  \A n \in LivePositions(f) : n \in Nat /\ n < p
<1>1. Len(Chain[f]) * Size \in Nat
  BY ChainType, Constants
<1>2. TAKE n \in LivePositions(f)
<1>3. n \in 0 .. (Len(Chain[f]) * Size) - 1 /\ \A m \in 0 .. n : Nth(f, m).kind # "end"
  BY DEF LivePositions, Positions
<1>4. CASE p = Len(Chain[f]) * Size
  BY <1>1, <1>3, <1>4
<1>5. CASE Nth(f, p).kind = "end"
  <2>1. p \notin 0 .. n
    BY <1>3, <1>5
  <2> QED
    BY <1>1, <1>3, <2>1
<1> QED
  BY <1>4, <1>5 DEF EndsAt

-----------------------------------------------------------------------------
(* What a path names.                                                      *)

LEMMA FoundInNodes ==
  ASSUME NEW node, NEW name
  PROVE  Found(node, name) \subseteq Nodes
<1>1. \A n \in LivePositions(node.first) : Nth(node.first, n).node \in Nodes
  <2>1. TAKE n \in LivePositions(node.first)
  <2>2. Nth(node.first, n).kind = "live"
    BY DEF LivePositions
  <2>3. Spot(node.first, n) \in DOMAIN Entries
    BY <2>2 DEF Nth, EntryAt, EndEntry
  <2> QED
    BY <2>2, <2>3 DEF Nth, EntryAt, Nodes
<1> QED
  BY <1>1 DEF Found

(* No entry before position p has the name.                                *)
Missed(f, name, p) ==
  \A m \in 0 .. p - 1 : Nth(f, m).kind = "live" => name \notin Nth(f, m).names

LEMMA FoundAt ==
  ASSUME NEW node, node.dir, node.first \in DOMAIN Chain, NEW name,
         NEW p \in LivePositions(node.first),
         Missed(node.first, name, p), name \in Nth(node.first, p).names
  PROVE  Found(node, name) = {Nth(node.first, p).node}
<1> DEFINE f == node.first
           hits == {n \in LivePositions(f) : name \in Nth(f, n).names}
<1>1. \A n \in LivePositions(f) : n \in Nat /\ Nth(f, n).kind = "live"
  BY DEF LivePositions, Positions
<1>2. \A n \in hits : p <= n
  <2>1. TAKE n \in hits
  <2>2. n \notin 0 .. p - 1
    BY <1>1 DEF Missed
  <2> QED
    BY <1>1, <2>2
<1>3. {k \in hits : \A j \in hits : k <= j} = {p}
  BY <1>1, <1>2
<1> QED
  BY <1>3 DEF Found

LEMMA FoundNone ==
  ASSUME NEW node, node.first \in DOMAIN Chain, NEW name, NEW p \in Nat,
         EndsAt(node.first, p), Missed(node.first, name, p)
  PROVE  Found(node, name) = {}
<1> DEFINE f == node.first
<1>1. \A n \in LivePositions(f) : n \in 0 .. p - 1 /\ Nth(f, n).kind = "live"
  BY LiveBeforeEnd DEF LivePositions
<1>2. {n \in LivePositions(f) : name \in Nth(f, n).names} = {}
  BY <1>1 DEF Missed
<1> QED
  BY <1>2 DEF Found

(* The nodes that a path reaches are found one name at a time.             *)
Trail(path, l, t) ==
  /\ t \in [0 .. l -> Nodes] /\ t[0] = Root
  /\ \A i \in 1 .. l : t[i] \in Found(t[i - 1], path[i])

LEMMA ReachedTrail ==
  ASSUME NEW path, NEW l \in Nat, NEW n
  PROVE  n \in Reached(path, l) <=> \E t : Trail(path, l, t) /\ t[l] = n
  BY DEF Reached, Trail

LEMMA ReachedRoot ==
  ASSUME NEW path
  PROVE  Reached(path, 0) = {Root}
<1> DEFINE t == [i \in 0 .. 0 |-> Root]
<1>1. Trail(path, 0, t) /\ t[0] = Root
  BY DEF Trail, Nodes
<1>2. Root \in Reached(path, 0)
  BY <1>1, ReachedTrail
<1>3. ASSUME NEW n \in Reached(path, 0)
      PROVE  n = Root
  BY <1>3, ReachedTrail DEF Trail
<1> QED
  BY <1>2, <1>3

LEMMA TrailCut ==
  ASSUME NEW path, NEW l \in Nat, NEW m \in 0 .. l, NEW t, Trail(path, l, t)
  PROVE  /\ Trail(path, m, [i \in 0 .. m |-> t[i]])
         /\ t[m] \in Reached(path, m)
<1>1. Trail(path, m, [i \in 0 .. m |-> t[i]])
  BY DEF Trail
<1> QED
  BY <1>1, ReachedTrail

LEMMA ReachedNext ==
  ASSUME NEW path, NEW l \in Nat, NEW n, Reached(path, l) = {n}
  PROVE  Reached(path, l + 1) = Found(n, path[l + 1])
<1>1. ASSUME NEW x \in Reached(path, l + 1)
      PROVE  x \in Found(n, path[l + 1])
  <2>1. PICK t : Trail(path, l + 1, t) /\ t[l + 1] = x
    BY ReachedTrail
  <2>2. t[l] = n
    <3>1. l \in 0 .. l + 1 /\ l + 1 \in Nat
      OBVIOUS
    <3>2. t[l] \in Reached(path, l)
      BY <2>1, <3>1, TrailCut
    <3> QED
      BY <3>2
  <2>3. (l + 1) - 1 = l /\ l + 1 \in 1 .. l + 1
    OBVIOUS
  <2> QED
    BY <2>1, <2>2, <2>3 DEF Trail
<1>2. ASSUME NEW x \in Found(n, path[l + 1])
      PROVE  x \in Reached(path, l + 1)
  <2>1. PICK t : Trail(path, l, t) /\ t[l] = n
    BY ReachedTrail
  <2> DEFINE u == [i \in 0 .. l + 1 |-> IF i = l + 1 THEN x ELSE t[i]]
  <2>2. u \in [0 .. l + 1 -> Nodes] /\ u[0] = Root
    BY <1>2, <2>1, FoundInNodes DEF Trail
  <2>3. ASSUME NEW i \in 1 .. l + 1
        PROVE  u[i] \in Found(u[i - 1], path[i])
    <3>1. CASE i = l + 1
      BY <1>2, <2>1, <3>1
    <3>2. CASE i # l + 1
      <4>1. i \in 1 .. l /\ i - 1 \in 0 .. l /\ i - 1 # l + 1
        BY <3>2
      <4> QED
        BY <2>1, <4>1 DEF Trail
    <3> QED
      BY <3>1, <3>2
  <2>4. Trail(path, l + 1, u) /\ u[l + 1] = x
    BY <2>2, <2>3 DEF Trail
  <2> QED
    BY <2>4, ReachedTrail
<1> QED
  BY <1>1, <1>2

LEMMA ReachedNone ==
  ASSUME NEW path, NEW l \in Nat, NEW m \in 0 .. l, Reached(path, m) = {}
  PROVE  Reached(path, l) = {}
  BY TrailCut, ReachedTrail

-----------------------------------------------------------------------------
(* A lookup.  The names of the path that are done lead to call.node, and   *)
(* what is scanned of its directory has no entry of the next name.         *)
Done == Len(call.goal) - Len(call.path)
NextName == call.goal[Done + 1]

OnPath ==
  /\ call.goal \in Seq(STRING) /\ call.path \in Seq(STRING)
  /\ Len(call.path) <= Len(call.goal)
  /\ \A j \in 1 .. Len(call.path) : call.path[j] = call.goal[Done + j]
  /\ Reached(call.goal, Done) = {call.node}

ScannedTo(k, s) ==
  LET first == call.node.first
      p == (k - 1) * Size + s
  IN /\ call.at = Chain[first][k]
     /\ pc = "fetch" => k = 1 /\ s = 0
     /\ pc = "advance" => s = Size
     /\ pc = "scan" => s = call.slot /\ cache.data = Stored(call.at)
     /\ Passed(first, p) /\ Missed(first, NextName, p)

Looking ==
  /\ call.path # <<>> /\ call.node.dir /\ call.node.first \in DOMAIN Chain
  /\ \E k \in 1 .. Len(Chain[call.node.first]), s \in 0 .. Size : ScannedTo(k, s)

Looked ==
  op \in Lookups /\ call.sure =>
    /\ ~call.stray
    /\ pc # "idle" => OnPath
    /\ pc \in {"fetch", "advance", "scan"} => Looking
    /\ pc = "idle" => OpenExact

(* The steps that are none of a lookup.                                    *)
LEMMA LookedKept ==
  ASSUME Looked, call' = call, UNCHANGED <<cache, file, dir, result>>
  PROVE  Looked'
  BY DEF Looked, OnPath, Looking, ScannedTo, Done, NextName, OpenExact, pc, op, who

LEMMA LookedOther ==
  ASSUME op' \notin Lookups
  PROVE  Looked'
  BY DEF Looked

(* Steps that end a lookup with an error that is no answer.                *)
LEMMA LookedError ==
  ASSUME Typed, Looked, call' = [call EXCEPT !.pc = "idle"],
         result' \notin {"no_error", "file_not_found"}
  PROVE  Looked'
<1>1. pc' = "idle" /\ op' = op /\ call'.stray = call.stray /\ call'.sure = call.sure
  BY DEF Typed, Frame, Fields, pc, op
<1> QED
  BY <1>1 DEF Looked, OpenExact

LEMMA LookedStart ==
  ASSUME StartOpen
  PROVE  Looked'
<1> PICK o \in Opens :
       call' = [NoCall EXCEPT !.pc = "resolve", !.op = IF o[1] \in Files THEN "open" ELSE "opendir",
                              !.who = o[1], !.path = o[2], !.goal = o[2]]
  BY DEF StartOpen
<1>1. /\ pc' = "resolve" /\ call'.path = o[2] /\ call'.goal = o[2] /\ call'.node = Root
      /\ ~call'.stray
  BY DEF NoCall, pc
<1>2. o[2] \in Seq(STRING) /\ Len(o[2]) \in Nat
  BY SizeAssumption, LenProperties
<1>3. Done' = 0
  BY <1>1, <1>2 DEF Done
<1>4. OnPath'
  BY <1>1, <1>2, <1>3, ReachedRoot DEF OnPath
<1> QED
  BY <1>1, <1>4 DEF Looked

LEMMA LookedResolve ==
  ASSUME Typed, Looked, ResolveName
  PROVE  Looked'
<1>1. CASE ~call.node.dir
  BY <1>1, LookedError DEF ResolveName, Return
<1>2. CASE call.node.dir
  <2> SUFFICES ASSUME op' \in Lookups, call'.sure
               PROVE  ~call'.stray /\ pc' = "fetch" /\ OnPath' /\ Looking'
    BY DEF Looked
  <2> DEFINE sure == call.sure /\ call.node.first \in DOMAIN Chain
  <2>1. /\ call' = [call EXCEPT !.pc = "fetch", !.at = call.node.first, !.sure = sure]
        /\ pc = "resolve" /\ call.path # <<>>
    BY <1>2 DEF ResolveName, Typed, Frame, Fields
  <2>2. /\ pc' = "fetch" /\ op' = op /\ call'.sure = sure /\ call'.stray = call.stray
        /\ call'.node = call.node /\ call'.path = call.path /\ call'.goal = call.goal
        /\ call'.at = call.node.first
    <3> HIDE DEF sure
    <3> QED
      BY <2>1 DEF Typed, Frame, Fields, pc, op
  <2>3. ~call.stray /\ OnPath
    BY <2>1, <2>2 DEF Looked
  <2>4. OnPath'
    BY <2>2, <2>3 DEF OnPath, Done
  <2>5. ScannedTo(1, 0)'
    <3>1. call.node.first \in DOMAIN Chain /\ Size \in Nat
      BY <2>2, Constants
    <3>2. Chain[call.node.first][1] = call.node.first /\ (1 - 1) * Size + 0 = 0 /\ 0 .. 0 - 1 = {}
      BY <3>1, ChainType
    <3> QED
      BY <2>2, <3>2 DEF ScannedTo, Passed, Missed
  <2>6. Looking'
    <3>1. 1 \in 1 .. Len(Chain[call.node.first]) /\ 0 \in 0 .. Size
      <4>1. call.node.first \in DOMAIN Chain
        BY <2>2
      <4>2. Len(Chain[call.node.first]) \in Nat \ {0} /\ Size \in Nat
        BY <4>1, ChainType, Constants
      <4> QED
        BY <4>2
    <3> QED
      BY <1>2, <2>1, <2>2, <2>5, <3>1 DEF Looking
  <2> QED
    BY <2>2, <2>3, <2>4, <2>6
<1> QED
  BY <1>1, <1>2

(* The end of the path: what it names is what is opened.                   *)
LEMMA LookedOpened ==
  ASSUME Typed, Looked, Opened
  PROVE  Looked'
<1>1. /\ pc = "resolve" /\ call.path = <<>> /\ call' = [call EXCEPT !.pc = "idle"]
      /\ op \in Lookups
  BY DEF Opened, Return, Typed, Steps
<1>2. CASE result' # "no_error"
  BY <1>1, <1>2, LookedError DEF Opened, Return
<1>3. CASE result' = "no_error"
  <2> SUFFICES ASSUME call'.sure
               PROVE  ~call'.stray /\ OpenExact'
    BY <1>1 DEF Looked, Typed, Frame, Fields, pc
  <2>1. /\ op' = op /\ who' = who /\ call'.sure = call.sure /\ call'.stray = call.stray
        /\ call'.goal = call.goal
    BY <1>1 DEF Typed, Frame, Fields, op, who
  <2>2. ~call.stray /\ OnPath
    BY <1>1, <2>1 DEF Looked
  <2>3. Named(call.goal) = {call.node}
    <3>1. Done = Len(call.goal)
      BY <1>1, <2>2, LenProperties, EmptySeq DEF Done, OnPath
    <3> QED
      BY <2>2, <3>1 DEF OnPath, Named
  <2>4. IF op = "open" THEN file'[who].node = call.node ELSE dir'[who].node = call.node
    <3>1. /\ op = "open" => file' = [file EXCEPT ![who] = [open |-> TRUE, node |-> call.node,
                                           offset |-> 0, cluster |-> call.node.first]]
          /\ op # "open" => dir' = [dir EXCEPT ![who] = [open |-> TRUE, node |-> call.node,
                                        cluster |-> call.node.first, idx |-> 0, cnt |-> -1]]
      BY <1>1, <1>3 DEF Opened, Return, Lookups
    <3>2. (op = "open" => who \in Files) /\ (op # "open" => who \in Dirs)
      BY <1>1 DEF Typed, Steps, Lookups
    <3> QED
      BY <3>1, <3>2 DEF Typed, Cursors
  <2> QED
    BY <1>3, <2>1, <2>2, <2>3, <2>4 DEF OpenExact
<1> QED
  BY <1>2, <1>3

(* The first name of what is left of the path is the next of the goal.     *)
LEMMA NextNames ==
  ASSUME OnPath, call.path # <<>>
  PROVE  /\ Head(call.path) = NextName
         /\ Len(call.path) \in Nat \ {0} /\ Len(call.goal) \in Nat
         /\ Done \in Nat /\ Done + 1 \in 0 .. Len(call.goal)
<1>1. Len(call.path) \in Nat /\ Len(call.path) # 0 /\ Len(call.goal) \in Nat
  BY LenProperties, EmptySeq DEF OnPath
<1>2. Head(call.path) = call.path[1]
  BY HeadTailProperties DEF OnPath
<1>3. call.path[1] = call.goal[Done + 1]
  BY <1>1 DEF OnPath
<1>4. Len(call.path) <= Len(call.goal)
  BY DEF OnPath
<1>5. Done \in Nat /\ Done + 1 \in 0 .. Len(call.goal)
  <2>1. PICK a \in Nat, b \in Nat : a = Len(call.path) /\ b = Len(call.goal)
    BY <1>1
  <2>2. Done = b - a /\ a # 0 /\ a <= b
    BY <1>1, <1>4, <2>1 DEF Done
  <2>3. b - a \in Nat /\ (b - a) + 1 \in 0 .. b
    BY <2>2
  <2> HIDE DEF Done
  <2> QED
    BY <2>1, <2>2, <2>3
<1> QED
  BY <1>1, <1>2, <1>3, <1>5 DEF NextName

(* Where a directory has no entry of the next name, the path names none.   *)
LEMMA NothingNamed ==
  ASSUME OnPath, call.path # <<>>, call.node.first \in DOMAIN Chain, NEW p \in Nat,
         EndsAt(call.node.first, p), Missed(call.node.first, NextName, p)
  PROVE  Named(call.goal) = {}
<1>2. Found(call.node, NextName) = {}
  BY FoundNone
<1>3. Reached(call.goal, Done + 1) = {}
  <2>1. Done \in Nat /\ Reached(call.goal, Done) = {call.node}
    BY NextNames DEF OnPath
  <2>2. Reached(call.goal, Done + 1) = Found(call.node, call.goal[Done + 1])
    BY <2>1, ReachedNext
  <2> QED
    BY <1>2, <2>2 DEF NextName
<1> QED
  BY <1>3, NextNames, ReachedNone DEF Named

(* A lookup that ends with no answer, where there is none.                 *)
LEMMA LookedNone ==
  ASSUME Typed, Looked, op \in Lookups, pc # "idle", Return("file_not_found"),
         call.sure => Named(call.goal) = {}
  PROVE  Looked'
<1>1. /\ pc' = "idle" /\ op' = op /\ call'.stray = call.stray /\ call'.sure = call.sure
      /\ call'.goal = call.goal /\ result' = "file_not_found"
  BY DEF Typed, Frame, Fields, Return, pc, op
<1> QED
  BY <1>1 DEF Looked, OpenExact

(* What a fetch that succeeds leaves to a call: the cluster, unless the    *)
(* buffer that was cached for it is torn; a listing goes astray over that, *)
(* and over what is no cluster of the volume.                              *)
Serves(n, held) ==
  /\ MoveCursor(n) /\ Fetched(n, held)
  /\ held /\ n # 0 => cache'.data = Stored(n)
  /\ op = "readdir" /\ (~held \/ n \notin 2 .. Max) => who \in tainted'

LEMMA ServedFetch ==
  ASSUME Typed, CacheHeld, FetchCached \/ FetchStored
  PROVE  \E n \in Wanted, held \in BOOLEAN : Serves(n, held)
<1>1. CASE FetchCached
  <2>1. (~cache.torn) \in BOOLEAN /\ cache.idx \in Wanted /\ cache' = cache
    BY <1>1 DEF Typed, Cached, FetchCached
  <2>2. Serves(cache.idx, ~cache.torn)
    BY <1>1 DEF FetchCached, Serves, CacheHeld, Astray
  <2> QED
    BY <2>1, <2>2
<1>2. CASE FetchStored
  <2>1. PICK n \in Wanted : /\ MoveCursor(n) /\ Fetched(n, TRUE) /\ Astray(n, FALSE)
                            /\ cache' = [idx |-> n, data |-> Stored(n), torn |-> FALSE]
    BY <1>2 DEF FetchStored
  <2>2. Serves(n, TRUE)
    BY <2>1 DEF Serves, Astray
  <2> QED
    BY <2>2
<1> QED
  BY <1>1, <1>2

LEMMA LookedFetch ==
  ASSUME Typed, CacheHeld, Looked, FetchCached \/ FetchStored
  PROVE  Looked'
<1>1. Fetching
  BY DEF FetchCached, FetchStored
<1>2. PICK n \in Wanted, held \in BOOLEAN : Serves(n, held)
  BY ServedFetch
<1>3. n \in Word /\ Fetched(n, held) /\ (held /\ n # 0 => cache'.data = Stored(n))
  BY <1>1, <1>2, WantedWord DEF Serves
<1>4. op' = op /\ (call'.sure => call.sure)
  BY <1>1, <1>3, FetchedType
<1> SUFFICES ASSUME op \in Lookups, call'.sure
             PROVE  ~call'.stray /\ pc' = "scan" /\ OnPath' /\ Looking'
  BY <1>4 DEF Looked
<1>5. /\ pc' = "scan" /\ call'.sure = (call.sure /\ held) /\ call'.at = n /\ call'.slot = 0
      /\ call'.stray = call.stray /\ call'.path = call.path /\ call'.goal = call.goal
      /\ call'.node = call.node
  <2>1. call' = [call EXCEPT !.pc = "scan", !.sure = @ /\ held, !.at = n, !.slot = 0]
    BY <1>3 DEF Fetched, At, Lookups
  <2> QED
    BY <2>1 DEF Typed, Frame, Fields, pc
<1>6. ~call.stray /\ OnPath /\ Looking
  BY <1>1, <1>4 DEF Looked, Fetching
<1>7. OnPath'
  BY <1>5, <1>6 DEF OnPath, Done
<1> DEFINE first == call.node.first
<1>8. PICK k \in 1 .. Len(Chain[first]), s \in 0 .. Size : ScannedTo(k, s)
  BY <1>6 DEF Looking
<1>9. first \in DOMAIN Chain /\ Size \in Nat \ {0} /\ Len(Chain[first]) \in Nat \ {0}
  BY <1>6, ChainType, Constants DEF Looking
<1>10. Cluster = Chain[first][k]
  BY <1>8 DEF Cluster, ScannedTo, Lookups
<1>11. \E j \in 1 .. Len(Chain[first]) :
         n = Chain[first][j] /\ (j - 1) * Size + 0 = (k - 1) * Size + s
  <2>1. CASE pc = "fetch"
    <3>1. n = Chain[first][k] /\ s = 0
      BY <1>8, <1>10, <2>1 DEF Wanted, ScannedTo
    <3> QED
      BY <3>1
  <2>2. CASE pc = "advance"
    <3>1. n \in Linked(Chain[first][k]) /\ n < EndOfChain /\ ~Refused(n) /\ s = Size
      BY <1>8, <1>10, <2>2 DEF Wanted, ScannedTo
    <3>2. n \in Word /\ EndOfChain \in Nat
      BY <1>3, SizeAssumption
    <3>3. k + 1 \in 1 .. Len(Chain[first]) /\ n = Chain[first][k + 1]
      <4>1. \/ k + 1 \in 1 .. Len(Chain[first]) /\ n = Chain[first][k + 1]
            \/ n >= EndOfChain \/ Refused(n)
        BY <1>9, <3>1, ChainGoesOn
      <4> QED
        BY <3>1, <3>2, <4>1 DEF Word
    <3>4. ((k + 1) - 1) * Size + 0 = (k - 1) * Size + s
      <4>1. k \in Nat \ {0} /\ (k + 1) - 1 = k
        BY <1>9
      <4> QED
        BY <1>9, <3>1, <4>1, ProductsOrdered DEF ProductOrder
    <3> QED
      BY <3>3, <3>4
  <2> QED
    BY <1>1, <2>1, <2>2 DEF Fetching
<1>12. PICK j \in 1 .. Len(Chain[first]) :
         n = Chain[first][j] /\ (j - 1) * Size + 0 = (k - 1) * Size + s
  BY <1>11
<1>13. ScannedTo(j, 0)'
  <2>1. NextName' = NextName
    BY <1>5 DEF NextName, Done
  <2>3. n \in 2 .. Max
    BY <1>9, <1>12, ChainType, ElementOfSeq
  <2>2. cache'.data = Stored(n)
    BY <1>3, <1>5, <2>3
  <2> QED
    BY <1>5, <1>8, <1>12, <2>1, <2>2 DEF ScannedTo, Passed, Missed
<1>14. Looking'
  BY <1>5, <1>6, <1>9, <1>13 DEF Looking
<1> QED
  BY <1>5, <1>6, <1>7, <1>14

LEMMA LookedFetchEnds ==
  ASSUME Typed, Looked, FetchEnds
  PROVE  Looked'
<1>1. pc = "advance" /\ Fetching
  BY DEF FetchEnds, Fetching
<1>2. CASE op \notin Lookups
  <2>1. op' = op
    BY ReturnType DEF FetchEnds, FetchReturns, Return
  <2> QED
    BY <1>2, <2>1 DEF Looked
<1>3. CASE op \in Lookups
  <2>1. PICK n \in Linked(Cluster) :
          \/ n >= EndOfChain /\ Return("file_not_found")
          \/ Refused(n) /\ Return("corrupted_directory")
    BY <1>3 DEF FetchEnds, FetchReturns, Lookups
  <2>2. CASE Return("corrupted_directory")
    BY <2>2, LookedError DEF Return
  <2>3. CASE n >= EndOfChain /\ Return("file_not_found")
    <3>1. ASSUME call.sure
          PROVE  Named(call.goal) = {}
      <4> DEFINE first == call.node.first
      <4>1. OnPath /\ Looking
        BY <1>1, <1>3, <3>1 DEF Looked
      <4>2. PICK k \in 1 .. Len(Chain[first]), s \in 0 .. Size : ScannedTo(k, s)
        BY <4>1 DEF Looking
      <4>3. /\ first \in DOMAIN Chain /\ Size \in Nat \ {0} /\ Len(Chain[first]) \in Nat \ {0}
            /\ n \in Word /\ EndOfChain \in Nat
        BY <4>1, ChainType, Constants, LinkedWord, SizeAssumption DEF Looking
      <4>4. n \in Linked(Chain[first][k]) /\ s = Size
        BY <1>1, <1>3, <2>1, <4>2 DEF Cluster, ScannedTo, Lookups
      <4>5. k = Len(Chain[first])
        <5>1. \/ n < EndOfChain
              \/ k = Len(Chain[first])
          BY <4>3, <4>4, ChainGoesOn
        <5> QED
          BY <2>3, <4>3, <5>1 DEF Word
      <4>6. (k - 1) * Size + s = Len(Chain[first]) * Size /\ Len(Chain[first]) * Size \in Nat
        BY <4>3, <4>4, <4>5, ProductsOrdered DEF ProductOrder
      <4>7. Missed(first, NextName, Len(Chain[first]) * Size)
        BY <4>2, <4>6 DEF ScannedTo
      <4>8. EndsAt(first, Len(Chain[first]) * Size)
        BY DEF EndsAt
      <4> QED
        BY <4>1, <4>3, <4>6, <4>7, <4>8, NothingNamed DEF Looking
    <3> QED
      BY <1>1, <1>3, <2>3, <3>1, LookedNone
  <2> QED
    BY <2>1, <2>2, <2>3
<1> QED
  BY <1>2, <1>3

(* What is scanned is the entry at the position of the scan.               *)
ScannedAt(p) ==
  LET first == call.node.first
  IN /\ first \in DOMAIN Chain /\ p \in 0 .. (Len(Chain[first]) * Size) - 1
     /\ Entry = Nth(first, p) /\ Passed(first, p) /\ Missed(first, NextName, p)
     /\ \E k \in 1 .. Len(Chain[first]) :
          /\ call.at = Chain[first][k] /\ cache.data = Stored(call.at)
          /\ call.slot + 1 \in 0 .. Size /\ (k - 1) * Size + (call.slot + 1) = p + 1

LEMMA LookupScans ==
  ASSUME Typed, Looked, op \in Lookups, call.sure, pc = "scan", call.slot < Size
  PROVE  \E p \in Nat : ScannedAt(p)
<1> DEFINE first == call.node.first
<1>8. first \in DOMAIN Chain
  BY DEF Looked, Looking
<1>1. PICK k \in 1 .. Len(Chain[first]), s \in 0 .. Size : ScannedTo(k, s)
  BY DEF Looked, Looking
<1>2. /\ Size \in Nat \ {0} /\ Len(Chain[first]) \in Nat \ {0}
      /\ call.slot \in Slots /\ s = call.slot
  BY <1>1, <1>8, ChainType, Constants DEF Typed, Frame, Slots, ScannedTo
<1>3. PICK p : p = (k - 1) * Size + s
  OBVIOUS
<1>4. p \in 0 .. (Len(Chain[first]) * Size) - 1 /\ Entry = Nth(first, p)
  BY <1>1, <1>2, <1>3, <1>8, SpotAt, ScannedEntry DEF ScannedTo
<1>5. call.slot + 1 \in 0 .. Size /\ (k - 1) * Size + (call.slot + 1) = p + 1
  <2>1. (k - 1) * Size \in Nat
    BY <1>2, ProductsOrdered DEF ProductOrder
  <2> QED
    BY <1>2, <1>3, <2>1 DEF Slots
<1>6. ScannedAt(p)
  BY <1>1, <1>3, <1>4, <1>5, <1>8 DEF ScannedAt, ScannedTo
<1>7. p \in Nat
  BY <1>4
<1> QED
  BY <1>6, <1>7

LEMMA LookedScanEnds ==
  ASSUME Typed, Looked, ScanEnds
  PROVE  Looked'
<1>1. pc = "scan" /\ call.slot < Size /\ Entry.kind = "end"
  BY DEF ScanEnds, Scanning
<1>2. CASE op \notin Lookups
  <2>1. op' = op
    BY ReturnType DEF ScanEnds, Return
  <2> QED
    BY <1>2, <2>1 DEF Looked
<1>3. CASE op \in Lookups
  <2>1. ASSUME call.sure
        PROVE  Named(call.goal) = {}
    <3>1. PICK p \in Nat : ScannedAt(p)
      BY <1>1, <1>3, <2>1, LookupScans
    <3>2. /\ EndsAt(call.node.first, p) /\ Missed(call.node.first, NextName, p)
          /\ call.node.first \in DOMAIN Chain
      BY <1>1, <3>1 DEF ScannedAt, EndsAt
    <3>3. OnPath /\ call.path # <<>>
      BY <1>1, <1>3, <2>1 DEF Looked, Looking
    <3> QED
      BY <3>2, <3>3, NothingNamed
  <2>2. Return("file_not_found")
    BY <1>3 DEF ScanEnds, Lookups
  <2> QED
    BY <1>1, <1>3, <2>1, <2>2, LookedNone
<1> QED
  BY <1>2, <1>3

LEMMA LookedScanSkips ==
  ASSUME Typed, Looked, ScanSkips
  PROVE  Looked'
<1> DEFINE stray == call.stray /\ Entry.kind = "deleted"
           first == call.node.first
<1>1. /\ pc = "scan" /\ call.slot < Size /\ cache' = cache
      /\ Entry.kind = "deleted" \/ (Entry.kind = "live" /\ MayDiffer)
      /\ call' = [call EXCEPT !.slot = @ + 1, !.stray = stray]
  BY DEF ScanSkips, Scanning, Typed, Frame, Fields
<1>2. /\ pc' = "scan" /\ op' = op /\ call'.slot = call.slot + 1 /\ call'.stray = stray
      /\ call'.sure = call.sure /\ call'.path = call.path /\ call'.goal = call.goal
      /\ call'.node = call.node /\ call'.at = call.at
  <2> HIDE DEF stray
  <2> QED
    BY <1>1 DEF Typed, Frame, Fields, pc, op
<1> SUFFICES ASSUME op \in Lookups, call.sure
             PROVE  ~call'.stray /\ OnPath' /\ Looking'
  BY <1>2 DEF Looked
<1>3. ~call.stray /\ OnPath /\ Looking
  BY <1>1 DEF Looked
<1>4. OnPath'
  BY <1>2, <1>3 DEF OnPath, Done
<1>5. PICK p \in Nat : ScannedAt(p)
  BY <1>1, LookupScans
<1>6. Passed(first, p + 1) /\ Missed(first, NextName, p + 1)
  <2>1. Nth(first, p) = Entry /\ Passed(first, p) /\ Missed(first, NextName, p)
    BY <1>5 DEF ScannedAt
  <2>2. Entry.kind = "live" => NextName \notin Entry.names
    BY <1>1, <1>3, NextNames DEF MayDiffer, Looking
  <2>3. \A m \in 0 .. (p + 1) - 1 : m = p \/ m \in 0 .. p - 1
    OBVIOUS
  <2> QED
    BY <1>1, <2>1, <2>2, <2>3 DEF Passed, Missed
<1>7. PICK k \in 1 .. Len(Chain[first]) :
        /\ call.at = Chain[first][k] /\ cache.data = Stored(call.at)
        /\ call.slot + 1 \in 0 .. Size /\ (k - 1) * Size + (call.slot + 1) = p + 1
  BY <1>5 DEF ScannedAt
<1>8. PICK s \in 0 .. Size : s = call.slot + 1
  BY <1>7
<1>9. ScannedTo(k, s)'
  <2>1. NextName' = NextName
    BY <1>2 DEF NextName, Done
  <2>2. (k - 1) * Size + s = p + 1
    BY <1>7, <1>8
  <2> QED
    BY <1>1, <1>2, <1>6, <1>7, <1>8, <2>1, <2>2 DEF ScannedTo, Passed, Missed
<1>10. Looking'
  BY <1>2, <1>3, <1>9 DEF Looking
<1> QED
  BY <1>2, <1>3, <1>4, <1>10

LEMMA LookedScanFinds ==
  ASSUME Typed, Looked, ScanFinds
  PROVE  Looked'
<1> DEFINE first == call.node.first
<1>1. /\ pc = "scan" /\ call.slot < Size /\ MayMatch /\ Entry.kind = "live" /\ op # "readdir"
      /\ call' = [call EXCEPT !.pc = "resolve", !.node = Entry.node, !.path = Tail(@)]
  BY DEF ScanFinds, Scanning
<1>2. /\ pc' = "resolve" /\ op' = op /\ call'.stray = call.stray /\ call'.sure = call.sure
      /\ call'.path = Tail(call.path) /\ call'.goal = call.goal /\ call'.node = Entry.node
  <2>1. PICK n : n = Entry.node
    OBVIOUS
  <2> QED
    BY <1>1, <2>1 DEF Typed, Frame, Fields, pc, op
<1> SUFFICES ASSUME op \in Lookups, call.sure
             PROVE  ~call'.stray /\ OnPath'
  BY <1>2 DEF Looked
<1>3. ~call.stray /\ OnPath /\ Looking /\ call.path # <<>> /\ call.node.dir
  BY <1>1 DEF Looked, Looking
<1>4. PICK p \in Nat : ScannedAt(p)
  BY <1>1, LookupScans
<1>5. Found(call.node, NextName) = {Entry.node}
  <2>1. first \in DOMAIN Chain
    BY <1>4 DEF ScannedAt
  <2>2. /\ p \in 0 .. (Len(Chain[first]) * Size) - 1 /\ Entry = Nth(first, p)
        /\ Passed(first, p) /\ Missed(first, NextName, p)
    BY <1>4 DEF ScannedAt
  <2>3. NextName \in Entry.names
    BY <1>1, <1>3, NextNames DEF MayMatch
  <2>4. p \in LivePositions(first)
    BY <1>1, <2>1, <2>2, LivePosition
  <2> QED
    BY <1>3, <2>1, <2>2, <2>3, <2>4, FoundAt
<1>6. /\ Tail(call.path) \in Seq(STRING) /\ Len(Tail(call.path)) = Len(call.path) - 1
      /\ \A j \in 1 .. Len(call.path) - 1 : Tail(call.path)[j] = call.path[j + 1]
  BY <1>3, HeadTailProperties DEF OnPath
<1>7. /\ Done \in Nat /\ Len(call.path) \in Nat \ {0} /\ Len(call.goal) \in Nat
      /\ Len(call.path) <= Len(call.goal)
  BY <1>3, NextNames DEF OnPath
<1>8. Done' = Done + 1
  <2>1. PICK a \in Nat, b \in Nat : a = Len(call.path) /\ b = Len(call.goal)
    BY <1>7
  <2>2. Done = b - a /\ Done' = b - (a - 1)
    BY <1>2, <1>6, <2>1 DEF Done
  <2> QED
    BY <2>1, <2>2
<1>9. Reached(call.goal, Done + 1) = {Entry.node}
  <2>1. Reached(call.goal, Done) = {call.node}
    BY <1>3 DEF OnPath
  <2> QED
    BY <1>5, <1>7, <2>1, ReachedNext DEF NextName
<1>10. \A j \in 1 .. Len(call'.path) : call'.path[j] = call'.goal[Done' + j]
  <2>1. TAKE j \in 1 .. Len(call'.path)
  <2>2. j + 1 \in 1 .. Len(call.path) /\ Done + (j + 1) = (Done + 1) + j
    BY <1>2, <1>6, <1>7
  <2>3. call'.path[j] = call.path[j + 1]
    BY <1>2, <1>6
  <2>4. call.path[j + 1] = call.goal[Done + (j + 1)]
    BY <1>3, <2>2 DEF OnPath
  <2> QED
    BY <1>2, <1>8, <2>2, <2>3, <2>4
<1>11. OnPath'
  BY <1>2, <1>3, <1>6, <1>7, <1>8, <1>9, <1>10 DEF OnPath
<1> QED
  BY <1>2, <1>3, <1>11

(* The end of a cluster, and a long name, after which a lookup is not sure. *)
LEMMA LookedScanOn ==
  ASSUME Typed, Looked, ScanClusterEnds \/ ScanLongName
  PROVE  Looked'
<1>1. CASE ScanClusterEnds
  <2>1. /\ pc = "scan" /\ call.slot = Size /\ cache' = cache
        /\ call' = [call EXCEPT !.pc = "advance"]
    BY <1>1 DEF ScanClusterEnds
  <2>2. /\ pc' = "advance" /\ op' = op /\ call'.slot = call.slot /\ call'.stray = call.stray
        /\ call'.sure = call.sure /\ call'.path = call.path /\ call'.goal = call.goal
        /\ call'.node = call.node /\ call'.at = call.at
    BY <2>1 DEF Typed, Frame, Fields, pc, op
  <2> SUFFICES ASSUME op \in Lookups, call.sure
               PROVE  ~call'.stray /\ OnPath' /\ Looking'
    BY <2>2 DEF Looked
  <2>3. ~call.stray /\ OnPath /\ Looking
    BY <2>1 DEF Looked
  <2>4. OnPath'
    BY <2>2, <2>3 DEF OnPath, Done
  <2>5. Looking'
    BY <2>1, <2>2, <2>3 DEF Looking, ScannedTo, NextName, Done
  <2> QED
    BY <2>3, <2>2, <2>4, <2>5
<1>2. CASE ScanLongName
  <2> DEFINE stray == op # "readdir"
             sure == call.sure /\ op = "readdir"
  <2>1. \/ Return("corrupted_lfn_entry")
        \/ call' = [call EXCEPT !.slot = @ + 1, !.stray = stray, !.sure = sure]
    BY <1>2 DEF ScanLongName, Typed, Frame, Fields
  <2>2. CASE Return("corrupted_lfn_entry")
    BY <2>2, LookedError DEF Return
  <2>3. CASE call' = [call EXCEPT !.slot = @ + 1, !.stray = stray, !.sure = sure]
    <3>1. op' = op /\ call'.sure = sure
      BY <2>3 DEF Typed, Frame, Fields, op
    <3> QED
      BY <3>1 DEF Looked, Lookups
  <2> QED
    BY <2>1, <2>2, <2>3
<1> QED
  BY <1>1, <1>2

(* A fetch that fails ends the call.                                       *)
LEMMA FailedFetchReturns ==
  ASSUME FetchFails
  PROVE  /\ call' = [call EXCEPT !.pc = "idle"]
         /\ op # "read" => result' = "io_error"
  BY DEF FetchFails, FetchReturns, Return

LEMMA LookedNext ==
  ASSUME FatInv, Looked, [Next]_vars
  PROVE  Looked'
<1>1. Typed /\ CacheHeld
  BY DEF FatInv
<1>2. CASE UNCHANGED vars
  BY <1>2, LookedKept DEF vars
<1>3. CASE Mount
  <2>1. call' = call /\ pc' = "idle"
    BY <1>1, <1>3 DEF Mount, Typed, Steps, pc
  <2> QED
    BY <1>3, <2>1 DEF Mount, Looked, OpenExact, pc, op, who
<1>4. CASE Unmount \/ Seek
  <2>1. op' \in {"none", "seek"}
    BY <1>4, NoCallType DEF Unmount, Seek, Frame, Fields, op
  <2> QED
    BY <2>1, LookedOther DEF Lookups
<1>5. CASE StartRead \/ StartReadDir
  <2>1. op' \in {"read", "readdir"}
    BY <1>5, NoCallType DEF StartRead, StartReadDir, Frame, Fields, op
  <2> QED
    BY <2>1, LookedOther DEF Lookups
<1>6. CASE Copy
  <2>1. op = "read" /\ op' = op
    BY <1>1, <1>6, CopyRange, CopyType DEF Copy, Typed, Steps
  <2> QED
    BY <2>1, LookedOther DEF Lookups
<1>7. CASE FetchFails
  <2>1. op' = op
    BY <1>1, <1>7, FailedFetchReturns, ReturnType
  <2>2. CASE op = "read"
    BY <2>1, <2>2, LookedOther DEF Lookups
  <2>3. CASE op # "read"
    BY <1>1, <1>7, <2>3, FailedFetchReturns, LookedError
  <2> QED
    BY <2>2, <2>3
<1>8. CASE ScanLists
  <2>1. op' = op /\ op = "readdir"
    BY <1>1, <1>8, ReturnType DEF ScanLists, Return
  <2> QED
    BY <2>1, LookedOther DEF Lookups
<1> QED
  BY <1>1, <1>2, <1>3, <1>4, <1>5, <1>6, <1>7, <1>8, LookedStart, LookedResolve, LookedOpened,
     LookedFetch, LookedFetchEnds, LookedScanEnds, LookedScanSkips, LookedScanFinds,
     LookedScanOn DEF Next, Start, Step, Fetch, Scan

-----------------------------------------------------------------------------
(* A listing.                                                              *)

(* The list is of the live positions before p, in their order.             *)
LiveBefore(f, p) == {m \in LivePositions(f) : m < p}

Enumerates(list, f, p) ==
  /\ Len(list) = Cardinality(LiveBefore(f, p))
  /\ \A i \in 1 .. Len(list) :
       \E n \in LivePositions(f) : /\ n < p /\ list[i] = Spot(f, n)
                                   /\ Cardinality(LiveBefore(f, n)) = i - 1

Listing(d) == op = "readdir" /\ who = d
Moving(d) == Listing(d) /\ pc \in {"scan", "advance"}

(* The cursor is at slot s of the k-th cluster; or it has left the chain,  *)
(* all of which is listed, until the next fetch leads it astray.           *)
AtSlot(d, k, s) ==
  /\ dir[d].cluster = Chain[dir[d].node.first][k]
  /\ dir[d].idx = (k - 1) * Size + s
  /\ Listing(d) /\ pc = "scan" => s = call.slot /\ cache.data = Stored(dir[d].cluster)
  /\ Listing(d) /\ pc = "advance" => s = Size
  /\ ~Moving(d) => s < Size

OffChain(d) ==
  /\ dir[d].cluster \notin 1 .. Max
  /\ dir[d].idx = Len(Chain[dir[d].node.first]) * Size
  /\ ~Moving(d)

DirPlace(d) ==
  LET f == dir[d].node.first
  IN \/ \E k \in 1 .. Len(Chain[f]), s \in 0 .. Size : AtSlot(d, k, s)
     \/ OffChain(d)

Ended(d) ==
  Listing(d) /\ pc = "idle" /\ result \in {"end_of_directory", "file_not_found"}

Followed(d) == d \notin tainted /\ dir[d].open /\ Listable(dir[d].node.first)

DirListed(d) ==
  Followed(d) =>
    LET f == dir[d].node.first
    IN /\ DirPlace(d)
       /\ Passed(f, dir[d].idx) /\ Enumerates(listed[d], f, dir[d].idx)
       /\ dir[d].cnt # -1 => EndsAt(f, dir[d].cnt)
       /\ Ended(d) => EndsAt(f, dir[d].idx)

Lists == listed \in [Dirs -> Seq(Place)]

ListInv == Lists /\ \A d \in Dirs : DirListed(d)

LEMMA LiveFinite ==
  ASSUME NEW f \in DOMAIN Chain, NEW p
  PROVE  IsFiniteSet(LiveBefore(f, p))
<1>1. Len(Chain[f]) * Size \in Nat
  BY ChainType, Constants
<1>2. IsFiniteSet(0 .. (Len(Chain[f]) * Size) - 1)
  BY <1>1, FS_Interval
<1>3. LiveBefore(f, p) \subseteq 0 .. (Len(Chain[f]) * Size) - 1
  BY DEF LiveBefore, LivePositions, Positions
<1> QED
  BY <1>2, <1>3, FS_Subset

(* Nothing is listed before the first position.                            *)
LEMMA EnumeratesNone ==
  ASSUME NEW f \in DOMAIN Chain
  PROVE  Enumerates(<<>>, f, 0)
<1>1. LiveBefore(f, 0) = {}
  BY DEF LiveBefore, LivePositions, Positions
<1>2. Len(<<>>) = 0 /\ Cardinality({}) = 0 /\ 1 .. 0 = {}
  BY FS_EmptySet
<1> QED
  BY <1>1, <1>2 DEF Enumerates

(* A position with no entry to return adds nothing to the list, and one    *)
(* with an entry adds that.                                                *)
LEMMA EnumeratesSkip ==
  ASSUME NEW f \in DOMAIN Chain, NEW p \in Nat, NEW list, Enumerates(list, f, p),
         Nth(f, p).kind # "live"
  PROVE  Enumerates(list, f, p + 1)
<1>1. \A n \in LivePositions(f) : n \in Nat /\ n # p
  BY DEF LivePositions, Positions
<1>2. LiveBefore(f, p + 1) = LiveBefore(f, p)
  BY <1>1 DEF LiveBefore
<1>3. \A n \in LivePositions(f) : n < p => n < p + 1
  BY <1>1
<1> QED
  BY <1>2, <1>3 DEF Enumerates

LEMMA EnumeratesNext ==
  ASSUME NEW f \in DOMAIN Chain, NEW p \in LivePositions(f), NEW S, NEW list \in Seq(S),
         NEW x \in S, x = Spot(f, p), Enumerates(list, f, p)
  PROVE  Enumerates(Append(list, x), f, p + 1)
<1>1. \A n \in LivePositions(f) : n \in Nat
  BY DEF LivePositions, Positions
<1>2. LiveBefore(f, p + 1) = LiveBefore(f, p) \cup {p} /\ p \notin LiveBefore(f, p)
  BY <1>1 DEF LiveBefore
<1>3. Cardinality(LiveBefore(f, p + 1)) = Cardinality(LiveBefore(f, p)) + 1
  BY <1>2, LiveFinite, FS_AddElement
<1>4. /\ Len(Append(list, x)) = Len(list) + 1 /\ Len(list) \in Nat
      /\ \A i \in 1 .. Len(list) : Append(list, x)[i] = list[i]
      /\ Append(list, x)[Len(list) + 1] = x
  BY AppendProperties, LenProperties
<1>5. Len(list) = Cardinality(LiveBefore(f, p))
  BY DEF Enumerates
<1>6. ASSUME NEW i \in 1 .. Len(list) + 1
      PROVE  \E n \in LivePositions(f) : /\ n < p + 1 /\ Append(list, x)[i] = Spot(f, n)
                                         /\ Cardinality(LiveBefore(f, n)) = i - 1
  <2>1. CASE i = Len(list) + 1
    <3>1. p < p + 1 /\ i - 1 = Len(list)
      BY <1>1, <1>4, <2>1
    <3> QED
      BY <1>4, <1>5, <2>1, <3>1
  <2>2. CASE i # Len(list) + 1
    <3>1. i \in 1 .. Len(list)
      BY <1>4, <2>2
    <3>2. PICK n \in LivePositions(f) : /\ n < p /\ list[i] = Spot(f, n)
                                        /\ Cardinality(LiveBefore(f, n)) = i - 1
      BY <3>1 DEF Enumerates
    <3>3. n < p + 1
      BY <1>1, <3>2
    <3> QED
      BY <1>4, <3>1, <3>2, <3>3
  <2> QED
    BY <2>1, <2>2
<1> QED
  BY <1>3, <1>4, <1>5, <1>6 DEF Enumerates

(* The directories that a step does not move.                              *)
LEMMA DirKept ==
  ASSUME NEW d \in Dirs, DirListed(d), dir'[d] = dir[d], listed'[d] = listed[d],
         d \in tainted => d \in tainted', ~Moving(d), ~Moving(d)',
         Followed(d) /\ Ended(d)' => Ended(d) \/ EndsAt(dir[d].node.first, dir[d].idx)
  PROVE  DirListed(d)'
<1> SUFFICES ASSUME Followed(d)'
             PROVE  LET f == dir[d].node.first
                    IN /\ DirPlace(d)'
                       /\ Passed(f, dir[d].idx) /\ Enumerates(listed[d], f, dir[d].idx)
                       /\ dir[d].cnt # -1 => EndsAt(f, dir[d].cnt)
                       /\ Ended(d)' => EndsAt(f, dir[d].idx)
  BY DEF DirListed
<1>1. Followed(d)
  BY DEF Followed
<1>2. DirPlace(d) /\ (Ended(d) => EndsAt(dir[d].node.first, dir[d].idx))
  BY <1>1 DEF DirListed
<1>3. DirPlace(d)'
  <2>1. (Listing(d) => pc \notin {"scan", "advance"}) /\ (Listing(d)' => pc' \notin {"scan", "advance"})
    BY DEF Moving
  <2> QED
    BY <1>2, <2>1 DEF DirPlace, AtSlot, OffChain, Moving
<1> QED
  BY <1>1, <1>2, <1>3 DEF DirListed

(* What a listing scans is the entry at its position, and it may go on to  *)
(* the next.                                                               *)
ScannedBy(d) ==
  LET f == dir[d].node.first
      p == dir[d].idx
  IN /\ p \in 0 .. (Len(Chain[f]) * Size) - 1 /\ (p + 1) % U32 = p + 1
     /\ Entry = Nth(f, p) /\ cache.data[call.slot] = Spot(f, p)
     /\ \E k \in 1 .. Len(Chain[f]), s \in 0 .. Size :
          /\ dir[d].cluster = Chain[f][k] /\ (k - 1) * Size + s = p + 1
          /\ s = call.slot + 1 /\ cache.data = Stored(dir[d].cluster)
          /\ Entry.kind = "live" => s < Size

LEMMA ListingScans ==
  ASSUME Typed, ListInv, op = "readdir", pc = "scan", call.slot < Size,
         Followed(who)
  PROVE  ScannedBy(who)
<1> DEFINE f == dir[who].node.first
           p == dir[who].idx
<1>1. /\ who \in Dirs /\ Listing(who) /\ f \in DOMAIN Chain /\ DirPlace(who)
      /\ Listable(f)
  BY DEF Typed, Steps, Listing, ListInv, DirListed, Followed, Listable
<1>2. Size \in Nat \ {0} /\ Len(Chain[f]) \in Nat \ {0} /\ call.slot \in Slots
  BY <1>1, ChainType, Constants DEF Typed, Frame, Slots
<1>3. ~OffChain(who)
  BY <1>1 DEF OffChain, Moving
<1>4. ASSUME NEW k \in 1 .. Len(Chain[f]), NEW s \in 0 .. Size, AtSlot(who, k, s)
      PROVE  ScannedBy(who)
  <2>1. /\ dir[who].cluster = Chain[f][k] /\ p = (k - 1) * Size + call.slot
        /\ cache.data = Stored(Chain[f][k])
    BY <1>1, <1>4 DEF AtSlot
  <2>2. /\ p \in 0 .. (Len(Chain[f]) * Size) - 1 /\ Spot(f, p) = <<Chain[f][k], call.slot>>
        /\ Entry = Nth(f, p) /\ cache.data[call.slot] = Spot(f, p)
    <3>1. /\ Spot(f, (k - 1) * Size + call.slot) = <<Chain[f][k], call.slot>>
          /\ (k - 1) * Size + call.slot \in 0 .. (Len(Chain[f]) * Size) - 1
      BY <1>1, <1>2, SpotAt
    <3>2. /\ Entry = Nth(f, (k - 1) * Size + call.slot)
          /\ cache.data[call.slot] = Spot(f, (k - 1) * Size + call.slot)
      BY <1>1, <1>2, <2>1, ScannedEntry
    <3>3. p = (k - 1) * Size + call.slot
      BY <2>1
    <3> HIDE DEF p
    <3> QED
      BY <3>1, <3>2, <3>3, Zenon
  <2>3. (p + 1) % U32 = p + 1
    <3>1. Len(Chain[f]) * Size \in Nat /\ Len(Chain[f]) * Size < U32 /\ U32 \in Nat \ {0}
      <4>2. Len(Chain[f]) * Size < U32
        BY <1>1 DEF Listable
      <4>3. Len(Chain[f]) * Size \in Nat
        BY <1>2
      <4> QED
        BY <4>2, <4>3, Constants
    <3>2. PICK l \in Nat : l = Len(Chain[f]) * Size
      BY <3>1
    <3>3. PICK n \in Nat : n = p + 1 /\ n < U32
      BY <2>2, <3>1, <3>2
    <3>4. n % U32 = n
      BY <3>3, Constants, Undivided
    <3> QED
      BY <3>3, <3>4
  <2>4. PICK t \in 0 .. Size : t = call.slot + 1
    BY <1>2 DEF Slots
  <2>5. (k - 1) * Size + t = p + 1
    <3>1. (k - 1) * Size \in Nat
      BY <1>2, ProductsOrdered DEF ProductOrder
    <3> QED
      BY <1>2, <2>1, <2>4, <3>1 DEF Slots
  <2>6. Entry.kind = "live" => t < Size
    <3>1. SUFFICES ASSUME Entry.kind = "live"
                   PROVE  call.slot # Size - 1
      BY <1>2, <2>4 DEF Slots
    <3>2. EntryAt(<<Chain[f][k], call.slot>>).kind = "live"
      BY <2>2, <3>1 DEF Nth
    <3> QED
      BY <1>1, <3>2 DEF Listable
  <2> QED
    BY <2>1, <2>2, <2>3, <2>4, <2>5, <2>6 DEF ScannedBy
<1> QED
  BY <1>1, <1>3, <1>4 DEF DirPlace

(* The listing goes past the entry at its position.                        *)
LEMMA DirPast ==
  ASSUME Typed, ListInv, op = "readdir", pc = "scan", Entry.kind # "end",
         Followed(who), ScannedBy(who),
         dir' = [dir EXCEPT ![who].idx = (@ + 1) % U32], cache' = cache,
         op' = op, who' = who,
         Enumerates(listed'[who], dir[who].node.first, dir[who].idx + 1),
         \/ pc' = "scan" /\ call'.slot = call.slot + 1
         \/ pc' = "idle" /\ Entry.kind = "live" /\ result' = "no_error"
  PROVE  DirListed(who)'
<1> DEFINE f == dir[who].node.first
           p == dir[who].idx
<1>1. who \in Dirs /\ dir \in [Dirs -> DirCursor]
  BY DEF Typed, Steps, Cursors
<1>2. /\ p \in 0 .. (Len(Chain[f]) * Size) - 1 /\ (p + 1) % U32 = p + 1 /\ Entry = Nth(f, p)
      /\ \E k \in 1 .. Len(Chain[f]), s \in 0 .. Size :
          /\ dir[who].cluster = Chain[f][k] /\ (k - 1) * Size + s = p + 1
          /\ s = call.slot + 1 /\ cache.data = Stored(dir[who].cluster)
          /\ Entry.kind = "live" => s < Size
  BY DEF ScannedBy
<1>3. /\ dir'[who].idx = p + 1 /\ dir'[who].node = dir[who].node
      /\ dir'[who].cluster = dir[who].cluster /\ dir'[who].cnt = dir[who].cnt
  BY <1>1, <1>2 DEF DirCursor
<1>4. /\ f \in DOMAIN Chain /\ Passed(f, p) /\ (dir[who].cnt # -1 => EndsAt(f, dir[who].cnt))
  BY <1>1 DEF ListInv, DirListed, Followed, Listable
<1>5. Passed(f, p + 1)
  <2>1. p \in Nat /\ \A m \in 0 .. (p + 1) - 1 : m = p \/ m \in 0 .. p - 1
    <3>1. Len(Chain[f]) * Size \in Nat
      BY <1>4, ChainType, Constants
    <3>2. p \in Nat
      BY <1>2, <3>1
    <3> QED
      BY <3>2
  <2> QED
    BY <1>2, <1>4, <2>1 DEF Passed
<1>6. DirPlace(who)'
  <2>1. PICK k \in 1 .. Len(Chain[f]), s \in 0 .. Size :
          /\ dir[who].cluster = Chain[f][k] /\ (k - 1) * Size + s = p + 1
          /\ s = call.slot + 1 /\ cache.data = Stored(dir[who].cluster)
          /\ Entry.kind = "live" => s < Size
    BY <1>2
  <2>2. dir'[who].idx = (k - 1) * Size + s /\ dir'[who].cluster = Chain[dir'[who].node.first][k]
    BY <1>3, <2>1
  <2>3. /\ pc' # "advance" /\ (pc' = "scan" => s = call'.slot)
        /\ cache'.data = Stored(dir'[who].cluster) /\ (pc' = "scan" \/ s < Size)
    BY <1>3, <2>1
  <2>4. AtSlot(who, k, s)'
    BY <2>2, <2>3 DEF AtSlot, Listing, Moving
  <2> QED
    BY <1>3, <2>4 DEF DirPlace
<1>7. ~Ended(who)'
  BY DEF Ended
<1> QED
  BY <1>3, <1>4, <1>5, <1>6, <1>7 DEF DirListed

(* Steps of the listing of who that leave its cursor where it is.          *)
LEMMA DirStays ==
  ASSUME Typed, ListInv, op = "readdir", op' = op, who' = who,
         Followed(who),
         dir'[who].node = dir[who].node, dir'[who].idx = dir[who].idx,
         dir'[who].cnt \in {dir[who].cnt, dir[who].idx},
         listed'[who] = listed[who], DirPlace(who)',
         dir'[who].cnt = dir[who].cnt \/ EndsAt(dir[who].node.first, dir[who].idx),
         Ended(who)' => EndsAt(dir[who].node.first, dir[who].idx)
  PROVE  DirListed(who)'
<1>1. who \in Dirs
  BY DEF Typed, Steps
<1>2. DirListed(who)
  BY <1>1 DEF ListInv
<1> QED
  BY <1>2 DEF DirListed

LEMMA ListScanEnds ==
  ASSUME Typed, ListInv, ScanEnds, op = "readdir", Followed(who)
  PROVE  DirListed(who)'
<1> DEFINE f == dir[who].node.first
<1>1. /\ pc = "scan" /\ call.slot < Size /\ Entry.kind = "end" /\ cache' = cache
      /\ dir' = [dir EXCEPT ![who].cnt = dir[who].idx] /\ listed' = listed
      /\ call' = [call EXCEPT !.pc = "idle"]
  BY DEF ScanEnds, Scanning, Return
<1>2. /\ who \in Dirs /\ dir \in [Dirs -> DirCursor]
      /\ pc' = "idle" /\ op' = op /\ who' = who
  BY <1>1, ReturnType DEF Typed, Steps, Cursors
<1>3. /\ dir'[who].node = dir[who].node /\ dir'[who].idx = dir[who].idx
      /\ dir'[who].cnt = dir[who].idx /\ dir'[who].cluster = dir[who].cluster
  BY <1>1, <1>2 DEF DirCursor
<1>5. CASE ScannedBy(who)
  <2>1. EndsAt(f, dir[who].idx)
    BY <1>1, <1>5 DEF ScannedBy, EndsAt
  <2>2. DirPlace(who)'
    <3>1. /\ f \in DOMAIN Chain /\ Size \in Nat \ {0} /\ call.slot \in Slots
          /\ Len(Chain[f]) \in Nat \ {0}
      BY <1>1, <1>2, ChainType, Constants DEF Typed, Frame, Slots, Followed, Listable
    <3>2. PICK k \in 1 .. Len(Chain[f]), s \in 0 .. Size :
            /\ dir[who].cluster = Chain[f][k] /\ (k - 1) * Size + s = dir[who].idx + 1
            /\ s = call.slot + 1
      BY <1>5 DEF ScannedBy
    <3>3. PICK t \in 0 .. Size : t = call.slot /\ t < Size
      BY <3>1 DEF Slots
    <3>4. dir[who].idx = (k - 1) * Size + t
      <4>1. (k - 1) * Size \in Nat /\ dir[who].idx \in Nat
        BY <1>2, <3>1, ProductsOrdered DEF ProductOrder, DirCursor, Word
      <4>2. PICK x \in Nat, i \in Nat : x = (k - 1) * Size /\ i = dir[who].idx
        BY <4>1
      <4>3. x + (t + 1) = i + 1 /\ t \in Nat
        BY <3>1, <3>2, <3>3, <4>2
      <4>4. x + t = i
        BY <4>3
      <4> QED
        BY <4>2, <4>4
    <3>5. AtSlot(who, k, t)'
      BY <1>2, <1>3, <3>2, <3>3, <3>4 DEF AtSlot, Moving
    <3> QED
      BY <1>2, <1>3, <3>2, <3>3, <3>5 DEF DirPlace
  <2> QED
    BY <1>1, <1>2, <1>3, <2>1, <2>2, DirStays
<1> QED
  BY <1>1, <1>5, ListingScans

LEMMA ListScanOn ==
  ASSUME Typed, ListInv, ScanSkips \/ ScanLists \/ ScanLongName, op = "readdir",
         Followed(who)
  PROVE  DirListed(who)'
<1> DEFINE f == dir[who].node.first
           p == dir[who].idx
<1>1. pc = "scan" /\ call.slot < Size /\ Entry.kind \in {"deleted", "live", "lfn"} /\ cache' = cache
  BY DEF ScanSkips, ScanLists, ScanLongName, Scanning
<1>2. ScannedBy(who)
  BY <1>1, ListingScans
<1>3. /\ who \in Dirs /\ f \in DOMAIN Chain /\ Enumerates(listed[who], f, p)
      /\ listed \in [Dirs -> Seq(Place)] /\ DirListed(who)
  BY DEF Typed, Steps, ListInv, Lists, DirListed, Followed, Listable
<1>4. p \in Nat /\ Entry = Nth(f, p) /\ p \in 0 .. (Len(Chain[f]) * Size) - 1
  <2>1. Len(Chain[f]) * Size \in Nat
    BY <1>3, ChainType, Constants
  <2> QED
    BY <1>2, <2>1 DEF ScannedBy
<1>5. CASE ScanSkips
  <2> DEFINE stray == call.stray /\ Entry.kind = "deleted"
  <2>1. /\ dir' = [dir EXCEPT ![who].idx = (@ + 1) % U32] /\ listed' = listed
        /\ call' = [call EXCEPT !.slot = @ + 1, !.stray = stray] /\ Entry.kind = "deleted"
    BY <1>5 DEF ScanSkips, Scanning, CountEntry, Typed, Frame, Fields
  <2>2. pc' = "scan" /\ op' = op /\ who' = who /\ call'.slot = call.slot + 1
    <3> HIDE DEF stray
    <3> QED
      BY <1>1, <2>1 DEF Typed, Frame, Fields, pc, op, who
  <2>3. Enumerates(listed'[who], f, p + 1)
    BY <1>3, <1>4, <2>1, EnumeratesSkip
  <2> QED
    BY <1>1, <1>2, <2>1, <2>2, <2>3, DirPast
<1>6. CASE ScanLists
  <2>1. /\ dir' = [dir EXCEPT ![who].idx = (@ + 1) % U32]
        /\ listed' = [listed EXCEPT ![who] = Append(@, cache.data[call.slot])]
        /\ call' = [call EXCEPT !.pc = "idle"] /\ Entry.kind = "live" /\ result' = "no_error"
    BY <1>6 DEF ScanLists, Scanning, CountEntry, Return
  <2>2. pc' = "idle" /\ op' = op /\ who' = who
    BY <2>1, ReturnType
  <2>3. PICK x : x = cache.data[call.slot]
    OBVIOUS
  <2>4. x = Spot(f, p) /\ x \in Place
    <3>1. call.slot \in Slots
      BY <1>1, Constants DEF Typed, Frame, Slots
    <3> QED
      BY <1>2, <2>3, <3>1 DEF ScannedBy, Typed, Cached, Buffer
  <2>5. p \in LivePositions(f)
    <3>1. Passed(f, p)
      BY <1>2 DEF ListInv, DirListed, Typed, Steps
    <3> QED
      BY <1>3, <1>4, <2>1, <3>1, LivePosition
  <2>6. Enumerates(Append(listed[who], x), f, p + 1)
    <3>1. listed[who] \in Seq(Place)
      BY <1>3
    <3> QED
      BY <1>3, <2>4, <2>5, <3>1, EnumeratesNext
  <2>7. listed'[who] = Append(listed[who], x)
    BY <1>3, <2>1, <2>3
  <2>8. Enumerates(listed'[who], f, p + 1)
    BY <2>6, <2>7
  <2> QED
    BY <1>1, <1>2, <2>1, <2>2, <2>8, DirPast
<1>7. CASE ScanLongName
  <2> DEFINE stray == op # "readdir"
             sure == call.sure /\ op = "readdir"
  <2>1. listed' = listed /\ Entry.kind = "lfn"
    BY <1>7 DEF ScanLongName, Scanning
  <2>2. CASE Return("corrupted_lfn_entry") /\ dir' = dir
    <3>1. pc' = "idle" /\ op' = op /\ who' = who /\ result' = "corrupted_lfn_entry"
      BY <2>2, ReturnType DEF Return
    <3>2. DirPlace(who)'
      <4>1. Size \in Nat \ {0} /\ call.slot \in Slots /\ Len(Chain[f]) \in Nat \ {0}
        BY <1>1, <1>3, ChainType, Constants DEF Typed, Frame, Slots
      <4>2. PICK k \in 1 .. Len(Chain[f]), s \in 0 .. Size : AtSlot(who, k, s)
        BY <1>1, <1>3 DEF DirListed, DirPlace, OffChain, Moving, Listing
      <4>3. s = call.slot /\ s < Size
        BY <1>1, <4>2 DEF AtSlot, Listing
      <4>4. AtSlot(who, k, s)'
        BY <2>2, <3>1, <4>2, <4>3 DEF AtSlot, Listing, Moving
      <4> QED
        BY <2>2, <3>1, <4>2, <4>4 DEF DirPlace
    <3> QED
      BY <2>1, <2>2, <3>1, <3>2, DirStays DEF Ended
  <2>3. CASE /\ call' = [call EXCEPT !.slot = @ + 1, !.stray = stray, !.sure = sure]
             /\ dir' = [dir EXCEPT ![who].idx = (@ + 1) % U32]
    <3>1. pc' = "scan" /\ op' = op /\ who' = who /\ call'.slot = call.slot + 1
      <4> HIDE DEF stray, sure
      <4> QED
        BY <1>1, <2>3 DEF Typed, Frame, Fields, pc, op, who
    <3>2. Enumerates(listed'[who], f, p + 1)
      BY <1>3, <1>4, <2>1, EnumeratesSkip
    <3> QED
      BY <1>1, <1>2, <2>1, <2>3, <3>1, <3>2, DirPast
  <2> QED
    BY <1>7, <2>2, <2>3 DEF ScanLongName, CountEntry, Typed, Frame, Fields
<1> QED
  BY <1>5, <1>6, <1>7

LEMMA ListClusterEnds ==
  ASSUME Typed, ListInv, ScanClusterEnds, op = "readdir", Followed(who)
  PROVE  DirListed(who)'
<1> DEFINE f == dir[who].node.first
<1>1. /\ pc = "scan" /\ call.slot = Size /\ UNCHANGED <<dir, listed, cache, result>>
      /\ call' = [call EXCEPT !.pc = "advance"]
  BY DEF ScanClusterEnds
<1>2. pc' = "advance" /\ op' = op /\ who' = who /\ call'.slot = call.slot
  BY <1>1 DEF Typed, Frame, Fields, pc, op, who
<1>3. who \in Dirs /\ DirPlace(who) /\ Size \in Nat \ {0}
  BY Constants DEF Typed, Steps, ListInv, DirListed
<1>4. PICK k \in 1 .. Len(Chain[f]), s \in 0 .. Size : AtSlot(who, k, s)
  BY <1>1, <1>3 DEF DirPlace, OffChain, Listing, Moving
<1>5. AtSlot(who, k, s)'
  BY <1>1, <1>2, <1>4 DEF AtSlot, Listing, Moving
<1>6. DirPlace(who)'
  BY <1>1, <1>2, <1>4, <1>5 DEF DirPlace
<1> QED
  BY <1>1, <1>2, <1>6, DirStays DEF Ended

(* A fetch moves no cursor but that of a listing, and of it the cluster.   *)
LEMMA MovedDir ==
  ASSUME Typed, NEW n \in Word, MoveCursor(n)
  PROVE  /\ \A d \in Dirs : d # who \/ op # "readdir" => dir'[d] = dir[d]
         /\ op = "readdir" => /\ dir'[who].cluster = n /\ dir'[who].node = dir[who].node
                              /\ dir'[who].idx = dir[who].idx /\ dir'[who].cnt = dir[who].cnt
                              /\ dir'[who].open = dir[who].open
<1>1. dir \in [Dirs -> DirCursor] /\ (op = "readdir" => who \in Dirs)
  BY DEF Typed, Cursors, Steps
<1>2. CASE op = "readdir"
  <2>1. dir' = [dir EXCEPT ![who].cluster = n]
    BY <1>2 DEF MoveCursor
  <2> QED
    BY <1>1, <1>2, <2>1 DEF DirCursor
<1>3. CASE op # "readdir"
  BY <1>3 DEF MoveCursor
<1> QED
  BY <1>2, <1>3

(* The cluster that a listing fetches begins at its position, or is the    *)
(* one its position is in.                                                 *)
LEMMA ListFetches ==
  ASSUME Typed, ListInv, Fetching, op = "readdir", Followed(who),
         NEW n \in Wanted
  PROVE  LET f == dir[who].node.first
         IN \/ \E k \in 1 .. Len(Chain[f]), s \in 0 .. Size :
                 /\ n = Chain[f][k] /\ dir[who].idx = (k - 1) * Size + s
                 /\ s < Size /\ s = dir[who].idx % Size
            \/ /\ n \notin 1 .. Max /\ dir[who].idx = Len(Chain[f]) * Size
               /\ dir[who].idx % Size = 0
<1> DEFINE f == dir[who].node.first
<1>1. /\ who \in Dirs /\ DirPlace(who) /\ f \in DOMAIN Chain /\ Cluster = dir[who].cluster
      /\ Listing(who) /\ n \in Word
  BY WantedWord DEF Typed, Steps, ListInv, DirListed, Cluster, Listing, Followed, Listable
<1>2. Size \in Nat \ {0} /\ Len(Chain[f]) \in Nat \ {0} /\ EndOfChain \in Nat
  BY <1>1, ChainType, Constants, SizeAssumption
<1>3. CASE OffChain(who)
  <2>1. pc = "fetch" /\ n = dir[who].cluster
    BY <1>1, <1>3 DEF Fetching, OffChain, Wanted, Moving
  <2>2. (Len(Chain[f]) * Size) % Size = 0
    <3>1. Len(Chain[f]) * Size = Size * Len(Chain[f]) + 0 /\ 0 \in 0 .. Size - 1
      BY <1>2
    <3>2. PICK q \in Nat : q = Len(Chain[f])
      BY <1>2
    <3>3. (Size * q + 0) % Size = 0
      BY <1>2, <3>1, DivisionUnique
    <3> QED
      BY <3>1, <3>2, <3>3
  <2> QED
    BY <1>3, <2>1, <2>2 DEF OffChain
<1>4. ASSUME NEW k \in 1 .. Len(Chain[f]), NEW s \in 0 .. Size, AtSlot(who, k, s)
      PROVE  \E j \in 1 .. Len(Chain[f]), t \in 0 .. Size :
               /\ n = Chain[f][j] /\ dir[who].idx = (j - 1) * Size + t /\ t < Size
  <2>1. CASE pc = "fetch"
    <3>1. n = Chain[f][k] /\ s < Size
      BY <1>1, <1>4, <2>1 DEF AtSlot, Wanted, Moving
    <3> QED
      BY <1>4, <3>1 DEF AtSlot
  <2>2. CASE pc = "advance"
    <3>1. n \in Linked(Chain[f][k]) /\ n < EndOfChain /\ ~Refused(n) /\ s = Size
      BY <1>1, <1>4, <2>2 DEF AtSlot, Wanted
    <3>2. k + 1 \in 1 .. Len(Chain[f]) /\ n = Chain[f][k + 1]
      <4>1. \/ k + 1 \in 1 .. Len(Chain[f]) /\ n = Chain[f][k + 1]
            \/ n >= EndOfChain \/ Refused(n)
        BY <1>1, <3>1, ChainGoesOn
      <4> QED
        BY <1>1, <1>2, <3>1, <4>1 DEF Word
    <3>3. dir[who].idx = ((k + 1) - 1) * Size + 0
      <4>1. k \in Nat \ {0} /\ (k + 1) - 1 = k
        BY <1>2
      <4>2. dir[who].idx = (k - 1) * Size + Size
        BY <1>4, <3>1 DEF AtSlot
      <4> QED
        BY <1>2, <4>1, <4>2, ProductsOrdered DEF ProductOrder
    <3>4. 0 \in 0 .. Size /\ 0 < Size
      BY <1>2
    <3> QED
      BY <3>2, <3>3, <3>4
  <2> QED
    BY <2>1, <2>2 DEF Fetching
<1>5. ASSUME NEW j \in 1 .. Len(Chain[f]), NEW t \in 0 .. Size, t < Size,
             dir[who].idx = (j - 1) * Size + t
      PROVE  t = dir[who].idx % Size
  <2>1. j - 1 \in Nat /\ t \in 0 .. Size - 1 /\ (j - 1) * Size = Size * (j - 1)
    BY <1>2, <1>5
  <2> QED
    BY <1>2, <1>5, <2>1, DivisionUnique
<1> QED
  BY <1>1, <1>3, <1>4, <1>5 DEF DirPlace

LEMMA ListFetch ==
  ASSUME Typed, CacheHeld, ListInv, FetchCached \/ FetchStored, op = "readdir",
         Followed(who), who \notin tainted'
  PROVE  DirListed(who)'
<1> DEFINE f == dir[who].node.first
<1>1. Fetching /\ tainted \subseteq tainted' /\ listed' = listed
  BY DEF FetchCached, FetchStored, Astray
<1>2. PICK n \in Wanted, held \in BOOLEAN : Serves(n, held)
  BY ServedFetch
<1>3. n \in Word /\ MoveCursor(n) /\ Fetched(n, held) /\ n \in 2 .. Max /\ cache'.data = Stored(n)
  BY <1>1, <1>2, WantedWord DEF Serves
<1>4. who \in Dirs /\ who \notin tainted
  BY <1>1 DEF Typed, Steps
<1>5. /\ pc' = "scan" /\ op' = op /\ who' = who
      /\ call'.slot = dir[who].idx % Size
  <2> DEFINE slot == dir[who].idx % Size
  <2>1. call' = [call EXCEPT !.pc = "scan", !.sure = @ /\ held, !.at = At(n), !.slot = slot]
    BY <1>3 DEF Fetched
  <2> HIDE DEF slot
  <2>2. pc' = "scan" /\ op' = op /\ who' = who /\ call'.slot = slot
    BY <2>1 DEF Typed, Frame, Fields, pc, op, who
  <2> QED
    BY <2>2 DEF slot
<1>6. /\ dir'[who].cluster = n /\ dir'[who].node = dir[who].node
      /\ dir'[who].idx = dir[who].idx /\ dir'[who].cnt = dir[who].cnt
  BY <1>3, MovedDir
<1>7. DirPlace(who)'
  <2>1. ~(n \notin 1 .. Max)
    BY <1>3, SizeAssumption
  <2>2. ASSUME NEW k \in 1 .. Len(Chain[f]), NEW s \in 0 .. Size,
               n = Chain[f][k], dir[who].idx = (k - 1) * Size + s,
               s < Size, s = dir[who].idx % Size
        PROVE  DirPlace(who)'
    <3>1. AtSlot(who, k, s)'
      BY <1>3, <1>5, <1>6, <2>2 DEF AtSlot, Listing, Moving
    <3> QED
      BY <1>5, <1>6, <3>1 DEF DirPlace
  <2> QED
    BY <1>1, <1>4, <2>1, <2>2, ListFetches
<1> QED
  BY <1>1, <1>4, <1>5, <1>6, <1>7, DirStays DEF Ended

LEMMA ListFetchFails ==
  ASSUME Typed, ListInv, FetchFails, op = "readdir", Followed(who)
  PROVE  DirListed(who)'
<1> DEFINE f == dir[who].node.first
<1>1. Fetching /\ listed' = listed
  BY DEF FetchFails
<1>2. PICK n \in Wanted : MoveCursor(n)
  BY DEF FetchFails
<1>3. n \in Word /\ who \in Dirs
  BY <1>1, WantedWord DEF Typed, Steps
<1>4. pc' = "idle" /\ op' = op /\ who' = who /\ result' = "io_error"
  BY FailedFetchReturns, ReturnType
<1>5. /\ dir'[who].cluster = n /\ dir'[who].node = dir[who].node
      /\ dir'[who].idx = dir[who].idx /\ dir'[who].cnt = dir[who].cnt
  BY <1>2, <1>3, MovedDir
<1>6. DirPlace(who)'
  <2>1. CASE n \notin 1 .. Max /\ dir[who].idx = Len(Chain[f]) * Size
    <3>1. OffChain(who)'
      BY <1>4, <1>5, <2>1 DEF OffChain, Moving
    <3> QED
      BY <1>4, <3>1 DEF DirPlace
  <2>2. ASSUME NEW k \in 1 .. Len(Chain[f]), NEW s \in 0 .. Size,
               n = Chain[f][k], dir[who].idx = (k - 1) * Size + s, s < Size
        PROVE  DirPlace(who)'
    <3>1. AtSlot(who, k, s)'
      BY <1>4, <1>5, <2>2 DEF AtSlot, Listing, Moving
    <3> QED
      BY <1>4, <1>5, <3>1 DEF DirPlace
  <2> QED
    BY <1>1, <2>1, <2>2, ListFetches
<1> QED
  BY <1>1, <1>4, <1>5, <1>6, DirStays DEF Ended

LEMMA ListFetchEnds ==
  ASSUME Typed, ListInv, FetchEnds, op = "readdir", Followed(who)
  PROVE  DirListed(who)'
<1> DEFINE f == dir[who].node.first
<1>1. PICK n \in Linked(Cluster) :
        MoveCursor(n) /\ (n >= EndOfChain \/ Refused(n))
        /\ call' = [call EXCEPT !.pc = "idle"]
        /\ result' \in {"file_not_found", "corrupted_directory"}
  BY DEF FetchEnds, FetchReturns, Return
<1>2. pc = "advance" /\ listed' = listed
  BY DEF FetchEnds
<1>3. /\ who \in Dirs /\ DirPlace(who) /\ f \in DOMAIN Chain /\ Listing(who)
      /\ Cluster = dir[who].cluster /\ n \in Word
  BY LinkedWord DEF Typed, Steps, ListInv, DirListed, Listing, Cluster, Followed, Listable
<1>4. pc' = "idle" /\ op' = op /\ who' = who
  BY <1>1, ReturnType
<1>5. /\ dir'[who].cluster = n /\ dir'[who].node = dir[who].node
      /\ dir'[who].idx = dir[who].idx /\ dir'[who].cnt = dir[who].cnt
  BY <1>1, <1>3, MovedDir
<1>6. PICK k \in 1 .. Len(Chain[f]), s \in 0 .. Size : AtSlot(who, k, s)
  BY <1>2, <1>3 DEF DirPlace, OffChain, Moving
<1>7. /\ Size \in Nat \ {0} /\ Len(Chain[f]) \in Nat \ {0} /\ EndOfChain \in Nat /\ s = Size
      /\ n \in Linked(Chain[f][k])
  BY <1>1, <1>2, <1>3, <1>6, ChainType, Constants, SizeAssumption DEF AtSlot
<1>8. k = Len(Chain[f]) /\ n \notin 1 .. Max
  <2>1. \/ n < EndOfChain /\ ~Refused(n)
        \/ k = Len(Chain[f]) /\ n \notin 1 .. Max
    BY <1>3, <1>7, ChainGoesOn
  <2> QED
    BY <1>1, <1>3, <1>7, <2>1 DEF Word
<1>9. dir[who].idx = Len(Chain[f]) * Size
  <2>1. dir[who].idx = (k - 1) * Size + Size
    BY <1>6, <1>7 DEF AtSlot
  <2> QED
    BY <1>7, <1>8, <2>1, ProductsOrdered DEF ProductOrder
<1>10. OffChain(who)'
  BY <1>4, <1>5, <1>8, <1>9 DEF OffChain, Moving
<1>11. DirPlace(who)'
  BY <1>4, <1>10 DEF DirPlace
<1>12. EndsAt(f, dir[who].idx)
  BY <1>9 DEF EndsAt
<1> QED
  BY <1>1, <1>2, <1>4, <1>5, <1>11, <1>12, DirStays DEF Ended

(* qfs_opendir begins a listing.                                           *)
LEMMA ListOpened ==
  ASSUME Typed, ListInv, Opened, NEW d \in Dirs
  PROVE  DirListed(d)'
<1>1. /\ pc = "resolve" /\ call' = [call EXCEPT !.pc = "idle"] /\ op \in Lookups
      /\ dir \in [Dirs -> DirCursor] /\ listed \in [Dirs -> Seq(Place)]
  BY DEF Opened, Return, Typed, Steps, Cursors, ListInv, Lists
<1>2. pc' = "idle" /\ op' = op /\ who' = who /\ op # "readdir"
  BY <1>1, ReturnType DEF Lookups
<1>3. CASE dir'[d] = dir[d] /\ listed'[d] = listed[d] /\ (d \in tainted => d \in tainted')
  <2>1. ~Moving(d) /\ ~Moving(d)' /\ ~Ended(d)'
    BY <1>2 DEF Moving, Listing, Ended
  <2> QED
    BY <1>3, <2>1, DirKept DEF ListInv
<1>4. CASE d = who /\ op = "opendir" /\ call.node.dir
  <2> DEFINE f == call.node.first
  <2>1. /\ dir'[d] = [open |-> TRUE, node |-> call.node, cluster |-> f, idx |-> 0, cnt |-> -1]
        /\ listed'[d] = <<>>
    BY <1>1, <1>4 DEF Opened
  <2> SUFFICES ASSUME Listable(f)
               PROVE  DirListed(d)'
    BY <2>1 DEF DirListed, Followed
  <2>2. f \in DOMAIN Chain /\ Size \in Nat \ {0} /\ Len(Chain[f]) \in Nat \ {0} /\ Chain[f][1] = f
    BY ChainType, Constants DEF Listable
  <2>3. Enumerates(<<>>, f, 0) /\ Passed(f, 0)
    BY <2>2, EnumeratesNone DEF Passed
  <2>4. PICK k \in 1 .. Len(Chain[f]), s \in 0 .. Size : k = 1 /\ s = 0
    BY <2>2
  <2>5. (k - 1) * Size + s = 0 /\ s < Size
    BY <2>2, <2>4
  <2>6. AtSlot(d, k, s)'
    BY <1>2, <2>1, <2>2, <2>4, <2>5 DEF AtSlot, Listing
  <2>7. DirPlace(d)'
    BY <2>1, <2>4, <2>6 DEF DirPlace
  <2> QED
    BY <1>2, <2>1, <2>2, <2>3, <2>7 DEF DirListed, Ended, Listing
<1>5. \/ dir'[d] = dir[d] /\ listed'[d] = listed[d] /\ (d \in tainted => d \in tainted')
      \/ d = who /\ op = "opendir" /\ call.node.dir
  <2>1. op = "open" => who \notin Dirs
    BY SizeAssumption DEF Typed, Steps
  <2> QED
    BY <1>1, <2>1 DEF Opened, Lookups
<1> QED
  BY <1>3, <1>4, <1>5

(* The steps of a call that are not of a listing of d leave d.             *)
LEMMA ListOthers ==
  ASSUME Typed, ListInv, NEW d \in Dirs, dir'[d] = dir[d], listed'[d] = listed[d],
         d \in tainted => d \in tainted', op' = op, who' = who, ~Listing(d)
  PROVE  DirListed(d)'
<1>1. ~Moving(d) /\ ~Moving(d)' /\ ~Ended(d)'
  BY DEF Moving, Listing, Ended
<1> QED
  BY <1>1, DirKept DEF ListInv

LEMMA ListFetched ==
  ASSUME Typed, CacheHeld, ListInv, FetchCached \/ FetchStored \/ FetchFails \/ FetchEnds,
         NEW d \in Dirs
  PROVE  DirListed(d)'
<1>1. listed' = listed /\ tainted \subseteq tainted'
  BY DEF FetchCached, FetchStored, FetchFails, FetchEnds, Astray
<1>2. Fetching
  BY DEF FetchCached, FetchStored, FetchFails, FetchEnds, Fetching
<1>3. PICK n \in Word : MoveCursor(n)
  BY <1>2, WantedWord, LinkedWord DEF FetchCached, FetchStored, FetchFails, FetchEnds
<1>4. op' = op /\ who' = who
  <2>1. CASE FetchFails \/ FetchEnds
    <3>1. call' = [call EXCEPT !.pc = "idle"]
      BY <2>1 DEF FetchFails, FetchEnds, FetchReturns, Return
    <3> QED
      BY <3>1, ReturnType
  <2>2. CASE FetchCached \/ FetchStored
    <3>1. PICK m \in Wanted, held \in BOOLEAN : Serves(m, held)
      BY <2>2, ServedFetch
    <3>2. m \in Word /\ Fetched(m, held)
      BY <1>2, <3>1, WantedWord DEF Serves
    <3> QED
      BY <1>2, <3>2, FetchedType
  <2> QED
    BY <2>1, <2>2
<1>5. CASE ~Listing(d)
  <2>1. dir'[d] = dir[d]
    BY <1>3, <1>5, MovedDir DEF Listing
  <2> QED
    BY <1>1, <1>4, <1>5, <2>1, ListOthers
<1>6. CASE Listing(d)
  <2>1. /\ op = "readdir" /\ who = d /\ dir'[d].open = dir[d].open
        /\ dir'[d].node = dir[d].node
    BY <1>3, <1>6, MovedDir DEF Listing
  <2>2. CASE d \notin tainted' /\ Followed(d)
    <3>1. DirListed(who)'
      BY <1>1, <2>1, <2>2, ListFetch, ListFetchFails, ListFetchEnds
    <3> QED
      BY <1>4, <2>1, <3>1
  <2>3. CASE ~(d \notin tainted' /\ Followed(d))
    <3>1. ~Followed(d)'
      BY <1>1, <2>1, <2>3 DEF Followed
    <3> QED
      BY <3>1 DEF DirListed
  <2> QED
    BY <2>2, <2>3
<1> QED
  BY <1>5, <1>6

LEMMA ListScanned ==
  ASSUME Typed, ListInv, Scan, NEW d \in Dirs
  PROVE  DirListed(d)'
<1>1. pc = "scan" /\ tainted' = tainted /\ op' = op /\ who' = who
  <2>1. CASE ScanClusterEnds
    BY <2>1 DEF ScanClusterEnds, Typed, Frame, Fields, op, who
  <2>2. CASE ScanEnds \/ ScanLists
    <3>1. pc = "scan" /\ tainted' = tainted /\ call' = [call EXCEPT !.pc = "idle"]
      BY <2>2 DEF ScanEnds, ScanLists, Scanning, Return
    <3> QED
      BY <3>1, ReturnType
  <2>3. CASE ScanSkips
    <3> DEFINE stray == call.stray /\ Entry.kind = "deleted"
    <3>1. /\ pc = "scan" /\ tainted' = tainted
          /\ call' = [call EXCEPT !.slot = @ + 1, !.stray = stray]
      BY <2>3 DEF ScanSkips, Scanning, Typed, Frame, Fields
    <3> HIDE DEF stray
    <3> QED
      BY <3>1 DEF Typed, Frame, Fields, op, who
  <2>4. CASE ScanFinds
    <3>1. PICK n : n = Entry.node
      OBVIOUS
    <3>2. /\ pc = "scan" /\ tainted' = tainted
          /\ call' = [call EXCEPT !.pc = "resolve", !.node = n, !.path = Tail(@)]
      BY <2>4, <3>1 DEF ScanFinds, Scanning
    <3> QED
      BY <3>2 DEF Typed, Frame, Fields, op, who
  <2>5. CASE ScanLongName
    <3> DEFINE stray == op # "readdir"
               sure == call.sure /\ op = "readdir"
    <3>1. /\ pc = "scan" /\ tainted' = tainted
          /\ \/ call' = [call EXCEPT !.pc = "idle"]
             \/ call' = [call EXCEPT !.slot = @ + 1, !.stray = stray, !.sure = sure]
      BY <2>5 DEF ScanLongName, Scanning, Return, Typed, Frame, Fields
    <3> HIDE DEF stray, sure
    <3> QED
      BY <3>1 DEF Typed, Frame, Fields, op, who
  <2> QED
    BY <2>1, <2>2, <2>3, <2>4, <2>5 DEF Scan
<1>2. /\ ~Listing(d) => dir'[d] = dir[d] /\ listed'[d] = listed[d]
      /\ dir'[d].open = dir[d].open /\ dir'[d].node = dir[d].node
  <2>1. \/ dir' = dir
        \/ op = "readdir" /\ dir' = [dir EXCEPT ![who].idx = (@ + 1) % U32]
        \/ op = "readdir" /\ dir' = [dir EXCEPT ![who].cnt = dir[who].idx]
    BY DEF Scan, ScanClusterEnds, ScanEnds, ScanSkips, ScanFinds, ScanLists, ScanLongName,
           CountEntry
  <2>2. \/ listed' = listed
        \/ op = "readdir" /\ listed' = [listed EXCEPT ![who] = Append(@, cache.data[call.slot])]
    BY DEF Scan, ScanClusterEnds, ScanEnds, ScanSkips, ScanFinds, ScanLists, ScanLongName
  <2>3. dir \in [Dirs -> DirCursor] /\ listed \in [Dirs -> Seq(Place)]
    BY DEF Typed, Cursors, ListInv, Lists
  <2>4. ~Listing(d) => dir'[d] = dir[d] /\ listed'[d] = listed[d]
    BY <2>1, <2>2, <2>3 DEF Listing
  <2>5. /\ dir'[d].open = dir[d].open
        /\ dir'[d].node = dir[d].node
    BY <2>1, <2>3 DEF DirCursor
  <2> QED
    BY <2>4, <2>5
<1>3. CASE ~Listing(d)
  BY <1>1, <1>2, <1>3, ListOthers
<1>4. CASE Listing(d)
  <2>1. op = "readdir" /\ who = d
    BY <1>4 DEF Listing
  <2>2. CASE Followed(d)
    <3>1. DirListed(who)'
      BY <2>1, <2>2, ListClusterEnds, ListScanEnds, ListScanOn DEF Scan, ScanFinds
    <3> QED
      BY <1>1, <2>1, <3>1
  <2>3. CASE ~Followed(d)
    <3>1. ~Followed(d)'
      BY <1>1, <1>2, <2>3 DEF Followed
    <3> QED
      BY <3>1 DEF DirListed
  <2> QED
    BY <2>2, <2>3
<1> QED
  BY <1>3, <1>4

LEMMA ListStartReadDir ==
  ASSUME Typed, ListInv, StartReadDir, NEW d \in Dirs
  PROVE  DirListed(d)'
<1>1. pc = "idle" /\ dir' = dir /\ listed' = listed /\ tainted' = tainted
  BY DEF StartReadDir, Ready
<1>2. PICK e \in Dirs :
        LET frame == [NoCall EXCEPT !.op = "readdir", !.who = e]
            ended == dir[e].cnt > 0 /\ dir[e].cnt = dir[e].idx
        IN \/ ended /\ call' = frame
           \/ ~ended /\ call' = [frame EXCEPT !.pc = "fetch"]
  BY DEF StartReadDir
<1>3. /\ who' = e
      /\ \/ pc' = "fetch"
         \/ pc' = "idle" /\ dir[e].cnt > 0 /\ dir[e].cnt = dir[e].idx
  BY <1>2 DEF NoCall, pc, who
<1>4. ~Moving(d) /\ ~Moving(d)'
  BY <1>1, <1>3 DEF Moving
<1>5. ASSUME Ended(d)', Followed(d)
      PROVE  EndsAt(dir[d].node.first, dir[d].idx)
  <2>1. d = e /\ dir[d].cnt > 0 /\ dir[d].cnt = dir[d].idx
    BY <1>3, <1>5 DEF Ended, Listing
  <2>2. dir[d].cnt # -1
    BY <2>1
  <2> QED
    BY <1>5, <2>1, <2>2 DEF ListInv, DirListed
<1> QED
  BY <1>1, <1>4, <1>5, DirKept DEF ListInv

LEMMA ListsNext ==
  ASSUME Typed, ListInv, [Next]_vars
  PROVE  Lists'
<1>1. listed \in [Dirs -> Seq(Place)]
  BY DEF ListInv, Lists
<1>2. CASE listed' = listed
  BY <1>1, <1>2 DEF Lists
<1>3. CASE Unmount \/ Opened
  <2>1. <<>> \in Seq(Place)
    BY EmptySeq
  <2>2. \/ listed' = [h \in Dirs |-> <<>>]
        \/ listed' = [listed EXCEPT ![who] = <<>>] \/ listed' = listed
    BY <1>3 DEF Unmount, Opened
  <2> QED
    BY <1>1, <2>1, <2>2 DEF Lists
<1>4. CASE ScanLists
  <2>1. /\ listed' = [listed EXCEPT ![who] = Append(@, cache.data[call.slot])]
        /\ call.slot \in Slots /\ who \in Dirs
    BY <1>4, Constants DEF ScanLists, Scanning, Typed, Frame, Slots, Steps
  <2>2. PICK x \in Place : x = cache.data[call.slot]
    BY <2>1 DEF Typed, Cached, Buffer
  <2>3. Append(listed[who], x) \in Seq(Place)
    <3>1. listed[who] \in Seq(Place)
      BY <1>1, <2>1
    <3> QED
      BY <3>1, AppendProperties
  <2> QED
    BY <1>1, <2>1, <2>2, <2>3 DEF Lists
<1> QED
  BY <1>2, <1>3, <1>4
     DEF Next, vars, Mount, Start, StartOpen, Seek, StartRead, StartReadDir, Step, ResolveName,
         Fetch, FetchEnds, FetchCached, FetchStored, FetchFails, Copy, Scan, ScanClusterEnds,
         ScanEnds, ScanSkips, ScanFinds, ScanLongName

LEMMA ListNext ==
  ASSUME FatInv, ListInv, [Next]_vars
  PROVE  ListInv'
<1>1. Typed /\ CacheHeld
  BY DEF FatInv
<1>2. SUFFICES ASSUME NEW d \in Dirs
               PROVE  DirListed(d)'
  BY <1>1, ListsNext DEF ListInv
<1>3. CASE UNCHANGED vars
  BY <1>3 DEF vars, ListInv, DirListed, Followed, DirPlace, AtSlot, OffChain, Moving, Listing,
              Ended, pc, op, who
<1>4. CASE Mount
  <2>1. /\ dir' = dir /\ listed' = listed /\ tainted' = tainted
        /\ pc' = pc /\ op' = op /\ who' = who /\ result' = result /\ pc = "idle"
    BY <1>1, <1>4 DEF Mount, Typed, Steps, pc, op, who
  <2>2. ~Moving(d) /\ ~Moving(d)' /\ (Ended(d)' => Ended(d))
    BY <2>1 DEF Moving, Listing, Ended
  <2> QED
    BY <2>1, <2>2, DirKept DEF ListInv
<1>5. CASE Unmount
  <2>1. ~dir'[d].open
    BY <1>5 DEF Unmount, ClosedDir
  <2> QED
    BY <2>1 DEF DirListed, Followed
<1>6. CASE StartOpen \/ Seek \/ StartRead \/ ResolveName \/ Copy
  <2>1. dir' = dir /\ listed' = listed /\ (d \in tainted => d \in tainted')
    BY <1>6, SizeAssumption
       DEF StartOpen, Seek, SeekTo, StartRead, ResolveName, Copy
  <2>2. pc \in {"idle", "resolve", "copy"} /\ op' # "readdir"
    <3>1. CASE StartOpen \/ Seek \/ StartRead
      <4>1. pc = "idle"
        BY <3>1 DEF StartOpen, Seek, StartRead, Ready
      <4>2. CASE StartOpen
        BY <4>1, <4>2, NoCallType DEF StartOpen, Frame, Fields, op
      <4>3. CASE Seek
        BY <4>1, <4>3, NoCallType DEF Seek, Frame, Fields, op
      <4>4. CASE StartRead
        BY <4>1, <4>4, NoCallType DEF StartRead, Frame, Fields, op
      <4> QED
        BY <3>1, <4>1, <4>2, <4>3, <4>4
    <3>2. CASE ResolveName
      BY <1>1, <3>2 DEF ResolveName, Return, Typed, Steps, Frame, Fields, Lookups, pc, op
    <3>3. CASE Copy
      BY <1>1, <3>3, CopyRange, CopyType DEF Copy, Typed, Steps
    <3> QED
      BY <1>6, <3>1, <3>2, <3>3
  <2>3. ~Moving(d) /\ ~Moving(d)' /\ ~Ended(d)'
    BY <2>2 DEF Moving, Listing, Ended
  <2> QED
    BY <2>1, <2>3, DirKept DEF ListInv
<1> QED
  BY <1>1, <1>3, <1>4, <1>5, <1>6, ListStartReadDir, ListOpened, ListFetched, ListScanned
     DEF Next, Start, Step, Fetch

LEMMA ListInit ==
  ASSUME Init
  PROVE  ListInv
<1>1. Lists
  BY EmptySeq DEF Init, Lists
<1>2. \A d \in Dirs : ~dir[d].open
  BY DEF Init, ClosedDir
<1> QED
  BY <1>1, <1>2 DEF ListInv, DirListed, Followed

-----------------------------------------------------------------------------
(* The theorems.                                                           *)

(* Between two calls the cluster of a cursor is the one its offset is in,  *)
(* whatever failed before and whoever moved the cache that all files and   *)
(* directories share (fetch_next_cluster, fat_read).                       *)
THEOREM CursorTheorem == Spec => []CursorOnChain
<1>1. FatInv => CursorOnChain
  <2> SUFFICES ASSUME FatInv PROVE CursorOnChain
    OBVIOUS
  <2>1. TypeOK
    BY TypesOK DEF FatInv
  <2>2. ASSUME pc = "idle", NEW h \in Files \ tainted
        PROVE  ~Crossing(h)
    BY <2>2 DEF Crossing
  <2> QED
    BY <2>1, <2>2 DEF FatInv, OnChain, CursorOnChain
<1> QED
  BY <1>1, InvAlways, PTL

(* A read returns what the chain of its file holds from the old offset to  *)
(* the new one, with other files and directories read in between, and      *)
(* after reads that failed (fat_read, qfs_read).                           *)
THEOREM ReadTheorem == Spec => []ReadExact
<1>1. FatInv => ReadExact
  BY DEF FatInv, Typed, InFile, Returned, ReadExact, IsRead
<1> QED
  BY <1>1, InvAlways, PTL


(* qfs_open and qfs_opendir reach the node that the path names, found name *)
(* by name in directories of any number of clusters, and report that there *)
(* is none only if there is none (fat_lookup, iterate_fat_dir).            *)
THEOREM OpenTheorem == Spec => []OpenExact
<1>1. Init => Looked
  BY NoCallType DEF Init, Looked, Lookups, op
<1>2. FatInv /\ Looked /\ [Next]_vars => Looked'
  BY LookedNext
<1>3. Looked => OpenExact
  BY DEF Looked, OpenExact, Lookups
<1> QED
  BY <1>1, <1>2, <1>3, InvAlways, PTL DEF Spec

(* A listing returns the entries of its directory one by one in their      *)
(* order, and reports the end after the last, whatever else is read        *)
(* between two calls and wherever a fetch fails, on every volume and for   *)
(* each of its directories no cluster of which ends with an entry that is  *)
(* returned (fat_readdir, iterate_fat_dir).                                *)
THEOREM ListedTheorem == Spec => []ListedOnce
<1>1. ASSUME ListInv, NEW d \in Dirs, Followed(d)
      PROVE  LET first == dir[d].node.first
                 live == LivePositions(first)
             IN /\ \A i \in DOMAIN listed[d] :
                     \E n \in live : /\ listed[d][i] = Spot(first, n)
                                     /\ Cardinality({m \in live : m < n}) = i - 1
                /\ Ended(d) => Len(listed[d]) = Cardinality(live)
  <2> DEFINE f == dir[d].node.first
  <2>1. /\ Enumerates(listed[d], f, dir[d].idx) /\ f \in DOMAIN Chain
        /\ Ended(d) => EndsAt(f, dir[d].idx)
        /\ listed[d] \in Seq(Place) /\ DirPlace(d)
    BY <1>1 DEF ListInv, Lists, DirListed, Followed, Listable
  <2>2. DOMAIN listed[d] = 1 .. Len(listed[d])
    BY <2>1, LenProperties
  <2>3. dir[d].idx \in Nat
    <3>1. Size \in Nat \ {0} /\ Len(Chain[f]) \in Nat \ {0}
      BY <2>1, ChainType, Constants
    <3>2. ASSUME NEW k \in 1 .. Len(Chain[f]), NEW s \in 0 .. Size, AtSlot(d, k, s)
          PROVE  dir[d].idx \in Nat
      <4>1. (k - 1) * Size \in Nat /\ s \in Nat
        BY <3>1, ProductsOrdered DEF ProductOrder
      <4> QED
        BY <3>2, <4>1 DEF AtSlot
    <3>3. Len(Chain[f]) * Size \in Nat
      BY <3>1
    <3> QED
      BY <2>1, <3>2, <3>3 DEF DirPlace, OffChain
  <2>4. ASSUME Ended(d)
        PROVE  Len(listed[d]) = Cardinality(LivePositions(f))
    <3>1. LiveBefore(f, dir[d].idx) = LivePositions(f)
      BY <2>1, <2>3, <2>4, LiveBeforeEnd DEF LiveBefore
    <3> QED
      BY <2>1, <3>1 DEF Enumerates
  <2> QED
    BY <2>1, <2>2, <2>4 DEF Enumerates, LiveBefore
<1>2. ListInv => ListedOnce
  BY <1>1 DEF ListedOnce, Ended, Listing, Followed
<1>3. Init => ListInv
  BY ListInit
<1>4. FatInv /\ ListInv /\ [Next]_vars => ListInv'
  BY ListNext
<1> QED
  BY <1>2, <1>3, <1>4, InvAlways, PTL DEF Spec

=============================================================================
