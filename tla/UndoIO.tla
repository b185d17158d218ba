-------------------------------- MODULE UndoIO --------------------------------
(*****************************************************************************)
(* The undo I/O manager (lib/ext2fs/undo_io.c) and e2undo (misc/e2undo.c).   *)
(*                                                                           *)
(* A tool writes to a device through an undo channel.  Before a block is     *)
(* overwritten for the first time its old contents go to the undo file,      *)
(* under a key that says where they belong.  Several tools may use the same  *)
(* undo file one after another; e2undo then writes everything back.          *)
(*                                                                           *)
(* Sizes are counted in blocks of the file system.  A block of the undo file *)
(* holds Ratio of them (tdb_data_size).  Block 0 holds the superblock.       *)
(*****************************************************************************)
EXTENDS Integers, Sequences, FiniteSets, SequencesExt

CONSTANTS
  UndoValues,     \* what a block may hold
  OldDevice,      \* the device when the first tool starts, a sequence of values
  ToolValue,      \* what the n-th tool writes, a sequence of values
  NewSize,        \* size it may grow to (an image file)
  Ratio,          \* file system blocks per block of the undo file
  KeysPerBlock,   \* KEYS_PER_BLOCK
  MaxExtent,      \* E2UNDO_MAX_EXTENT_BLOCKS
  FsOffset,       \* the offset option, in blocks; a multiple of Ratio
  SuperFlushes,   \* reading the superblock changes the block size of the channel
  UndoFileFails,  \* writes to the undo file may fail
  ReopenFull,     \* an undo file whose last key block is full may be reopened
  MaxCount,       \* bound: blocks in a call
  MaxUndoWrites,  \* bound: calls that write, over all tools
  MaxTools        \* bound: tools that use the undo file

VARIABLES
  dev,       \* the device, a sequence of blocks
  dirty,     \* blocks the cache of the backing channel has not yet written
  ufile,     \* the undo file: header, superblock copy, blocks
  data,      \* struct undo_private_data of the open channel
  ucall,     \* the call in progress
  e2undo,    \* the state of e2undo
  failed,    \* history: whether a write to the undo file failed, and when
  used       \* counters behind the bounds

undoVars == <<dev, dirty, ufile, data, ucall, e2undo, failed, used>>

UndoIOAssumption ==
  /\ OldDevice \in Seq(UndoValues) /\ NewSize \in Nat /\ Len(OldDevice) \in 1 .. NewSize
  /\ Ratio \in Nat \ {0} /\ KeysPerBlock \in Nat \ {0} /\ MaxExtent \in Nat
  /\ FsOffset \in Nat /\ FsOffset % Ratio = 0
  /\ {SuperFlushes, UndoFileFails, ReopenFull} \subseteq BOOLEAN
ASSUME UndoIOConstants == UndoIOAssumption

Absent == "absent"     \* no such block: past the end of the device or file
Zeroed == "zeroes"

\* What the backing channel reads: its cache first.
Real(b) == IF b \in DOMAIN dirty THEN dirty[b]
           ELSE IF b < Len(dev) THEN dev[b + 1] ELSE Absent

\* A device after some blocks are written; a hole in a file reads as zeroes.
Written(d, w) ==
  LET size == Max({Len(d)} \cup {b + 1 : b \in DOMAIN w})
  IN  [i \in 1 .. size |-> IF i - 1 \in DOMAIN w THEN w[i - 1]
                           ELSE IF i <= Len(d) THEN d[i] ELSE Zeroed]

NoBlocks == [b \in {} |-> Zeroed]
WrittenOver(f, g) == [x \in DOMAIN f \cup DOMAIN g |-> IF x \in DOMAIN g THEN g[x] ELSE f[x]]

CeilDiv(n, m) == (n + m - 1) \div m
UndoBlocks(key) == CeilDiv(key.size, Ratio)

\* The block of the undo file where the data of key j of a key block starts.
DataStart(keys, first, j) ==
  FoldLeft(LAMBDA l, k : l + UndoBlocks(k), first, SubSeq(keys, 1, j - 1))

\* The file system blocks read back for a key; too few when the file is short.
ReadData(blk, start, size) ==
  LET run == FoldLeft(LAMBDA acc, i : IF i \in DOMAIN blk /\ blk[i].kind = "data"
                                      THEN acc \o blk[i].vals ELSE acc,
                      <<>>, [i \in 1 .. CeilDiv(size, Ratio) |-> start + i - 1])
  IN  SubSeq(run, 1, IF Len(run) < size THEN Len(run) ELSE size)

------------------------------------------------------------------------------
(* The undo file *)

NoHeader == [magic |-> FALSE, num_keys |-> 0, finished |-> FALSE, sb_crc |-> Absent,
             sized |-> FALSE]
NoFile == [hdr |-> NoHeader, super |-> Absent, blk |-> NoBlocks]

\* undo_open: the private data before the file is looked at.
FreshData == [open |-> TRUE, tdb_written |-> FALSE, undo_blk_num |-> 3, key_blk_num |-> 2,
              keyb |-> <<>>, num_keys |-> 0, map |-> {}, finished |-> FALSE]
ClosedData == [FreshData EXCEPT !.open = FALSE]

ZeroBlock == [kind |-> "none", keys |-> <<>>, vals |-> <<>>]

NoUndoCall == [op |-> "none"]

\* What is written of the key block: keys past its end are not.
KeyBlock(keys) ==
  [kind |-> "key", vals |-> <<>>,
   keys |-> SubSeq(keys, 1, IF Len(keys) > KeysPerBlock THEN KeysPerBlock ELSE Len(keys))]


\* write_undo_indexes, up to the step that fails: it returns the private data,
\* the undo file, and what the change of block size flushed from the cache.
write_undo_indexes(d, f, upto) ==
  LET key  == IF d.keyb = <<>> \/ upto = "key" THEN f
              ELSE [f EXCEPT !.blk = WrittenOver(@, [x \in {d.key_blk_num} |-> KeyBlock(d.keyb)])]
      full == upto # "key" /\ Len(d.keyb) = KeysPerBlock
      next == IF full THEN [d EXCEPT !.keyb = <<>>, !.key_blk_num = d.undo_blk_num,
                                     !.undo_blk_num = @ + 1]
              ELSE d
      head == IF upto \in {"key", "header"} THEN key
              ELSE [key EXCEPT !.hdr = [magic |-> TRUE, num_keys |-> d.num_keys, finished |-> d.finished,
                                        sb_crc |-> Real(0), sized |-> d.tdb_written]]
      sup  == IF upto \in {"key", "header", "super"} THEN head ELSE [head EXCEPT !.super = Real(0)]
  IN  [d |-> next, f |-> sup, flushed |-> SuperFlushes /\ upto # "key"]

Failures == IF UndoFileFails THEN {"none", "key", "header", "super"} ELSE {"none"}

FlushReal(yes) ==
  /\ dev' = IF yes THEN Written(dev, dirty) ELSE dev
  /\ dirty' = IF yes THEN NoBlocks ELSE dirty

------------------------------------------------------------------------------
(* Opening, closing and exiting *)

\* undo_open on an empty file.
undo_open ==
  /\ ~data.open /\ e2undo.pc = "off" /\ ufile = NoFile /\ used.tools < MaxTools
  /\ data' = FreshData
  /\ used' = [used EXCEPT !.tools = @ + 1]
  /\ UNCHANGED <<dev, dirty, ufile, ucall, e2undo, failed>>

\* try_reopen_undo_file up to its loop: the superblock has to be the recorded one,
\* else the tool cannot use the file.
try_reopen_undo_file ==
  /\ ~data.open /\ e2undo.pc = "off" /\ ufile.hdr.magic /\ used.tools < MaxTools
  /\ ReopenFull \/ ufile.hdr.num_keys % KeysPerBlock # 0
  /\ ufile.hdr.sized
  /\ ufile.super = Real(0) /\ ufile.hdr.sb_crc = Real(0)
  /\ data' = [FreshData EXCEPT !.tdb_written = TRUE, !.num_keys = ufile.hdr.num_keys]
  /\ ucall' = [op |-> "reopen", i |-> 0, lblk |-> 2]
  /\ used' = [used EXCEPT !.tools = @ + 1]
  /\ UNCHANGED <<dev, dirty, ufile, e2undo, failed>>

\* One key block of the loop: its keys mark the written_block_map.
ReopenKeyBlock ==
  /\ ucall.op = "reopen" /\ ucall.i < data.num_keys
  /\ LET kb   == IF ucall.lblk \in DOMAIN ufile.blk THEN ufile.blk[ucall.lblk]
                 ELSE ZeroBlock
         max  == Min({data.num_keys - ucall.i, KeysPerBlock})
         keys == SubSeq(kb.keys, 1, max)
         end  == DataStart(keys, ucall.lblk + 1, max + 1)
     IN  IF kb.kind # "key" \/ Len(kb.keys) < max
         THEN /\ data' = ClosedData                \* bad_key_replay
              /\ ucall' = NoUndoCall
         ELSE /\ data' = [data EXCEPT
                    !.key_blk_num = ucall.lblk, !.undo_blk_num = end, !.keyb = keys,
                    !.map = @ \cup UNION {{ (keys[j].fsblk \div Ratio) + x :
                                x \in 0 .. UndoBlocks(keys[j]) - 1} : j \in 1 .. max}]
              /\ ucall' = [ucall EXCEPT !.i = @ + KeysPerBlock, !.lblk = end]
  /\ UNCHANGED <<dev, dirty, ufile, e2undo, failed, used>>

ReopenDone ==
  /\ ucall.op = "reopen" /\ ucall.i >= data.num_keys
  /\ ucall' = NoUndoCall
  /\ UNCHANGED <<dev, dirty, ufile, data, e2undo, failed, used>>

Idle == data.open /\ ucall.op = "none"

\* undo_close: the header says "finished", and both channels are closed.
undo_close(fail) ==
  /\ Idle
  /\ ufile' = write_undo_indexes([data EXCEPT !.finished = TRUE], ufile, fail).f
  /\ FlushReal(TRUE)
  /\ data' = ClosedData
  /\ failed' = IF fail = "none" THEN failed ELSE "close"
  /\ UNCHANGED <<ucall, e2undo, used>>

\* undo_atexit: the tool exits without closing.  What the cache of the backing
\* channel still holds is lost.
undo_atexit(fail) ==
  /\ Idle
  /\ LET r == write_undo_indexes(data, ufile, fail)
     IN  /\ ufile' = r.f
         /\ dev' = IF r.flushed THEN Written(dev, dirty) ELSE dev
  /\ dirty' = NoBlocks
  /\ data' = ClosedData
  /\ failed' = IF fail = "none" THEN failed ELSE "close"
  /\ UNCHANGED <<ucall, e2undo, used>>

\* undo_flush
undo_flush ==
  /\ Idle /\ dirty # NoBlocks
  /\ FlushReal(TRUE)
  /\ UNCHANGED <<ufile, data, ucall, e2undo, failed, used>>

------------------------------------------------------------------------------
(* Writing *)

\* The operations of a tool: write_blk64, zeroout and discard name blocks,
\* write_byte bytes, here the bytes of one block.  A discard is a zeroout whose result
\* nobody reads.
UndoOps == {"write", "byte", "zeroout"}

\* undo_write_tdb up to its loop, and undo_setup_tdb: the range in blocks of the
\* undo file.  undo_write_byte adds the offset before undo_write_tdb does.
StartWrite(op, b, n, v) ==
  /\ Idle /\ used.writes < MaxUndoWrites
  /\ op = "byte" => n = 1
  /\ LET block == IF op = "byte" THEN b + FsOffset ELSE b
     IN  ucall' = [op |-> op, b |-> b, n |-> n, v |-> v,
                   t |-> (block + FsOffset) \div Ratio,
                   end |-> (block + FsOffset + n - 1) \div Ratio]
  /\ data' = [data EXCEPT !.tdb_written = TRUE]
  /\ ufile' = IF data.tdb_written THEN ufile
              ELSE [ufile EXCEPT !.blk = WrittenOver(@, [x \in {2} |-> ZeroBlock])]
  /\ used' = [used EXCEPT !.writes = @ + 1]
  /\ UNCHANGED <<dev, dirty, e2undo, failed>>

Saving == ucall.op \in UndoOps /\ ucall.t <= ucall.end

\* undo_write_tdb, a block that was saved before.
SkipSaved ==
  /\ Saving /\ ucall.t \in data.map
  /\ ucall' = [ucall EXCEPT !.t = @ + 1]
  /\ UNCHANGED <<dev, dirty, ufile, data, e2undo, failed, used>>

Backing(t) == t * Ratio - FsOffset

\* The old contents; a read that meets the end of the device is short.
OldContents(t) ==
  LET present == {n \in 0 .. Ratio : \A i \in 0 .. n - 1 : Real(Backing(t) + i) # Absent}
  IN  [i \in 1 .. Max(present) |-> Real(Backing(t) + i - 1)]

\* Mutant: the last key grows although other blocks lie in between.
AddKeyMerged(d, t, vals) ==
  LET last == d.keyb[Len(d.keyb)]
  IN  IF d.keyb # <<>> /\ last.fsblk < Backing(t)
      THEN [d EXCEPT !.keyb[Len(d.keyb)] = [last EXCEPT !.size = @ + Len(vals),
                                                        !.crc = @ \o vals]]
      ELSE [d EXCEPT !.num_keys = @ + 1,
                     !.keyb = Append(@, [fsblk |-> Backing(t), size |-> Len(vals),
                                         crc |-> vals])]

\* The key for the data: the last key of the block grows, or a new one is added.
AddKey(d, t, vals) ==
  LET last == d.keyb[Len(d.keyb)]
  IN  IF /\ d.keyb # <<>>
         /\ last.fsblk + last.size = Backing(t)
         /\ MaxExtent * Ratio > last.size + Len(vals)
      THEN [d EXCEPT !.keyb[Len(d.keyb)] = [last EXCEPT !.size = @ + Len(vals),
                                                        !.crc = @ \o vals]]
      ELSE [d EXCEPT !.num_keys = @ + 1,
                     !.keyb = Append(@, [fsblk |-> Backing(t), size |-> Len(vals),
                                         crc |-> vals])]

\* undo_write_tdb, a block to save: read, add the key, write the data, write the
\* indexes.  The block counts as saved from the start; an error ends the call.
SaveBlock(fail) ==
  /\ Saving /\ ucall.t \notin data.map
  /\ LET vals == OldContents(ucall.t)
         d1   == [data EXCEPT !.map = @ \cup {ucall.t}]
         d2   == AddKey(d1, ucall.t, vals)
         f2   == [ufile EXCEPT !.blk = WrittenOver(@, [x \in {data.undo_blk_num} |->
                                    [kind |-> "data", keys |-> <<>>, vals |-> vals]])]
         r    == write_undo_indexes([d2 EXCEPT !.undo_blk_num = @ + 1], f2, fail)
     IN  \/ /\ vals = <<>> /\ fail = "none"
            /\ data' = d1 /\ ucall' = [ucall EXCEPT !.t = @ + 1]
            /\ UNCHANGED <<dev, dirty, ufile>>
         \/ /\ vals # <<>> /\ fail = "data"
            /\ data' = d2 /\ ucall' = NoUndoCall
            /\ UNCHANGED <<dev, dirty, ufile>>
         \/ /\ vals # <<>> /\ fail \in {"none", "key", "header", "super"}
            /\ data' = r.d /\ ufile' = r.f
            /\ FlushReal(r.flushed)
            /\ ucall' = IF fail = "none" THEN [ucall EXCEPT !.t = @ + 1] ELSE NoUndoCall
  /\ failed' = IF fail = "none" \/ failed = "close" THEN failed ELSE "save"
  /\ UNCHANGED <<e2undo, used>>

\* The write itself, once everything is saved: the backing channel keeps it in its
\* cache or writes it at once; zeroout and discard go past the cache.
WriteReal(through) ==
  /\ ucall.op \in UndoOps /\ ucall.t > ucall.end
  /\ LET w == [x \in ucall.b .. ucall.b + ucall.n - 1 |-> ucall.v]
     IN  IF ucall.op = "zeroout"
         THEN /\ ~through /\ dev' = Written(dev, w)
              /\ UNCHANGED dirty
         ELSE IF through
         THEN /\ dev' = Written(dev, w)
              /\ dirty' = [x \in DOMAIN dirty \ DOMAIN w |-> dirty[x]]
         ELSE /\ dirty' = WrittenOver(dirty, w)
              /\ UNCHANGED dev
  /\ ucall' = NoUndoCall
  /\ UNCHANGED <<ufile, data, e2undo, failed, used>>

------------------------------------------------------------------------------
(* e2undo *)

E2undoOff == [pc |-> "off", force |-> FALSE, i |-> 0, lblk |-> 2, keys |-> {}]

\* main up to the keys: the header, and check_filesystem unless -f is given.  A
\* replay that was interrupted may have written the superblock: only -f repeats it.
E2undoStart ==
  /\ ~data.open /\ e2undo.pc \in {"off", "stopped"} /\ ufile.hdr.magic
  /\ LET force == e2undo.pc = "stopped"
     IN  e2undo' = [E2undoOff EXCEPT !.force = force,
           !.pc = IF /\ ufile.hdr.sized
                     /\ force \/ (ufile.super = Real(0) /\ ufile.hdr.sb_crc = Real(0))
                  THEN "load" ELSE "refused"]
  /\ UNCHANGED <<dev, dirty, ufile, data, ucall, failed, used>>

\* One key block of the loop that loads the keys and checks the data they name.
LoadKeyBlock ==
  /\ e2undo.pc = "load" /\ e2undo.i < ufile.hdr.num_keys
  /\ LET kb    == IF e2undo.lblk \in DOMAIN ufile.blk THEN ufile.blk[e2undo.lblk]
                  ELSE ZeroBlock
         max   == Min({ufile.hdr.num_keys - e2undo.i, KeysPerBlock})
         keys  == SubSeq(kb.keys, 1, max)
         first == e2undo.lblk + 1
         Sound(j) == ReadData(ufile.blk, DataStart(keys, first, j), keys[j].size) = keys[j].crc
     IN  IF kb.kind # "key" \/ Len(kb.keys) < max \/ \E j \in 1 .. max : ~Sound(j)
         THEN e2undo' = [e2undo EXCEPT !.pc = "refused"]
         ELSE e2undo' = [e2undo EXCEPT
                 !.i = @ + KeysPerBlock, !.lblk = DataStart(keys, first, max + 1),
                 !.keys = @ \cup {[fsblk |-> keys[j].fsblk, size |-> keys[j].size,
                                  fileblk |-> DataStart(keys, first, j)] : j \in 1 .. max}]
  /\ UNCHANGED <<dev, dirty, ufile, data, ucall, failed, used>>

LoadDone ==
  /\ e2undo.pc = "load" /\ e2undo.i >= ufile.hdr.num_keys
  /\ e2undo' = [e2undo EXCEPT !.pc = "replay"]
  /\ UNCHANGED <<dev, dirty, ufile, data, ucall, failed, used>>

\* The replay loop: the keys in the order of the blocks of the file system.
ReplayKey ==
  /\ e2undo.pc = "replay" /\ e2undo.keys # {}
  /\ \E k \in e2undo.keys :
       /\ \A o \in e2undo.keys : k.fsblk <= o.fsblk
       /\ LET vals == ReadData(ufile.blk, k.fileblk, k.size)
          IN  dev' = Written(dev, [b \in k.fsblk .. k.fsblk + k.size - 1 |-> vals[b - k.fsblk + 1]])
       /\ e2undo' = [e2undo EXCEPT !.keys = @ \ {k}]
  /\ UNCHANGED <<dirty, ufile, data, ucall, failed, used>>

\* The end of main: an incomplete file, or -f, asks for a check by e2fsck.
E2undoDone ==
  /\ e2undo.pc = "replay" /\ e2undo.keys = {}
  /\ e2undo' = [e2undo EXCEPT !.pc = "done"]
  /\ dev' = IF e2undo.force \/ ~ufile.hdr.finished THEN [dev EXCEPT ![1] = "not valid"] ELSE dev
  /\ UNCHANGED <<dirty, ufile, data, ucall, failed, used>>

\* e2undo is interrupted between two blocks, to be run again (external).
E2undoStops ==
  /\ e2undo.pc = "replay" /\ e2undo.keys # {}
  /\ e2undo' = [E2undoOff EXCEPT !.pc = "stopped"]
  /\ UNCHANGED <<dev, dirty, ufile, data, ucall, failed, used>>

------------------------------------------------------------------------------
UndoInit ==
  /\ dev = OldDevice /\ dirty = NoBlocks /\ ufile = NoFile
  /\ data = ClosedData /\ ucall = NoUndoCall /\ e2undo = E2undoOff
  /\ failed = "none" /\ used = [tools |-> 0, writes |-> 0]

UndoNext ==
  \/ undo_open \/ try_reopen_undo_file \/ ReopenKeyBlock \/ ReopenDone
  \/ \E fail \in Failures : undo_close(fail)
  \/ \E fail \in Failures : undo_atexit(fail)
  \/ undo_flush
  \/ Idle /\ \E op \in UndoOps, b \in 0 .. NewSize - 1, n \in 1 .. MaxCount, 
         v \in {ToolValue[used.tools], Zeroed} :
       /\ b + n <= NewSize
       /\ op = "zeroout" <=> v = Zeroed
       /\ StartWrite(op, b, n, v)
  \/ SkipSaved
  \/ \E fail \in Failures \cup (IF UndoFileFails THEN {"data"} ELSE {}) : SaveBlock(fail)
  \/ \E through \in BOOLEAN : WriteReal(through)
  \/ E2undoStart \/ LoadKeyBlock \/ LoadDone \/ ReplayKey \/ E2undoDone \/ E2undoStops

UndoSpec == UndoInit /\ [][UndoNext]_undoVars

------------------------------------------------------------------------------
(* Properties *)

\* When e2undo ends its replay, every block the device had before the first tool
\* holds again what it held then, whatever the tools wrote, in whichever order,
\* whether they closed or exited, however often e2undo was interrupted, and even if
\* saving a block failed at times and the tool tried again (undo_write_tdb, main of
\* e2undo).  Excepted is a tool that could not write the indexes when it closed.
\* Only the superblock may differ: it then asks for a check.
UndoRestores ==
  (e2undo.pc = "done" /\ failed # "close") =>
    \A i \in 1 .. Len(OldDevice) :
      dev[i] = OldDevice[i] \/ (i = 1 /\ dev[i] = "not valid")

==============================================================================
