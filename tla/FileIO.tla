------------------------------- MODULE FileIO -------------------------------
(***************************************************************************)
(* Reading and writing a file with libext2fs: the buffered handle of       *)
(* lib/ext2fs/fileio.c over the direct, indirect, double and triple        *)
(* indirect blocks of an inode without extents (bmap.c, punch.c).          *)
(*                                                                         *)
(* A block is a sequence of addr_per_block words.  A word is what a block  *)
(* number takes, and the unit of reads and writes here, so a data block    *)
(* and a block of pointers are alike and a stale block can be mistaken for *)
(* either.                                                                 *)
(***************************************************************************)
EXTENDS Integers, Sequences, FiniteSets, FiniteSetsExt, SequencesExt

CONSTANTS
  NDIR_BLOCKS,      \* EXT2_NDIR_BLOCKS, 12 in the code
  addr_per_block,   \* words in a block
  BlockCount,       \* blocks 1..BlockCount of the device
  FirstUsed,        \* blocks that belong to others
  WordValues,       \* what is written, not 0
  Sizes,            \* positions and sizes callers ask for
  MaxLength,        \* the longest read or write
  PunchRanges,      \* the ranges <<start, end>> callers punch
  ShrinkBuffered,   \* whether a file is made shorter while its buffer is valid
  MaxFileCalls      \* the number of calls explored

ASSUME FileIOConstants ==
  /\ NDIR_BLOCKS \in Nat \ {0} /\ addr_per_block \in Nat \ {0}
  /\ BlockCount \in Nat \ {0} /\ FirstUsed \subseteq 1..BlockCount
  /\ 0 \notin WordValues /\ Sizes \subseteq Nat
  /\ ShrinkBuffered \in BOOLEAN

VARIABLES
  file,             \* the device, the inode and the handle
  holds,            \* what the file should hold: a sequence of words
  readback,         \* every read returned what the file should hold
  fileCalls
fileVars == <<file, holds, readback, fileCalls>>

blocksize == addr_per_block
ZeroWords == [i \in 1..blocksize |-> 0]
Stale == [i \in 1..blocksize |-> BlockCount]

IND == NDIR_BLOCKS + 1
DIND == NDIR_BLOCKS + 2
TIND == NDIR_BLOCKS + 3

\* blk_t and blk64_t, scaled down: the largest 32-bit block and 2^64.
BLK_T_MAX == 1000
BLK64_WRAP == 1000000

NewInode32 == [size |-> 0, blocks |-> 0, i_block |-> [i \in 1..TIND |-> 0]]

ClosedFile == [open |-> FALSE, inode |-> NewInode32, pos |-> 0, blockno |-> 0,
               physblock |-> 0, buf |-> ZeroWords, valid |-> FALSE, dirty |-> FALSE]

(*************************************************************************)
(* bmap.c.  x is the whole state with ret, the block found, err, whether *)
(* the call failed, and blocks_alloc.                                    *)
(*************************************************************************)
Calling(x, inode) == [x EXCEPT !.ret = 0, !.err = FALSE, !.blocks_alloc = 0, !.work = inode]

\* The steps of a call end with the first error.
Then(x, Do(_)) == IF x.err THEN x ELSE Do(x)

\* ext2fs_alloc_block3: the first free block from the goal on, around the end,
\* filled with zeros.
ext2fs_alloc_block3(x, goal) ==
  LET free == (1..BlockCount) \ x.block_map
      after == {b \in free : b >= goal}
      take(new) == [x EXCEPT !.ret = new, !.block_map = @ \cup {new},
                             !.disk[new] = ZeroWords, !.blocks_alloc = @ + 1]
  IN  IF free = {} THEN [x EXCEPT !.err = TRUE]
      ELSE take(Min(IF after # {} THEN after ELSE free))

\* The entry nr, from 0, of the block of pointers ind.
block_ind_bmap(x, alloc, ind, nr) ==
  LET b == x.disk[ind][nr + 1]
      goal == IF nr = 0 THEN ind ELSE x.disk[ind][nr]
      enter(got) == [got EXCEPT !.disk[ind][nr + 1] = got.ret]
  IN  IF x.err THEN x
      ELSE IF ind = 0 THEN [x EXCEPT !.ret = 0]
      ELSE IF b # 0 \/ ~alloc THEN [x EXCEPT !.ret = b]
      ELSE Then(ext2fs_alloc_block3(x, goal), enter)

block_dind_bmap(x, alloc, dind, nr) ==
  LET inner(y) == block_ind_bmap(y, alloc, y.ret, nr % addr_per_block)
  IN  inner(block_ind_bmap(x, alloc, dind, nr \div addr_per_block))

block_tind_bmap(x, alloc, tind, nr) ==
  LET inner(y) == block_ind_bmap(y, alloc, y.ret, nr % addr_per_block)
  IN  inner(block_dind_bmap(x, alloc, tind, nr \div addr_per_block))

\* The pointer of the inode itself at place i; work is the inode at hand.
InodePointer(x, alloc, i, goal) ==
  LET enter(got) == [got EXCEPT !.work.i_block[i] = got.ret]
  IN  IF x.work.i_block[i] # 0 \/ ~alloc THEN [x EXCEPT !.ret = x.work.i_block[i]]
      ELSE Then(ext2fs_alloc_block3(x, goal), enter)

MapBlock(x, alloc, block) ==
  LET ib == x.work.i_block
      n1 == block - NDIR_BLOCKS
      n2 == n1 - addr_per_block
      n3 == n2 - addr_per_block * addr_per_block
      ind(y) == block_ind_bmap(y, alloc, y.ret, n1)
      dind(y) == block_dind_bmap(y, alloc, y.ret, n2)
      tind(y) == block_tind_bmap(y, alloc, y.ret, n3)
  IN  IF n1 < 0 THEN InodePointer(x, alloc, block + 1, IF block = 0 THEN 0 ELSE ib[block])
      ELSE IF n2 < 0 THEN Then(InodePointer(x, alloc, IND, ib[IND - 1]), ind)
      ELSE IF n3 < 0 THEN Then(InodePointer(x, alloc, DIND, ib[IND]), dind)
      ELSE Then(InodePointer(x, alloc, TIND, ib[DIND]), tind)

ext2fs_file_block_offset_too_big(block) ==
  block >= NDIR_BLOCKS + addr_per_block + addr_per_block * addr_per_block
           + addr_per_block * addr_per_block * addr_per_block

\* ext2fs_bmap2 with the inode given: a block that was allocated is counted and
\* the inode written, unless the call failed.
ext2fs_bmap2(x, alloc, inode, block) ==
  LET counted(y) ==
        LET work == [y.work EXCEPT !.blocks = @ + y.blocks_alloc]
        IN  IF y.blocks_alloc = 0 THEN y ELSE [y EXCEPT !.work = work, !.inode = work]
  IN  IF ext2fs_file_block_offset_too_big(block) THEN [x EXCEPT !.err = TRUE]
      ELSE Then(MapBlock(Calling(x, inode), alloc, block), counted)

(*************************************************************************)
(* punch.c for such an inode.                                            *)
(*************************************************************************)
\* 1 << ((EXT2_BLOCK_SIZE_BITS - 2) * level)
Incr(level) == addr_per_block ^ level

\* The blocks from start on, count of them, below the pointers p at a level; z
\* carries the device, the block map and the number of blocks freed.
RECURSIVE ind_punch(_, _, _, _, _)
ind_punch(z, p, level, start, count) ==
  LET Entry(acc, i) ==
        LET offset == (i - 1) * Incr(level)
            b == acc.p[i]
            below == ind_punch(acc.z, acc.z.disk[b], level - 1,
                               IF start > offset THEN start - offset ELSE 0,
                               (count - offset) % BLK64_WRAP)
            inner == IF level = 0 THEN acc.z ELSE [below.z EXCEPT !.disk[b] = below.p]
            keep == level > 0 /\ below.p # ZeroWords
        IN  IF offset >= (start + count) % BLK64_WRAP \/ b = 0
               \/ offset + Incr(level) <= start
            THEN acc
            ELSE IF keep THEN [acc EXCEPT !.z = inner]
            ELSE [z |-> [inner EXCEPT !.block_map = @ \ {b}, !.freed = @ + 1],
                  p |-> [acc.p EXCEPT ![i] = 0]]
  IN  FoldLeft(Entry, [z |-> z, p |-> p], [i \in 1..Len(p) |-> i])

\* The pointers of the inode by level: the direct ones, then one of each.
LevelFirst(level) == IF level = 0 THEN 1 ELSE NDIR_BLOCKS + level
LevelLast(level) == NDIR_BLOCKS + level

\* One turn of its loop over the levels; acc carries i_block, and how far it came.
PunchLevel(acc, level) ==
  LET max == IF level = 0 THEN NDIR_BLOCKS ELSE Incr(level)
      first == LevelFirst(level)
      After(r) == [z |-> r.z, start |-> 0, count |-> acc.count - (max - acc.start),
                   over |-> acc.count <= max,
                   ib |-> [i \in DOMAIN acc.ib |-> IF i \in first..LevelLast(level)
                                                   THEN r.p[i - first + 1] ELSE acc.ib[i]]]
  IN  IF acc.over THEN acc
      ELSE IF acc.start >= max THEN [acc EXCEPT !.start = @ - max]
      ELSE After(ind_punch(acc.z, SubSeq(acc.ib, first, LevelLast(level)), level,
                           acc.start, acc.count))

ext2fs_punch_ind(x, inode, start, end) ==
  LET total == IF end >= BLK_T_MAX \/ end - start + 1 >= BLK_T_MAX
               THEN BLK_T_MAX - start ELSE end - start + 1
      Save(node, z) == [x EXCEPT !.disk = z.disk, !.block_map = z.block_map,
                                 !.work = node, !.inode = node]
      Done(acc) == Save([inode EXCEPT !.i_block = acc.ib, !.blocks = @ - acc.z.freed], acc.z)
  IN  Done(FoldLeft(PunchLevel,
                    [z |-> [disk |-> x.disk, block_map |-> x.block_map, freed |-> 0],
                     ib |-> inode.i_block, start |-> start, count |-> total,
                     over |-> start > BLK_T_MAX],
                    <<0, 1, 2, 3>>))

(*************************************************************************)
(* fileio.c: the handle h.                                               *)
(*************************************************************************)
\* After a call that worked on the handle's own inode.
Worked(x) == [x EXCEPT !.h.inode = x.work]

\* The block of the buffer, allocated if there is none.
BufferBlock(x) ==
  IF x.h.physblock # 0 THEN [x EXCEPT !.err = FALSE, !.ret = x.h.physblock]
  ELSE Worked(ext2fs_bmap2(x, TRUE, x.h.inode, x.h.blockno))

ext2fs_file_flush(x) ==
  LET written(y) == [y EXCEPT !.disk[y.ret] = x.h.buf, !.h.physblock = y.ret,
                              !.h.dirty = FALSE]
  IN  IF ~x.h.valid \/ ~x.h.dirty THEN [x EXCEPT !.err = FALSE]
      ELSE Then(BufferBlock(x), written)

\* A mutant: the buffer stays valid for another block.
sync_buffer_position_valid(x) ==
  LET b == x.h.pos \div blocksize
      moved(y) == [y EXCEPT !.h.blockno = b]
  IN  IF b = x.h.blockno THEN [x EXCEPT !.err = FALSE]
      ELSE Then(ext2fs_file_flush(x), moved)

sync_buffer_position(x) ==
  LET b == x.h.pos \div blocksize
      moved(y) == [y EXCEPT !.h.valid = FALSE, !.h.blockno = b]
  IN  IF b = x.h.blockno THEN [x EXCEPT !.err = FALSE]
      ELSE Then(ext2fs_file_flush(x), moved)

load_buffer(x, dontfill) ==
  LET filled(y) == [y EXCEPT
        !.h.physblock = y.ret, !.h.valid = TRUE,
        !.h.buf = IF dontfill THEN @ ELSE IF y.ret # 0 THEN y.disk[y.ret] ELSE ZeroWords]
  IN  IF x.h.valid THEN [x EXCEPT !.err = FALSE]
      ELSE Then(Worked(ext2fs_bmap2(x, FALSE, x.h.inode, x.h.blockno)), filled)

\* The words of [from, from + n) of a block that is written or read at once.
Chunk(x, n) ==
  LET start == x.h.pos % blocksize
  IN  [start |-> start, c |-> Min({blocksize - start, n})]

\* The inode of the disk is read again by ext2fs_file_zero_past_offset.
ext2fs_file_zero_past_offset(x, size) ==
  LET off == size % blocksize
      zero(y) == IF y.ret = 0 THEN y
                 ELSE [y EXCEPT !.disk[y.ret] = [i \in 1..blocksize |->
                                                   IF i <= off THEN @[i] ELSE 0]]
      mapped(y) == Then(ext2fs_bmap2(y, FALSE, y.inode, size \div blocksize), zero)
  IN  IF off = 0 THEN [x EXCEPT !.err = FALSE]
      ELSE Then(sync_buffer_position(x), mapped)

CeilBlocks(size) == (size + blocksize - 1) \div blocksize

\* The blocks between the new size and the old one are punched.
CutTo(y, size, old_size) ==
  IF y.err \/ CeilBlocks(size) >= CeilBlocks(old_size) THEN y
  ELSE Worked(ext2fs_punch_ind(y, y.h.inode, CeilBlocks(size), BLK_T_MAX))

ext2fs_file_set_size2(x, size) ==
  LET sized == [x.h.inode EXCEPT !.size = size]
      set == [x EXCEPT !.h.inode = sized, !.inode = sized, !.err = FALSE]
  IN  IF size # 0 /\ ext2fs_file_block_offset_too_big((size - 1) \div blocksize)
        THEN [x EXCEPT !.err = TRUE]
      ELSE CutTo(ext2fs_file_zero_past_offset(set, size), size, x.h.inode.size)

\* One block's part of ext2fs_file_write, k: the buffer takes the words, and the
\* block is allocated already.
WriteChunk(x, k, v) ==
  LET put(y) == [y EXCEPT !.h.dirty = TRUE,
                          !.h.buf = [i \in 1..blocksize |->
                            IF i \in k.start + 1 .. k.start + k.c THEN v ELSE @[i]]]
      allocated(y) == Then(BufferBlock(put(y)), LAMBDA z :
                           [z EXCEPT !.h.physblock = z.ret, !.h.pos = @ + k.c])
  IN  Then(load_buffer(x, k.c = blocksize), allocated)

\* The loop of ext2fs_file_write; count is what was written.
RECURSIVE WriteBlocks(_, _, _, _)
WriteBlocks(x, n, v, count) ==
  LET step(y, k) == IF y.err THEN [x |-> y, count |-> count]
                    ELSE WriteBlocks(y, n - k.c, v, count + k.c)
      chunk(y) == WriteChunk(y, Chunk(y, n), v)
  IN  IF n = 0 THEN [x |-> x, count |-> count]
      ELSE step(Then(sync_buffer_position(x), chunk), Chunk(x, n))

\* At the end the file grows to the position.
Extended(w) ==
  IF w.count # 0 /\ w.x.h.inode.size < w.x.h.pos
  THEN [w EXCEPT !.x = [ext2fs_file_set_size2(w.x, w.x.h.pos) EXCEPT !.err = @ \/ w.x.err]]
  ELSE w

ext2fs_file_write(x, n, v) == Extended(WriteBlocks([x EXCEPT !.err = FALSE], n, v, 0))

\* The loop of ext2fs_file_read; got is what was read.
RECURSIVE ReadBlocks(_, _, _)
ReadBlocks(x, n, got) ==
  LET k == Chunk(x, Min({n, x.h.inode.size - x.h.pos}))
      step(y) == IF y.err THEN [x |-> y, got |-> got]
                 ELSE ReadBlocks([y EXCEPT !.h.pos = @ + k.c], n - k.c,
                                 got \o SubSeq(y.h.buf, k.start + 1, k.start + k.c))
  IN  IF n = 0 \/ x.h.pos >= x.h.inode.size THEN [x |-> x, got |-> got]
      ELSE step(Then(sync_buffer_position(x), LAMBDA y : load_buffer(y, FALSE)))

(*************************************************************************)
(* The calls.  A caller that gets an error closes the file, and one that *)
(* makes a file shorter does it on a fresh handle (fuse2fs).             *)
(*************************************************************************)
\* What is left of a call: only its error.
Return(x) == [x EXCEPT !.ret = 0, !.blocks_alloc = 0, !.work = NewInode32]

Call == fileCalls < MaxFileCalls /\ fileCalls' = fileCalls + 1

FileOpen ==
  /\ Call /\ ~file.h.open
  /\ file' = [file EXCEPT !.h = [ClosedFile EXCEPT !.open = TRUE, !.inode = file.inode]]
  /\ UNCHANGED <<holds, readback>>

\* holds with n words v written at pos.
Overwritten(pos, n, v) ==
  [i \in 1 .. Max({Len(holds), IF n = 0 THEN 0 ELSE pos + n}) |->
     IF i \in pos + 1 .. pos + n THEN v ELSE IF i <= Len(holds) THEN holds[i] ELSE 0]

FileWrite ==
  /\ Call /\ file.h.open /\ ~file.err
  /\ \E n \in 1..MaxLength, v \in WordValues :
       \E w \in {ext2fs_file_write(file, n, v)} :
         /\ file' = Return(w.x)
         /\ holds' = Overwritten(file.h.pos, w.count, v)
  /\ UNCHANGED readback

FileRead ==
  /\ Call /\ file.h.open /\ ~file.err
  /\ \E n \in 1..MaxLength :
       \E r \in {ReadBlocks([file EXCEPT !.err = FALSE], n, <<>>)} :
         /\ file' = Return(r.x)
         /\ readback' = (readback /\ (r.x.err \/
              r.got = SubSeq(holds, file.h.pos + 1, Min({Len(holds), file.h.pos + n}))))
  /\ UNCHANGED holds

ext2fs_file_llseek ==
  /\ Call /\ file.h.open /\ ~file.err
  /\ \E p \in Sizes \ {file.h.pos} : file' = [file EXCEPT !.h.pos = p]
  /\ UNCHANGED <<holds, readback>>

Resized(size) == [i \in 1..size |-> IF i <= Len(holds) THEN holds[i] ELSE 0]

SetSize ==
  /\ Call /\ file.h.open /\ ~file.err
  /\ \E size \in Sizes :
       /\ size >= file.h.inode.size \/ ~file.h.valid \/ ShrinkBuffered
       /\ file' = Return(ext2fs_file_set_size2(file, size))
       /\ holds' = IF file'.inode.size = size THEN Resized(size) ELSE holds
  /\ UNCHANGED readback

ext2fs_file_close ==
  /\ file.h.open
  /\ \E y \in {Return(ext2fs_file_flush(file))} :
       file' = [y EXCEPT !.h = ClosedFile, !.err = FALSE, !.failed = @ \/ file.err \/ y.err]
  /\ UNCHANGED <<holds, readback, fileCalls>>

\* debugfs punch: the blocks of a file that no handle has open.
ext2fs_punch ==
  /\ Call /\ ~file.h.open
  /\ \E r \in PunchRanges :
       /\ file' = Return(ext2fs_punch_ind(file, file.inode, r[1], r[2]))
       /\ holds' = [i \in DOMAIN holds |->
                      IF (i - 1) \div blocksize \in r[1]..r[2] THEN 0 ELSE holds[i]]
  /\ UNCHANGED readback

FileInit ==
  /\ file = [disk |-> [b \in 1..BlockCount |-> Stale], block_map |-> FirstUsed,
             inode |-> NewInode32, h |-> ClosedFile, work |-> NewInode32,
             ret |-> 0, err |-> FALSE, blocks_alloc |-> 0, failed |-> FALSE]
  /\ holds = <<>> /\ readback = TRUE /\ fileCalls = 0

FileNext ==
  FileOpen \/ FileWrite \/ FileRead \/ ext2fs_file_llseek \/ SetSize \/ ext2fs_file_close
  \/ ext2fs_punch
FileSpec == FileInit /\ [][FileNext]_fileVars

(*************************************************************************)
(* Properties.                                                           *)
(*************************************************************************)
\* The blocks below a pointer, as a sequence with one entry for every pointer.
RECURSIVE Below(_, _)
Below(b, level) ==
  IF b = 0 THEN <<>>
  ELSE IF level = 0 THEN <<b>>
  ELSE <<b>> \o FlattenSeq([i \in 1..addr_per_block |-> Below(file.disk[b][i], level - 1)])

LevelOf(i) == IF i <= NDIR_BLOCKS THEN 0 ELSE i - NDIR_BLOCKS
Reached == FlattenSeq([i \in 1..TIND |-> Below(file.inode.i_block[i], LevelOf(i))])

\* The word at a place of the file as a new handle would find it.
WordOnDisk(i) ==
  LET at == MapBlock(Calling(file, file.inode), FALSE, (i - 1) \div blocksize)
  IN  IF at.ret = 0 THEN 0 ELSE file.disk[at.ret][((i - 1) % blocksize) + 1]

\* Every read of an open file (fileio.c:286) returns what was last written there,
\* zeros in holes and in what a truncation took away; once the file is closed its
\* inode has the size and maps every word, no block is mapped twice or is free or
\* another's, and unless a call failed i_blocks and the block map count exactly
\* the blocks of the file.
FileIsExact ==
  /\ readback
  /\ ~file.h.open =>
       /\ file.inode.size = Len(holds)
       /\ \A i \in DOMAIN holds : WordOnDisk(i) = holds[i]
       /\ IsInjective(Reached)
       /\ Range(Reached) \subseteq file.block_map \ FirstUsed
       /\ ~file.failed => /\ file.inode.blocks = Len(Reached)
                          /\ file.block_map = FirstUsed \cup Range(Reached)
=============================================================================
