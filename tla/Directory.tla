----------------------------- MODULE Directory -----------------------------
(***************************************************************************)
(* Directories of an ext2/3/4 file system as libext2fs edits them, and the *)
(* commands of debugfs that change the name space through it.              *)
(*                                                                         *)
(* A directory block is a sequence of entries; each covers rec_len units   *)
(* of 4 bytes from its offset to the next entry.  An entry is two units of *)
(* header and the name, rounded up (EXT2_DIR_REC_LEN).  With metadata      *)
(* checksums a block ends in a fake entry that hides the checksum (the     *)
(* tail).  The first block of an indexed directory (dx_root) has no entry  *)
(* beyond "..", whose record covers the index.                             *)
(*                                                                         *)
(* The inode table holds the inodes in use; what a failed command leaves   *)
(* in an inode that is free is overwritten before it is read.  A file's    *)
(* data is not modelled, nor directories kept inside the inode.            *)
(***************************************************************************)
EXTENDS Integers, Sequences, FiniteSets, FiniteSetsExt, SequencesExt, TLC

CONSTANTS
  BlockUnits,    \* the block size, in units of 4 bytes
  Csum,          \* units of the checksum tail, 0 without metadata_csum
  NameUnits,     \* each name's length, in units
  LastInode,     \* the inodes are 1 (the root) to LastInode
  LastBlock      \* the blocks are 1 to LastBlock

ASSUME DirectoryConstants ==
  /\ BlockUnits \in Nat /\ Csum \in Nat
  /\ \A n \in DOMAIN NameUnits : NameUnits[n] \in 1 .. BlockUnits
  /\ LastInode \in Nat \ {0} /\ LastBlock \in Nat \ {0, 1}

VARIABLES
  fs,            \* the file system: itable, the inodes in use (mode, links,
                 \* index flag, blocks); dblock, the contents of directory
                 \* blocks; inode_map and block_map, what the bitmaps mark
  tree,          \* the name space the commands that succeeded have built
  status         \* what the last command returned

dirVars == <<fs, tree, status>>

RootIno == 1
NameSet == DOMAIN NameUnits
NoName == "no name"
TailName == "checksum tail"

Dirent(ino, name, len) == [inode |-> ino, name |-> name, rec_len |-> len]
DirentTail == Dirent(0, TailName, Csum)
TailOf == IF Csum > 0 THEN <<DirentTail>> ELSE <<>>

EXT2_DIR_REC_LEN(name) ==
  2 + (IF name \in NameSet THEN NameUnits[name]
       ELSE IF name \in {".", ".."} THEN 1 ELSE 0)

DirRecord(links, index, blocks) ==
  [mode |-> "dir", links |-> links, index |-> index, blocks |-> blocks]
Plain(mode, blocks) ==
  [mode |-> mode, links |-> 1, index |-> FALSE, blocks |-> blocks]

(*************************************************************************)
(* A fresh directory block: "." and ".." for a new directory, one unused *)
(* entry for a block appended to one.                                    *)
(*************************************************************************)
ext2fs_new_dir_block(dir_ino, parent_ino) ==
  LET room == BlockUnits - Csum IN
  (IF dir_ino # 0
     THEN <<Dirent(dir_ino, ".", EXT2_DIR_REC_LEN(".")),
            Dirent(parent_ino, "..", room - EXT2_DIR_REC_LEN("."))>>
     ELSE <<Dirent(0, NoName, room)>>) \o TailOf

(*************************************************************************)
(* Iteration.  Offset is where an entry starts; an entry is visited when *)
(* it starts before the last eight bytes and is not the tail.            *)
(*************************************************************************)
Offset(ents, i) == FoldLeft(LAMBDA n, e : n + e.rec_len, 0,
                                         SubSeq(ents, 1, i - 1))

IsTail(ents, i) ==
  /\ ents[i].inode = 0 /\ ents[i].name = TailName
  /\ ents[i].rec_len = Csum /\ Offset(ents, i) = BlockUnits - Csum

Visited(ents, i) ==
  /\ i \in DOMAIN ents /\ Offset(ents, i) < BlockUnits - 2
  /\ ~IsTail(ents, i)

(*************************************************************************)
(* lookup_proc over a directory: the first used entry with the name.     *)
(*************************************************************************)
ext2fs_lookup(f, dir, name) ==
  LET all == FlattenSeq([k \in DOMAIN f.itable[dir].blocks |->
                           f.dblock[f.itable[dir].blocks[k]]])
      hits == {i \in DOMAIN all : all[i].inode # 0 /\ all[i].name = name}
  IN  IF hits = {} THEN 0 ELSE all[Min(hits)].inode

(***************************************************************************)
(* link_proc on entry i: absorb an unused successor, restore the tail of a *)
(* former dx_node or dx_root block, then split a used entry with room for  *)
(* the name, or fill an unused one.                                        *)
(***************************************************************************)
\* MUTANT: the guard forgets the tail, which is absorbed as an unused entry.
NextInBlock_csum(ents, i) ==
  Offset(ents, i) + ents[i].rec_len < BlockUnits - 2

NextInBlock(ents, i) ==
  Offset(ents, i) + ents[i].rec_len < BlockUnits - (2 + Csum)

Absorb(ents, i) ==
  IF /\ NextInBlock(ents, i)
     /\ ents[i + 1].inode = 0
     /\ Offset(ents, i + 1) + ents[i + 1].rec_len <= BlockUnits
    THEN RemoveAt([ents EXCEPT ![i].rec_len = @ + ents[i + 1].rec_len], i + 1)
    ELSE ents

Deconvert(ents, i) ==
  IF /\ Csum > 0
     /\ \/ ents[i].rec_len = BlockUnits /\ ents[i].inode = 0
        \/ /\ ents[i].rec_len = BlockUnits - EXT2_DIR_REC_LEN(".")
           /\ Offset(ents, i) = EXT2_DIR_REC_LEN(".")
           /\ ents[i].name = ".."
    THEN InsertAt([ents EXCEPT ![i].rec_len = @ - Csum], i + 1, DirentTail)
    ELSE ents

RECURSIVE link_proc(_, _, _, _), EnterAt(_, _, _, _)
link_proc(ents, i, name, ino) ==
  IF Visited(ents, i) THEN EnterAt(Deconvert(Absorb(ents, i), i), i, name, ino)
                      ELSE [ents |-> ents, done |-> FALSE]

EnterAt(b, i, name, ino) ==
  LET need == EXT2_DIR_REC_LEN(name)
      min == EXT2_DIR_REC_LEN(b[i].name)
  IN  IF b[i].inode # 0 /\ b[i].rec_len >= min + need
        THEN link_proc(InsertAt([b EXCEPT ![i].rec_len = min], i + 1,
                         Dirent(0, NoName, b[i].rec_len - min)),
                       i + 1, name, ino)
      ELSE IF b[i].inode = 0 /\ b[i].rec_len >= need
        THEN [ents |-> [b EXCEPT ![i].inode = ino, ![i].name = name],
              done |-> TRUE]
      ELSE link_proc(b, i + 1, name, ino)

(***************************************************************************)
(* ext2fs_link: link_proc over the directory's blocks until one takes the  *)
(* name.  A block that changed is written whether or not it took the name. *)
(* The index flag is cleared when the name went in.                        *)
(***************************************************************************)
LinkedBlocks(f, dir, out) ==
  LET blocks == f.itable[dir].blocks
      took == {k \in DOMAIN out : out[k].done}
      seen == IF took = {} THEN DOMAIN out ELSE 1 .. Min(took)
      written == [b \in DOMAIN f.dblock |-> IF \E k \in seen : blocks[k] = b
                    THEN out[CHOOSE k \in seen : blocks[k] = b].ents
                    ELSE f.dblock[b]]
  IN  [err |-> IF took = {} THEN "no space" ELSE "ok",
       f |-> [f EXCEPT !.dblock = written,
                       !.itable[dir].index = @ /\ took = {}]]

ext2fs_link(f, dir, name, ino) ==
  LinkedBlocks(f, dir, [k \in DOMAIN f.itable[dir].blocks |->
                          link_proc(f.dblock[f.itable[dir].blocks[k]], 1, name, ino)])

(*************************************************************************)
(* ext2fs_unlink: the first used entry with the name joins the entry     *)
(* before it, or becomes unused where it is the first of its block.      *)
(*************************************************************************)
unlink_proc(ents, i) ==
  IF i = 1 THEN [ents EXCEPT ![1].inode = 0]
  ELSE RemoveAt([ents EXCEPT ![i - 1].rec_len = @ + ents[i].rec_len], i)

ext2fs_unlink(f, dir, name) ==
  LET blocks == f.itable[dir].blocks
      hit(k) == {i \in DOMAIN f.dblock[blocks[k]] :
                   /\ f.dblock[blocks[k]][i].inode # 0
                   /\ f.dblock[blocks[k]][i].name = name}
      in == {k \in DOMAIN blocks : hit(k) # {}}
  IN  IF in = {} THEN f
      ELSE [f EXCEPT !.dblock[blocks[Min(in)]] = unlink_proc(@, Min(hit(Min(in))))]

(*************************************************************************)
(* Allocation.  A new inode is the first free one; a new block the first *)
(* free one from the goal on, or else from the start.                    *)
(*************************************************************************)
FreeInodes(f) == (1 .. LastInode) \ f.inode_map
FreeBlocks(f) == (1 .. LastBlock) \ f.block_map
NewInode(f) == Min(FreeInodes(f))
NewBlock(f, goal) ==
  LET ahead == {b \in FreeBlocks(f) : b >= goal}
  IN  IF ahead # {} THEN Min(ahead) ELSE Min(FreeBlocks(f))

(*************************************************************************)
(* ext2fs_expand_dir appends one unused block to the directory.          *)
(*************************************************************************)
ext2fs_expand_dir(f, dir) ==
  IF FreeBlocks(f) = {} THEN [err |-> "no blocks", f |-> f]
  ELSE LET new == NewBlock(f, Last(f.itable[dir].blocks))
       IN  [err |-> "ok",
            f |-> [f EXCEPT !.block_map = @ \cup {new},
                            !.itable[dir].blocks = Append(@, new),
                            !.dblock = (new :> ext2fs_new_dir_block(0, 0)) @@ @]]

(***************************************************************************)
(* Creating.  ext2fs_mkdir and ext2fs_symlink pick the inode and the block *)
(* first and mark them only after the name is in; do_write_internal looks  *)
(* the name up first.  Every caller expands a full directory and retries.  *)
(***************************************************************************)
Fail(f, err) == [err |-> err, f |-> f]

OnSuccess(out, Do(_)) == IF out.err = "ok" THEN [err |-> "ok", f |-> Do(out.f)] ELSE out

ext2fs_mkdir(f, parent, name) ==
  IF FreeInodes(f) = {} THEN Fail(f, "no inodes")
  ELSE IF FreeBlocks(f) = {} THEN Fail(f, "no blocks")
  ELSE IF ext2fs_lookup(f, parent, name) # 0 THEN Fail(f, "exists")
  ELSE LET ino == NewInode(f)
           blk == NewBlock(f, 1)
           made(g) == [g EXCEPT
                        !.itable = (ino :> DirRecord(2, FALSE, <<blk>>)) @@
                                   [@ EXCEPT ![parent].links = @ + 1],
                        !.dblock = (blk :> ext2fs_new_dir_block(ino, parent)) @@ @,
                        !.block_map = @ \cup {blk},
                        !.inode_map = @ \cup {ino}]
       IN  OnSuccess(ext2fs_link(f, parent, name, ino), made)

ext2fs_symlink(f, parent, name, fastlink) ==
  IF ~fastlink /\ FreeBlocks(f) = {} THEN Fail(f, "no blocks")
  ELSE IF FreeInodes(f) = {} THEN Fail(f, "no inodes")
  ELSE IF ext2fs_lookup(f, parent, name) # 0 THEN Fail(f, "exists")
  ELSE LET ino == NewInode(f)
           blk == IF fastlink THEN <<>> ELSE <<NewBlock(f, 1)>>
           made(g) == [g EXCEPT !.itable = (ino :> Plain("link", blk)) @@ @,
                                !.block_map = @ \cup ToSet(blk),
                                !.inode_map = @ \cup {ino}]
       IN  OnSuccess(ext2fs_link(f, parent, name, ino), made)

WithRoom(f, dir, Try(_)) ==
  LET again(more) == IF more.err = "ok" THEN Try(more.f) ELSE more
      tried(out) == IF out.err = "no space" THEN again(ext2fs_expand_dir(out.f, dir))
                                            ELSE out
  IN  tried(Try(f))

do_mkdir_internal(f, dir, name) ==
  LET try(g) == ext2fs_mkdir(g, dir, name) IN WithRoom(f, dir, try)

do_symlink_internal(f, dir, name, fastlink) ==
  LET try(g) == ext2fs_symlink(g, dir, name, fastlink) IN WithRoom(f, dir, try)

do_write_internal(f, dir, name) ==
  IF ext2fs_lookup(f, dir, name) # 0 THEN Fail(f, "exists")
  ELSE IF FreeInodes(f) = {} THEN Fail(f, "no inodes")
  ELSE LET ino == NewInode(f)
           try(g) == ext2fs_link(g, dir, name, ino)
           made(g) == [g EXCEPT !.itable = (ino :> Plain("file", <<>>)) @@ @,
                                !.inode_map = @ \cup {ino}]
       IN  OnSuccess(WithRoom(f, dir, try), made)

(*************************************************************************)
(* Removing.  kill_file_by_inode releases the blocks and the inode.      *)
(*************************************************************************)
kill_file_by_inode(f, ino) ==
  LET blocks == ToSet(f.itable[ino].blocks)
  IN  [f EXCEPT !.block_map = @ \ blocks,
                !.inode_map = @ \ {ino},
                !.itable = Restrict(@, DOMAIN @ \ {ino}),
                !.dblock = Restrict(@, DOMAIN @ \ blocks)]

do_rm(f, dir, name) ==
  LET ino == ext2fs_lookup(f, dir, name) IN
  IF ino = 0 THEN Fail(f, "not found")
  ELSE IF f.itable[ino].mode = "dir" THEN Fail(f, "is a directory")
  ELSE LET less == [f EXCEPT !.itable[ino].links = @ - 1]
           cut == ext2fs_unlink(less, dir, name)
       IN  [err |-> "ok",
            f |-> IF cut.itable[ino].links = 0
                    THEN kill_file_by_inode(cut, ino) ELSE cut]

\* rmdir_proc: what an iteration over a directory finds besides "." and "..".
EmptyDir(f, ino) ==
  \A b \in ToSet(f.itable[ino].blocks) : \A i \in DOMAIN f.dblock[b] :
    f.dblock[b][i].inode = 0 \/ f.dblock[b][i].name \in {".", ".."}

\* MUTANT: the parent keeps the link its child's ".." held.
do_rmdir_kept(f, dir, name) ==
  LET ino == ext2fs_lookup(f, dir, name) IN
  IF ino = 0 THEN Fail(f, "not found")
  ELSE IF f.itable[ino].mode # "dir" THEN Fail(f, "not a directory")
  ELSE IF ~EmptyDir(f, ino) THEN Fail(f, "not empty")
  ELSE [err |-> "ok", f |-> kill_file_by_inode(ext2fs_unlink(f, dir, name), ino)]

do_rmdir(f, dir, name) ==
  LET ino == ext2fs_lookup(f, dir, name) IN
  IF ino = 0 THEN Fail(f, "not found")
  ELSE IF f.itable[ino].mode # "dir" THEN Fail(f, "not a directory")
  ELSE IF ~EmptyDir(f, ino) THEN Fail(f, "not empty")
  ELSE LET parent == ext2fs_lookup(f, ino, "..")
           gone == kill_file_by_inode(ext2fs_unlink(f, dir, name), ino)
       IN  [err |-> "ok",
            f |-> [gone EXCEPT !.itable[parent].links = IF @ > 1 THEN @ - 1 ELSE @]]

(*************************************************************************)
(* The commands.  Dirs are the directories that can be named.            *)
(*************************************************************************)
Dirs == {d \in DOMAIN fs.itable : fs.itable[d].mode = "dir"}

Returns(out) == fs' = out.f /\ status' = out.err

\* A creating command that succeeds enters the name it was given.
Creates(dir, name, out) ==
  LET ino == ext2fs_lookup(out.f, dir, name) IN
  /\ Returns(out)
  /\ tree' = IF out.err # "ok" THEN tree
             ELSE LET entered == [tree EXCEPT ![dir][name] = ino]
                  IN  IF out.f.itable[ino].mode = "dir"
                        THEN (ino :> [n \in NameSet |-> 0]) @@ entered
                        ELSE entered

\* A removing command that succeeds takes the name away.
Removes(dir, name, out) ==
  LET ino == tree[dir][name] IN
  /\ Returns(out)
  /\ tree' = IF out.err # "ok" THEN tree
             ELSE Restrict([tree EXCEPT ![dir][name] = 0], DOMAIN tree \ {ino})

do_write == \E d \in Dirs, n \in NameSet : Creates(d, n, do_write_internal(fs, d, n))
do_mkdir == \E d \in Dirs, n \in NameSet : Creates(d, n, do_mkdir_internal(fs, d, n))
do_symlink == \E d \in Dirs, n \in NameSet, fastlink \in BOOLEAN :
                Creates(d, n, do_symlink_internal(fs, d, n, fastlink))
rm == \E d \in Dirs, n \in NameSet : Removes(d, n, do_rm(fs, d, n))
rmdir == \E d \in Dirs, n \in NameSet : Removes(d, n, do_rmdir(fs, d, n))
do_expand_dir == \E d \in Dirs : Returns(ext2fs_expand_dir(fs, d)) /\ UNCHANGED tree

(***************************************************************************)
(* An empty root, or a root the kernel has indexed: a dx_root block and an *)
(* empty leaf.                                                             *)
(***************************************************************************)
DxRoot ==
  <<Dirent(RootIno, ".", EXT2_DIR_REC_LEN(".")),
    Dirent(RootIno, "..", BlockUnits - EXT2_DIR_REC_LEN("."))>>

DirInit ==
  /\ \E index \in BOOLEAN :
       LET blocks == IF index THEN <<1, 2>> ELSE <<1>> IN
       fs = [itable |-> (RootIno :> DirRecord(2, index, blocks)),
             dblock |-> [b \in ToSet(blocks) |->
                           IF b = 2 THEN ext2fs_new_dir_block(0, 0)
                           ELSE IF index THEN DxRoot
                           ELSE ext2fs_new_dir_block(RootIno, RootIno)],
             inode_map |-> {RootIno},
             block_map |-> ToSet(blocks)]
  /\ tree = (RootIno :> [n \in NameSet |-> 0])
  /\ status = "ok"

DirNext == do_write \/ do_mkdir \/ do_symlink \/ rm \/ rmdir \/ do_expand_dir

DirSpec == DirInit /\ [][DirNext]_dirVars

-----------------------------------------------------------------------------
\* Every entry holds its name and no space between entries is lost.
Tiles(ents) ==
  /\ Offset(ents, Len(ents) + 1) = BlockUnits
  /\ \A i \in DOMAIN ents : ents[i].inode # 0 =>
       ents[i].rec_len >= EXT2_DIR_REC_LEN(ents[i].name)

(***************************************************************************)
(* Whatever names were linked and unlinked, the entries of every directory *)
(* block tile the block exactly and, with metadata checksums, end in the   *)
(* tail (link_proc, unlink_proc, ext2fs_new_dir_block); only the dx_root   *)
(* of a directory that is still indexed has none.  A directory that was    *)
(* found full and expanded takes the name: the callers' one retry never    *)
(* ends in EXT2_ET_DIR_NO_SPACE.                                           *)
(***************************************************************************)
DirectoryBlocksAreSound ==
  /\ status # "no space"
  /\ \A d \in Dirs : \A k \in DOMAIN fs.itable[d].blocks :
       LET ents == fs.dblock[fs.itable[d].blocks[k]] IN
       /\ Tiles(ents)
       /\ Csum = 0 \/ Last(ents) = DirentTail \/ (fs.itable[d].index /\ k = 1)

(*************************************************************************)
(* The directories hold exactly the names the successful commands left:  *)
(* ext2fs_lookup finds each under its inode and finds no other, "." and  *)
(* ".." are right, link counts are the number of names, and the bitmaps  *)
(* mark exactly the inodes that have a name and the blocks of those      *)
(* inodes, each owned once, however commands failed on the way.          *)
(*************************************************************************)
NamespaceIsExact ==
  LET Named == {tree[d][n] : d \in DOMAIN tree, n \in NameSet} \ {0}
      Live == {RootIno} \cup Named
      Subdirs(d) == {n \in NameSet : tree[d][n] \in DOMAIN tree}
  IN
  /\ Dirs = DOMAIN tree
  /\ fs.inode_map = Live /\ DOMAIN fs.itable = Live
  /\ fs.block_map = UNION {ToSet(fs.itable[i].blocks) : i \in Live}
  /\ Cardinality(fs.block_map) =
       MapThenSumSet(LAMBDA i : Len(fs.itable[i].blocks), Live)
  /\ \A d \in DOMAIN tree :
       /\ \A n \in NameSet : ext2fs_lookup(fs, d, n) = tree[d][n]
       /\ ext2fs_lookup(fs, d, ".") = d
       /\ fs.itable[d].links = 2 + Cardinality(Subdirs(d))
       /\ \A n \in Subdirs(d) : ext2fs_lookup(fs, tree[d][n], "..") = d
  /\ \A i \in Live \ DOMAIN tree : fs.itable[i].links = 1
=============================================================================
