----------------------------- MODULE DupBlocks ------------------------------
(***************************************************************************)
(* Passes 1B to 1D of e2fsck (e2fsck/pass1b.c): blocks that several inodes *)
(* claim, or that an inode and the metadata of the file system claim.  The *)
(* inodes that share are offered, in order, to be given copies of their    *)
(* own or to be deleted.                                                   *)
(*                                                                         *)
(* An inode is the list of its blocks in the order of ext2fs_block_iterate *)
(* with their count: the logical block, or -1, -2, -3 for the levels of    *)
(* indirect blocks; in is the place of the block that holds the pointer, 0 *)
(* for the inode.  Clusters of one block.  The contents leave out the      *)
(* reference count in an attribute block.                                  *)
(***************************************************************************)
EXTENDS Integers, Sequences, FiniteSets, FiniteSetsExt, SequencesExt, Functions

CONSTANTS
  Shapes,        \* for each inode the sequence of its [cnt, in]
  HasAcl,        \* inodes with an extended attribute block
  FsBlocks,      \* blocks of the file system's own tables
  DataBlocks,    \* the other blocks
  ClaimedBlocks, \* the blocks an image may use, the others are free
  DupAnswers     \* the answers given to questions

ASSUME DupBlocksConstants ==
  /\ HasAcl \subseteq DOMAIN Shapes
  /\ FsBlocks \cap DataBlocks = {} /\ FsBlocks \cup DataBlocks \subseteq Nat \ {0}
  /\ ClaimedBlocks \subseteq FsBlocks \cup DataBlocks
  /\ DupAnswers \subseteq BOOLEAN

VARIABLES
  dup,           \* the image and the tables of passes 1B to 1D
  turn,          \* the inodes of ino_dict still to be looked at
  before         \* the image before the pass
dupVars == <<dup, turn, before>>

Claimants == DOMAIN Shapes
BLOCK_COUNT_EXTATTR == -5
Positions(ino) == DOMAIN Shapes[ino]

\* The claims of pass 1 in order: an attribute block counts once for all inodes
\* that refer to it.
Claims(img, b) ==
  MapThenSumSet(LAMBDA ino : Cardinality({i \in Positions(ino) : img.map[ino][i] = b}),
                img.live)
  + (IF \E ino \in img.live : img.acl[ino] = b THEN 1 ELSE 0)
  + (IF b \in FsBlocks THEN 1 ELSE 0)

block_dup_map(img) == {b \in FsBlocks \cup DataBlocks : Claims(img, b) > 1}
block_found_map(img) == {b \in FsBlocks \cup DataBlocks : Claims(img, b) > 0}

\* add_dupe once for every place of an inode that holds the block; the list of
\* inodes is the one last added first.
ClaimList(img, b) ==
  FoldLeft(LAMBDA list, ino :
             LET places == Cardinality({i \in Positions(ino) : img.map[ino][i] = b})
                           + IF img.acl[ino] = b THEN 1 ELSE 0
             IN  [n \in 1..places |-> ino] \o list,
           <<>>, SetToSortSeq(Claimants, <))

pass1b(img) ==
  LET dups == block_dup_map(img)
  IN  [img |-> img,
       dup_map |-> dups, found_map |-> block_found_map(img),
       dict |-> [b \in dups |-> [num_bad |-> Len(ClaimList(img, b)),
                                 list |-> ClaimList(img, b)]],
       inode |-> [ino \in Claimants |-> [map |-> img.map[ino], acl |-> img.acl[ino]]],
       meta_data |-> FALSE, valid |-> TRUE]

\* ino_dict: the inodes with a duplicate block, in order.
ino_dict(d) ==
  SelectSeq(SetToSortSeq(Claimants, <),
            LAMBDA ino : \E b \in d.dup_map : \E i \in DOMAIN d.dict[b].list :
                           d.dict[b].list[i] = ino)

\* check_if_fs_block and check_if_fs_cluster agree for clusters of one block.
check_if_fs_block(b) == b \in FsBlocks

decrement_badcount(d, b) ==
  LET n == d.dict[b].num_bad - 1
  IN  [d EXCEPT !.dict[b].num_bad = n,
                !.dup_map = IF n <= 1 /\ ~check_if_fs_block(b) THEN @ \ {b} ELSE @]

(*************************************************************************)
(* clone_file.                                                           *)
(*************************************************************************)
\* cs: the count and the new block of the last copy, the block whose bad count is
\* still to be decremented, whether an error ended the walk.
NoClone == [dup_cluster |-> -100, alloc_block |-> 0, save |-> 0, err |-> FALSE]
Cloning(d) == [d |-> d, cs |-> NoClone]

deferred_dec_badcount(c) ==
  IF c.cs.save = 0 THEN c
  ELSE [d |-> decrement_badcount(c.d, c.cs.save), cs |-> [c.cs EXCEPT !.save = 0]]

\* A mutant: the count goes down before the copy is known to have a block.
clone_file_block_early(c, b, cnt) ==
  LET again == cnt = c.cs.dup_cluster /\ c.cs.alloc_block # 0
      free == (FsBlocks \cup DataBlocks) \ c.d.found_map
      new == IF again THEN c.cs.alloc_block ELSE Min(free)
      less == IF again \/ check_if_fs_block(b) THEN c.d ELSE decrement_badcount(c.d, b)
  IN  IF ~again /\ b \notin c.d.dup_map THEN [c |-> c, b |-> b]
      ELSE IF ~again /\ free = {}
        THEN [c |-> [d |-> less, cs |-> [c.cs EXCEPT !.dup_cluster = cnt, !.err = TRUE]], b |-> b]
      ELSE [c |-> [d |-> [less EXCEPT !.img.content[new] = c.d.img.content[b],
                                      !.found_map = @ \cup {new}],
                   cs |-> [NoClone EXCEPT !.dup_cluster = cnt, !.alloc_block = new]],
            b |-> new]

\* The copy of block b with count cnt: the new state and the block that takes
\* the place of b.
Copied(c, b, cnt) ==
  LET again == cnt = c.cs.dup_cluster /\ c.cs.alloc_block # 0
      free == (FsBlocks \cup DataBlocks) \ c.d.found_map
      new == IF again THEN c.cs.alloc_block ELSE Min(free)
      copied == [c.d EXCEPT !.img.content[new] = c.d.img.content[b],
                            !.found_map = @ \cup {new}]
  IN  IF ~again /\ b \notin c.d.dup_map THEN [c |-> c, b |-> b]
      ELSE IF ~again /\ free = {}
        THEN [c |-> [c EXCEPT !.cs.dup_cluster = cnt, !.cs.err = TRUE], b |-> b]
      ELSE [c |-> [d |-> copied,
                   cs |-> [dup_cluster |-> cnt, alloc_block |-> new, err |-> FALSE,
                           save |-> IF check_if_fs_block(b) \/ again THEN 0 ELSE b]],
            b |-> new]

clone_file_block(c, b, cnt) == Copied(deferred_dec_badcount(c), b, cnt)

\* ext2fs_block_iterate3: a changed block is written into the block, or the
\* inode, that holds its pointer.
SetPlace(d, ino, i, b) ==
  LET holder == Shapes[ino][i].in
      put == [d EXCEPT !.img.map[ino][i] = b]
  IN  IF holder = 0 THEN put
      ELSE [put EXCEPT !.img.content[put.img.map[ino][holder]] = <<"pointers", ino>>]

ClonePlace(c, ino, i) ==
  LET b == c.d.img.map[ino][i]
      placed(r) == IF r.b = b THEN r.c ELSE [r.c EXCEPT !.d = SetPlace(@, ino, i, r.b)]
  IN  IF c.cs.err THEN c ELSE placed(clone_file_block(c, b, Shapes[ino][i].cnt))

\* The other inodes with the attribute block blk follow ino to its copy; each is
\* written from the copy of the inode that pass 1B took.
OthersFollow(d, ino, blk, new) ==
  FoldLeft(LAMBDA e, other :
             IF other = ino \/ e.inode[other].acl # blk THEN e
             ELSE LET said == [e EXCEPT !.inode[other].acl = new]
                      put == [said EXCEPT !.img.map[other] = said.inode[other].map,
                                          !.img.acl[other] = new]
                  IN  decrement_badcount(put, blk),
           d, d.dict[blk].list)

\* The attribute block, after the walk: the inode is read again first.
CloneAcl(c, ino) ==
  LET blk == c.d.img.acl[ino]
      read == [c EXCEPT !.d.inode[ino] = [map |-> c.d.img.map[ino], acl |-> blk]]
      moved(r) ==
        IF r.b = blk THEN read.d
        ELSE OthersFollow([r.c.d EXCEPT !.img.acl[ino] = r.b, !.inode[ino].acl = r.b],
                          ino, blk, r.b)
  IN  IF blk = 0 THEN read.d
      ELSE moved(clone_file_block(read, blk, BLOCK_COUNT_EXTATTR))

clone_file(d, ino) ==
  LET walked(c) == IF c.cs.err THEN [d |-> c.d, ok |-> FALSE]
                   ELSE [d |-> CloneAcl(c, ino), ok |-> TRUE]
  IN  walked(deferred_dec_badcount(
               FoldLeft(LAMBDA c, i : ClonePlace(c, ino, i), Cloning(d),
                        [i \in Positions(ino) |-> i])))

(*************************************************************************)
(* delete_file.                                                          *)
(*************************************************************************)
\* delete_file_block: a block that others claim is only counted down, unless its
\* count is the one of the block before (cur_cluster starts as ~0, which is -1).
delete_file_block(x, b, cnt) ==
  [d |-> IF b \in x.d.dup_map /\ cnt # x.cur_cluster THEN decrement_badcount(x.d, b)
         ELSE x.d,
   cur_cluster |-> cnt]

delete_file(d, ino) ==
  LET gone == FoldLeft(LAMBDA x, i : delete_file_block(x, x.d.img.map[ino][i],
                                                       Shapes[ino][i].cnt),
                       [d |-> d, cur_cluster |-> -1], [i \in Positions(ino) |-> i])
      blk == d.img.acl[ino]
      out == [gone EXCEPT !.d.img.live = @ \ {ino},
                          !.d.inode[ino] = [map |-> d.img.map[ino], acl |-> blk]]
  IN  IF blk = 0 THEN out.d ELSE delete_file_block(out, blk, BLOCK_COUNT_EXTATTR).d

(*************************************************************************)
(* Pass 1D: one inode after the other.                                   *)
(*************************************************************************)
ClustersOf(d, ino) == {b \in DOMAIN d.dict : ino \in Range(d.dict[b].list)}

\* The inode needs nothing more: nothing it shares is still shared.
DealtWith(d, ino) ==
  LET cl == ClustersOf(d, ino)
      shared == UNION {Range(d.dict[b].list) : b \in cl} \ {ino}
  IN  /\ \A b \in cl : d.dict[b].num_bad <= 1 /\ ~check_if_fs_block(b)
      /\ shared # {} \/ d.meta_data

\* meta_data is set by the first inode that shares with metadata and stays set.
Looked(d, ino) ==
  [d EXCEPT !.meta_data = @ \/ \E b \in ClustersOf(d, ino) : check_if_fs_block(b)]

\* What the answers to the clone and the delete question lead to.
Dealt(d, ino, clone, delete) ==
  LET left(e) == IF delete THEN delete_file(e, ino) ELSE [e EXCEPT !.valid = FALSE]
      cloned(r) == IF r.ok THEN r.d ELSE left(r.d)
  IN  CASE DealtWith(d, ino) -> d
        [] ~DealtWith(d, ino) /\ clone -> cloned(clone_file(d, ino))
        [] ~DealtWith(d, ino) /\ ~clone -> left(d)

pass1d ==
  /\ turn # <<>>
  /\ \E clone \in DupAnswers, delete \in DupAnswers :
       dup' = Dealt(Looked(dup, Head(turn)), Head(turn), clone, delete)
  /\ turn' = SubSeq(turn, 2, Len(turn))
  /\ UNCHANGED before

(*************************************************************************)
(* The images the passes start from.                                     *)
(*************************************************************************)
\* Inodes that claim the same indirect block claim the blocks it points to.
Pointed(img, ino, i) ==
  {<<Shapes[ino][j].cnt, img.map[ino][j]>> : j \in {k \in Positions(ino) : Shapes[ino][k].in = i}}

Consistent(img) ==
  \A f, g \in Claimants : \A i \in Positions(f), j \in Positions(g) :
    (Shapes[f][i].cnt < 0 /\ Shapes[g][j].cnt < 0 /\ img.map[f][i] = img.map[g][j])
      => Pointed(img, f, i) = Pointed(img, g, j)

DupInit ==
  \E map \in [Claimants -> UNION {[Positions(ino) -> ClaimedBlocks] : ino \in Claimants}],
     acl \in [Claimants -> {0} \cup (ClaimedBlocks \ FsBlocks)] :
    LET img == [map |-> map, acl |-> acl, live |-> Claimants,
                content |-> [b \in FsBlocks \cup DataBlocks |-> <<"block", b>>]]
    IN  /\ \A ino \in Claimants : DOMAIN map[ino] = Positions(ino)
        /\ \A ino \in Claimants \ HasAcl : acl[ino] = 0
        /\ Consistent(img)
        /\ before = img
        /\ dup = pass1b(img)
        /\ turn = ino_dict(dup)

DupNext == pass1d
DupSpec == DupInit /\ [][DupNext]_dupVars

(*************************************************************************)
(* Properties.                                                           *)
(*************************************************************************)
\* Once pass 1D (pass1b.c:497) has looked at every inode and has not marked the
\* file system invalid, no block has two owners among the files left and the
\* metadata, and every file left, and every table, reads as before.
DuplicatesAreResolved ==
  (turn = <<>> /\ dup.valid) =>
    /\ \A b \in FsBlocks \cup DataBlocks : Claims(dup.img, b) <= 1
    /\ \A ino \in dup.img.live :
         /\ \A i \in Positions(ino) : Shapes[ino][i].cnt >= 0 =>
              dup.img.content[dup.img.map[ino][i]] = before.content[before.map[ino][i]]
         /\ dup.img.acl[ino] # 0 =>
              dup.img.content[dup.img.acl[ino]] = before.content[before.acl[ino]]
    /\ \A b \in FsBlocks : dup.img.content[b] = before.content[b]
=============================================================================
