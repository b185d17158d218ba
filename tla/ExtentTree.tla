------------------------------ MODULE ExtentTree ------------------------------
(******************************************************************************)
(* The extent tree of an inode (lib/ext2fs/extent.c), mapped and unmapped     *)
(* through ext2fs_bmap2 (bmap.c) and ext2fs_punch (punch.c), on a file system *)
(* without bigalloc.                                                          *)
(*                                                                            *)
(* A handle h is the tree with a position in it: the path from the root, one  *)
(* record per level, whose curr is the index of the current entry (0: none).  *)
(* An operation of the library takes a handle and yields it with ret, the     *)
(* error it returns ("" for none), and with ext, the extent it hands out.     *)
(* The buffer of a level holds what is on disk: each change to it is written  *)
(* through by update_path.  path->left is entries - curr throughout.          *)
(******************************************************************************)
EXTENDS Integers, FiniteSets, SequencesExt

CONSTANTS
  RootMax,      \* entries in the inode
  NodeMax,      \* entries in a block of the tree
  MaxLen,       \* EXT_INIT_MAX_LEN; EXT_UNINIT_MAX_LEN is one less
  MaxLblk,      \* bound on the blocks of the file
  LastPblk,     \* the last block of the file system
  Taken,        \* the blocks in use by others, among them 0 and 1 (the superblock)
  FileSizes,    \* the sizes, in blocks, that the inode may have when it is opened
  UninitBlocks, \* the blocks of the file that are mapped uninitialised
  RemapTo,      \* the blocks that a caller may move a block to
  RemapJoins,   \* whether it may move one next to the block of a neighbour
  MaxTreeCalls, \* bound on the calls
  Wrap          \* 2^32, the width of e_len

VARIABLES
  inode,    \* the root of the tree, its depth and i_blocks
  nodes,    \* the blocks of the tree
  used,     \* the block bitmap
  want,     \* what the calls so far have mapped: history
  ret,      \* what the last call returned
  calls     \* the number of calls, up to its bound

treeVars == <<inode, nodes, used, want, ret, calls>>

Lblks == 0 .. MaxLblk
Pblks == 1 .. LastPblk
NoMap == [p |-> 0, u |-> FALSE]
Extent(l, p, n, u) == [l |-> l, p |-> p, n |-> n, u |-> u]
NoExtent == Extent(0, 0, 0, FALSE)

------------------------------------------------------------------------------
\* ext2fs_extent_open2: at the root, with no current entry.
AtRoot(size) == [blk |-> 0, curr |-> 0, visit |-> 1, end |-> size]
ext2fs_extent_open2(size) ==
  [root |-> inode.root, depth |-> inode.depth, iblk |-> inode.iblk, node |-> nodes,
   used |-> used, path |-> <<AtRoot(size)>>, ret |-> "", ext |-> NoExtent]

Level(h) == Len(h.path) - 1
Here(h) == Last(h.path)
Entries(h, level) == IF level = 0 THEN h.root ELSE h.node[h.path[level + 1].blk]
Now(h) == Entries(h, Level(h))
Full(h, level) == Len(Entries(h, level)) >= IF level = 0 THEN RootMax ELSE NodeMax
Left(h) == Len(Now(h)) - Here(h).curr
Leaf(h) == Level(h) = h.depth

Fails(h, e) == [h EXCEPT !.ret = e]

\* The next step of a call, unless the one before failed.
AndThen(h, Step(_)) == IF h.ret # "" THEN h ELSE Step(h)

SetHere(h, p) == [h EXCEPT !.path[Len(h.path)] = p]

\* Where the extents under the current entry end.
EndBlk(h) == IF Left(h) > 0 THEN Now(h)[Here(h).curr + 1].l ELSE Here(h).end

\* The extent at the current entry; an index covers up to the next one, in 32 bits.
Hands(h) ==
  IF Here(h).curr = 0 THEN Fails(h, "NO_CURRENT_NODE")
  ELSE LET e == Now(h)[Here(h).curr]
       IN  [h EXCEPT !.ret = "", !.ext = IF Leaf(h) THEN e
                                         ELSE [e EXCEPT !.n = (EndBlk(h) - e.l) % Wrap]]

\* One move of ext2fs_extent_get; up takes the flag of PREV and PREV_LEAF, which clears the
\* visit of the parent.
MoveNextSib(h) ==
  IF Left(h) <= 0 THEN Fails(h, "NO_NEXT")
  ELSE Hands(SetHere(h, [Here(h) EXCEPT !.curr = @ + 1, !.visit = 0]))

MovePrevSib(h) ==
  IF Here(h).curr <= 1 THEN Fails(h, "NO_PREV")
  ELSE Hands(SetHere(h, [Here(h) EXCEPT !.curr = @ - 1, !.visit = IF Leaf(h) THEN @ ELSE 1]))

MoveUp(h, prev) ==
  IF Level(h) = 0 THEN Fails(h, "NO_UP")
  ELSE LET Seen(u) == IF prev THEN SetHere(u, [Here(u) EXCEPT !.visit = 0]) ELSE u
       IN  Hands(Seen([h EXCEPT !.path = Front(@)]))

MoveDown(h, last) ==
  IF Here(h).curr = 0 \/ Leaf(h) THEN Fails(h, "NO_DOWN")
  ELSE LET blk == Now(h)[Here(h).curr].p
       IN  Hands([h EXCEPT !.path = Append(@,
             [blk |-> blk, end |-> EndBlk(h),
              curr |-> IF last THEN Len(h.node[blk]) ELSE 1,
              visit |-> IF last /\ Level(h) + 1 < h.depth THEN 1 ELSE 0])])

MoveFirstSib(h) == MoveNextSib(SetHere(h, [Here(h) EXCEPT !.curr = 0]))
MoveRoot(h) == MoveFirstSib([h EXCEPT !.path = <<Head(@)>>])

\* EXT2_EXTENT_NEXT_LEAF and EXT2_EXTENT_PREV_LEAF: moves until the level of the leaves.
\* An index that was not visited yet is entered first.
RECURSIVE GetNextLeaf(_)
GetNextLeaf(h) ==
  LET On(m) == IF m.ret # "" \/ Leaf(m) THEN m ELSE GetNextLeaf(m)
  IN  On(IF ~Leaf(h) /\ Here(h).visit = 0
         THEN MoveDown(SetHere(h, [Here(h) EXCEPT !.visit = 1]), FALSE)
         ELSE IF Left(h) > 0 THEN MoveNextSib(h)
         ELSE IF Level(h) > 0 THEN MoveUp(h, FALSE)
         ELSE Fails(h, "NO_NEXT"))

RECURSIVE GetPrevLeaf(_)
GetPrevLeaf(h) ==
  LET On(m) == IF m.ret # "" \/ Leaf(m) THEN m ELSE GetPrevLeaf(m)
  IN  On(IF ~Leaf(h) /\ Here(h).visit > 0 THEN MoveDown(h, TRUE)
         ELSE IF Here(h).curr > 1 THEN MovePrevSib(h)
         ELSE IF Level(h) > 0 THEN MoveUp(h, TRUE)
         ELSE Fails(h, "NO_PREV"))

\* ext2fs_extent_goto2, whose level counts from the leaves.  In a hole it stops at the
\* extent before.
RECURSIVE GotoWalk(_, _, _)
GotoWalk(h, height, blk) ==
  LET e == h.ext
      Walk(g) == GotoWalk(g, height, blk)
      Along(next) == IF next.ret # "" THEN Fails(next, "NOT_FOUND") ELSE Walk(next)
      Below(next) == IF next.ret # "" \/ blk = next.ext.l THEN next ELSE MovePrevSib(next)
      Index(next) == IF next.ret = "" /\ blk > next.ext.l THEN Walk(next)
                     ELSE AndThen(MoveDown(Below(next), FALSE), Walk)
  IN  IF h.depth - Level(h) # height THEN Index(MoveNextSib(h))
      ELSE IF blk >= e.l /\ blk < e.l + e.n THEN h
      ELSE IF blk < e.l THEN Fails(MovePrevSib(h), "NOT_FOUND")
      ELSE Along(MoveNextSib(h))

GotoFrom(r, height, blk) ==
  IF r.ret # "" THEN Fails(r, "NOT_FOUND")
  ELSE IF height > r.depth THEN Fails(r, "OP_NOT_SUPPORTED")
  ELSE GotoWalk(r, height, blk)
ext2fs_extent_goto2(h, height, blk) == GotoFrom(MoveRoot(h), height, blk)
ext2fs_extent_goto(h, blk) == ext2fs_extent_goto2(h, 0, blk)

------------------------------------------------------------------------------
PutNode(f, blk, ents) == [b \in DOMAIN f \cup {blk} |-> IF b = blk THEN ents ELSE f[b]]
SetNow(h, entries) == IF Level(h) = 0 THEN [h EXCEPT !.root = entries]
                      ELSE [h EXCEPT !.node = PutNode(h.node, Here(h).blk, entries)]

\* ext2fs_extent_replace; an index has no length and no flag.  (The lengths that the callers
\* pass are within the limits.)
ext2fs_extent_replace(h, e) ==
  IF Here(h).curr = 0 THEN Fails(h, "NO_CURRENT_NODE")
  ELSE LET entry == IF Leaf(h) THEN e ELSE Extent(e.l, e.p, 0, FALSE)
       IN  Fails(SetNow(h, [Now(h) EXCEPT ![Here(h).curr] = entry]), "")

\* ext2fs_extent_fix_parents: while the entry is the first of its node, the index above
\* takes its start; then back to where it was.
RECURSIVE FixUp(_, _)
FixUp(h, start) ==
  IF Level(h) = 0 \/ Here(h).curr # 1 THEN h
  ELSE LET Above(u) == IF u.ext.l = start THEN u
                       ELSE FixUp(ext2fs_extent_replace(u, [u.ext EXCEPT !.l = start]), start)
       IN  Above(MoveUp(h, FALSE))

ext2fs_extent_fix_parents(h) ==
  IF Here(h).curr = 0 THEN Fails(h, "NO_CURRENT_NODE")
  ELSE LET start == Now(h)[Here(h).curr].l
       IN  ext2fs_extent_goto2(FixUp(h, start), h.depth - Level(h), start)

\* ext2fs_new_block3: the first clear bit from the goal on, then from the start; 0 is
\* EXT2_ET_BLOCK_ALLOC_FAIL.
ext2fs_new_block3(inuse, goal) ==
  LET free == Pblks \ inuse
      from == {b \in free : b >= goal}
  IN  IF free = {} THEN 0 ELSE IF from # {} THEN Min(from) ELSE Min(free)

\* The insertion itself, into a node that has room.
InsertHere(h, after, e) ==
  LET at == IF Here(h).curr = 0 THEN 1 ELSE IF after THEN Here(h).curr + 1 ELSE Here(h).curr
  IN  ext2fs_extent_replace(SetHere(SetNow(h, InsertAt(Now(h), at, NoExtent)),
                                    [Here(h) EXCEPT !.curr = at]), e)

\* splitting_at_eof: no entry follows on any level.
splitting_at_eof(h) ==
  Level(h) > 0 /\ \A i \in DOMAIN h.path : h.path[i].curr = Len(Entries(h, i - 1))

\* The new block with the entries moved, and its index: the only one of a new root, or after
\* the one of the node that keeps the rest.
Linked(h, blk, moved, rest) ==
  LET index == Extent(moved[1].l, blk, 0, FALSE)
      made  == [h EXCEPT !.used = @ \cup {blk}, !.node = PutNode(h.node, blk, moved)]
  IN  IF Level(h) = 0
      THEN [made EXCEPT !.root = <<index>>, !.depth = @ + 1, !.path[1].curr = 1,
                        !.path[1].visit = 0]
      ELSE InsertHere(MoveUp(SetNow(made, rest), FALSE), TRUE, index)

\* A new block takes all the entries of the root, one entry at the end of the file, or half
\* of them.
SplitNode(h, goal, expand_allowed) ==
  LET ents == Now(h)
      tocopy == IF Level(h) = 0 THEN Len(ents)
                ELSE IF expand_allowed /\ splitting_at_eof(h) THEN 1 ELSE Len(ents) \div 2
      kept == Len(ents) - tocopy
      Into(blk) == IF blk = 0 THEN Fails(h, "BLOCK_ALLOC_FAIL")
                   ELSE Linked(h, blk, SubSeq(ents, kept + 1, Len(ents)), SubSeq(ents, 1, kept))
  IN  IF tocopy = 0 THEN Fails(h, "CANT_SPLIT_EXTENT") ELSE Into(ext2fs_new_block3(h.used, goal))

\* extent_node_split: the parent first if it is full; then this node; then back to the entry.
RECURSIVE extent_node_split(_, _)
extent_node_split(h, expand_allowed) ==
  LET Back(k)  == ext2fs_extent_goto2(k, h.depth - Level(h), Hands(h).ext.l)
      Split(k) == SplitNode(k, Now(h)[1].p - 1, expand_allowed)
      Count(k) == [k EXCEPT !.iblk = @ + 1]
      parent == IF Level(h) = 0 \/ ~Full(h, Level(h) - 1) THEN Fails(h, "")
                ELSE AndThen(extent_node_split(MoveUp(h, FALSE), expand_allowed), Back)
  IN  IF Here(h).curr = 0 THEN Fails(h, "NO_CURRENT_NODE")
      ELSE AndThen(AndThen(AndThen(parent, Split), Back), Count)

ext2fs_extent_insert(h, after, e) ==
  LET Insert(k) == InsertHere(k, after, e)
  IN  AndThen(IF Full(h, Level(h)) THEN extent_node_split(h, TRUE) ELSE Fails(h, ""), Insert)

\* ext2fs_extent_delete: a node that is left empty goes with its index.
RECURSIVE ext2fs_extent_delete(_)
ext2fs_extent_delete(h) ==
  LET at   == Here(h).curr
      rest == RemoveAt(Now(h), at)
      curr == IF Left(h) > 0 THEN at ELSE at - 1
      cut  == SetHere(SetNow(h, rest), [Here(h) EXCEPT !.curr = curr])
      Free(g, blk) == [g EXCEPT !.ret = "", !.iblk = @ - 1, !.used = @ \ {blk},
                                !.node = Restrict(@, DOMAIN @ \ {blk})]
      Emptied(up) == Free(ext2fs_extent_delete(up), up.ext.p)
  IN  IF at = 0 THEN Fails(h, "NO_CURRENT_NODE")
      ELSE IF rest = <<>> /\ Level(h) > 0 THEN Emptied(MoveUp(h, FALSE))
      ELSE [cut EXCEPT !.ret = "", !.depth = IF rest = <<>> THEN 0 ELSE @]

------------------------------------------------------------------------------
\* ext2fs_extent_set_bmap, case by case.  At the end the handle goes back to where it was,
\* whatever happened.

\* Mutant: whether both are initialised is not asked.
Joins_any(e, f) == e.l + e.n = f.l /\ e.p + e.n = f.p

\* The second extent continues the first.
Joins(e, f) == e.l + e.n = f.l /\ e.p + e.n = f.p /\ e.u = f.u
Longer(e, max) == e.n < max - 1
Grown(e) == Extent(e.l, e.p, e.n + 1, e.u)
GrownDown(e) == Extent(e.l - 1, e.p - 1, e.n + 1, e.u)

\* The extent after or before the handle grows over the block.
GrowNext(h) == AndThen(GetNextLeaf(h), LAMBDA g : ext2fs_extent_replace(g, GrownDown(g.ext)))
GrowPrev(h) == AndThen(GetPrevLeaf(h), LAMBDA g : ext2fs_extent_replace(g, Grown(g.ext)))

SetUnmapped(h, e, next, new, max) ==
  AndThen(IF Joins(e, new) /\ Longer(e, max) THEN ext2fs_extent_replace(h, Grown(e))
       ELSE IF Joins(new, e) /\ Longer(e, max) THEN ext2fs_extent_replace(h, GrownDown(e))
       ELSE IF next.ret = "" /\ Joins(new, next.ext) /\ Longer(next.ext, max) THEN GrowNext(h)
       ELSE ext2fs_extent_insert(h, new.l >= e.l, new),
       ext2fs_extent_fix_parents)

\* The extent of the handle is deleted; a tree that is left empty is no error.
IfAny(f) == IF f.ret = "NO_CURRENT_NODE" THEN Fails(f, "") ELSE f
FixAfterDelete(d) == IfAny(ext2fs_extent_fix_parents(d))
DeleteHere(h) == AndThen(ext2fs_extent_delete(h), FixAfterDelete)

SetOnly(h, new) ==
  IF new # NoExtent THEN ext2fs_extent_replace(h, new) ELSE DeleteHere(h)

ReplaceAndFix(h, e) == AndThen(ext2fs_extent_replace(h, e), ext2fs_extent_fix_parents)
Shorten(h) == ext2fs_extent_replace(h, [h.ext EXCEPT !.n = @ - 1])
Advance(h) == ReplaceAndFix(h, Extent(h.ext.l + 1, h.ext.p + 1, h.ext.n - 1, h.ext.u))

SetLast(h, l, next, new, max) ==
  LET Back(k) == ext2fs_extent_goto(k, l)
  IN  IF new = NoExtent THEN Shorten(h)
      ELSE AndThen(AndThen(AndThen(IF next.ret = "" /\ Joins(new, next.ext) /\ Longer(next.ext, max)
                          THEN GrowNext(h) ELSE ext2fs_extent_insert(h, TRUE, new),
                          ext2fs_extent_fix_parents), Back), Shorten)

SetFirst(h, prev, new, max) ==
  IF new = NoExtent THEN Advance(h)
  ELSE AndThen(AndThen(AndThen(IF prev.ret = "" /\ Joins(prev.ext, new) /\ Longer(prev.ext, max)
                      THEN GrowPrev(h) ELSE ext2fs_extent_insert(h, FALSE, new),
                      ext2fs_extent_fix_parents), GetNextLeaf), Advance)

\* The extent is put back; the error stays.
PutBack(r, e, err) == Fails(IF r.ret = "" THEN ext2fs_extent_replace(r, e) ELSE r, err)
Restore(h, e, err) == PutBack(ext2fs_extent_goto(h, e.l), e, err)
DropNew(h, l, new) == IF new = NoExtent THEN h
                      ELSE AndThen(ext2fs_extent_goto(h, l), ext2fs_extent_delete)
SplitEnds(h, l, e, new) == IF h.ret = "" THEN h ELSE Restore(DropNew(h, l, new), e, h.ret)
SplitTail(h, l, e, new) ==
  LET tail == Extent(l + 1, e.p + (l - e.l) + 1, e.n - (l - e.l) - 1, e.u)
  IN  IF h.ret # "" THEN Restore(h, e, h.ret)
      ELSE SplitEnds(ext2fs_extent_insert(h, TRUE, tail), l, e, new)
SetMiddle(h, l, e, new) ==
  LET head == ext2fs_extent_replace(h, [e EXCEPT !.n = l - e.l])
  IN  SplitTail(IF new = NoExtent THEN head ELSE ext2fs_extent_insert(head, TRUE, new), l, e, new)

\* From where ext2fs_extent_goto has stopped: at the extent of the block, or at one near it.
SetFrom(g, l, new, physical, uninit) ==
  LET max  == IF uninit THEN MaxLen - 1 ELSE MaxLen
      e    == Hands(g).ext
      h    == [g EXCEPT !.ret = "", !.ext = e]
      next == GetNextLeaf(Hands(g))
      prev == GetPrevLeaf(Fails(g, ""))
  IN  IF g.ret # "" THEN IF physical = 0 THEN h ELSE SetUnmapped(h, e, next, new, max)
      ELSE IF e.u = uninit /\ e.p + (l - e.l) = physical THEN h
      ELSE IF l = e.l /\ e.n = 1 THEN SetOnly(h, new)
      ELSE IF l = e.l + e.n - 1 THEN SetLast(h, l, next, new, max)
      ELSE IF l = e.l THEN SetFirst(h, prev, new, max)
      ELSE SetMiddle(h, l, e, new)

ext2fs_extent_set_bmap(h, l, physical, uninit) ==
  LET new == IF physical = 0 THEN NoExtent ELSE Extent(l, physical, 1, uninit)
  IN  IF h.depth = 0 /\ h.root = <<>> THEN ext2fs_extent_insert(h, FALSE, new)
      ELSE SetFrom(ext2fs_extent_goto(h, l), l, new, physical, uninit)

\* extent_bmap without BMAP_ALLOC: the block of the extent that covers l.
Lookup(h, l) ==
  LET Found(g) == IF g.ret # "" THEN NoMap ELSE [p |-> g.ext.p + (l - g.ext.l), u |-> g.ext.u]
  IN  Found(ext2fs_extent_goto(h, l))

\* extent_bmap with BMAP_ALLOC: a block next to the one before is allocated, and freed again
\* if it cannot be mapped.  ext2fs_bmap2 counts it in i_blocks.
Goal(h, l) == IF l = 0 THEN 0 ELSE Lookup(h, l - 1).p

\* Mutant: a block that could not be mapped stays in use.
Counted_kept(h, blk) == IF h.ret # "" THEN h ELSE [h EXCEPT !.iblk = @ + 1]

Counted(h, blk) == IF h.ret # "" THEN [h EXCEPT !.used = @ \ {blk}] ELSE [h EXCEPT !.iblk = @ + 1]

MapNew(h, l, uninit, blk) ==
  IF blk = 0 THEN Fails(h, "BLOCK_ALLOC_FAIL")
  ELSE Counted(ext2fs_extent_set_bmap([h EXCEPT !.used = @ \cup {blk}], l, blk, uninit), blk)

BmapAlloc(h, l, uninit) ==
  IF Lookup(h, l) # NoMap THEN h ELSE MapNew(h, l, uninit, ext2fs_new_block3(h.used, Goal(h, l)))

\* ext2fs_punch_extent: from the extent at or before the start on, each extent is cut at its
\* front or its end, split, or deleted, and its blocks are freed; an error leaves the loop
\* before i_blocks is reduced.
RECURSIVE PunchLoop(_, _, _, _)
PunchLoop(h, start, end, freed) ==
  LET e    == h.ext
      next == e.l + e.n
      front == start <= e.l
      back  == ~front /\ end >= next - 1
      count == IF front THEN (IF next > end THEN end - e.l + 1 ELSE e.n)
               ELSE IF back THEN next - start ELSE end - start + 1
      first == IF front THEN e.p ELSE e.p + (start - e.l)
      kept  == IF front THEN Extent(e.l + count, e.p + count, e.n - count, e.u)
               ELSE [e EXCEPT !.n = start - e.l]
      tail  == Extent(end + 1, e.p + (end + 1 - e.l), next - end - 1, e.u)
      Freed(k) == [k EXCEPT !.used = @ \ (first .. first + count - 1)]
      Go(k, n) == IF k.ret \in {"NO_NEXT", "NO_CURRENT_NODE"}
                  THEN [k EXCEPT !.ret = "", !.iblk = @ - n]
                  ELSE IF k.ret # "" THEN k ELSE PunchLoop(k, start, end, n)
      BackTo(k) == ext2fs_extent_goto(k, e.l)
      \* the middle is punched: the extent is split first
      split == IF front \/ back THEN h
               ELSE AndThen(AndThen(ext2fs_extent_insert(h, TRUE, tail), ext2fs_extent_fix_parents),
                            BackTo)
      \* part of it stays
      Shrunk(k) == Go(GetNextLeaf(Freed(k)), freed + count)
      Shrink(k) == AndThen(ReplaceAndFix(k, kept), Shrunk)
      \* all of it goes: the one after is found first, and gone to at the end
      Jump(k, l) == AndThen(k, LAMBDA d : Go(Hands(Freed(ext2fs_extent_goto(d, l))), freed + count))
      Delete(after) == Jump(AndThen(BackTo(after), DeleteHere),
                            IF after.ret = "" THEN after.ext.l ELSE e.l)
  IN  IF front /\ end < e.l THEN [h EXCEPT !.iblk = @ - freed]
      ELSE IF back /\ start >= next THEN Go(GetNextLeaf(h), freed)
      ELSE IF kept.n > 0 THEN AndThen(split, Shrink)
      ELSE Delete(GetNextLeaf(Hands(h)))

PunchFrom(g, start, end) == IF g.ret # "" THEN Fails(g, "") ELSE PunchLoop(g, start, end, 0)
ext2fs_punch_extent(h, start, end) == PunchFrom(Hands(ext2fs_extent_goto(h, start)), start, end)

------------------------------------------------------------------------------
TreeInit ==
  /\ inode = [root |-> <<>>, depth |-> 0, iblk |-> 0]
  /\ nodes = [b \in {} |-> <<>>]
  /\ used = Taken
  /\ want = [l \in Lblks |-> NoMap]
  /\ ret = ""
  /\ calls = 0

\* A call ends: the inode, the blocks of the tree and the bitmap are as it left them.
Ends(h) ==
  /\ inode' = [root |-> h.root, depth |-> h.depth, iblk |-> h.iblk]
  /\ nodes' = h.node
  /\ ret' = h.ret
  /\ calls < MaxTreeCalls /\ calls' = calls + 1

extent_bmap(l, uninit, size) ==
  \E h \in {BmapAlloc(ext2fs_extent_open2(size), l, uninit)} :
    LET new == h.used \ (used \cup DOMAIN h.node)
    IN  /\ Ends(h) /\ used' = h.used
        /\ want' = IF new = {} THEN want ELSE [want EXCEPT ![l] = [p |-> Min(new), u |-> uninit]]

PunchFile(start, end, size) ==
  \E h \in {ext2fs_punch_extent(ext2fs_extent_open2(size), start, end)} :
    /\ Ends(h) /\ used' = h.used
    /\ want' = [l \in Lblks |-> IF l \in start .. end THEN NoMap ELSE want[l]]

\* The block before or after l is mapped next to p.
NextToNeighbour(l, p) ==
  \/ l > 0 /\ want[l-1] # NoMap /\ want[l-1].p = p - 1
  \/ l < MaxLblk /\ want[l+1].p = p + 1

\* A caller of the block iterator moves a block: it allocates the new one, and frees the old
\* one or, on an error, the new one.
Remap(l, p, size) ==
  /\ want[l] # NoMap /\ p \notin used /\ (RemapJoins \/ ~NextToNeighbour(l, p))
  /\ \E h \in {ext2fs_extent_set_bmap([ext2fs_extent_open2(size) EXCEPT !.used = @ \cup {p}],
                                      l, p, want[l].u)} :
       /\ Ends(h) /\ used' = h.used \ {IF h.ret = "" THEN want[l].p ELSE p}
       /\ want' = IF h.ret = "" THEN [want EXCEPT ![l].p = p] ELSE want

\* A caller of the block iterator unmaps a block and frees it.
Unmap(l, size) ==
  /\ want[l] # NoMap
  /\ \E h \in {ext2fs_extent_set_bmap(ext2fs_extent_open2(size), l, 0, FALSE)} :
       /\ Ends([h EXCEPT !.iblk = IF h.ret = "" THEN @ - 1 ELSE @])
       /\ used' = IF h.ret = "" THEN h.used \ {want[l].p} ELSE h.used
       /\ want' = IF h.ret = "" THEN [want EXCEPT ![l] = NoMap] ELSE want

TreeNext == \E size \in FileSizes :
  \/ \E l \in Lblks : extent_bmap(l, l \in UninitBlocks, size)
  \/ \E s, e \in Lblks : s <= e /\ PunchFile(s, e, size)
  \/ \E l \in Lblks, p \in RemapTo : Remap(l, p, size)
  \/ \E l \in Lblks : Unmap(l, size)

TreeSpec == TreeInit /\ [][TreeNext]_treeVars

------------------------------------------------------------------------------
\* What a fresh handle finds for every block of the file is what the calls have mapped,
\* whatever nodes they have split, emptied and freed (ext2fs_extent_set_bmap,
\* ext2fs_punch_extent), and no call has failed for another reason than a full file system.
MapIsKept ==
  /\ \A l \in Lblks, size \in FileSizes : Lookup(ext2fs_extent_open2(size), l) = want[l]
  /\ ret \in {"", "BLOCK_ALLOC_FAIL"}

\* The bitmap holds the blocks of the file, of its tree and of others, each once, and
\* i_blocks counts the first two.
BlocksAreCounted ==
  LET data == {want[l].p : l \in Lblks} \ {0}
      tree == DOMAIN nodes
  IN  /\ used = Taken \cup data \cup tree
      /\ Taken \cap (data \cup tree) = {} /\ data \cap tree = {}
      /\ Cardinality(data) = Cardinality({l \in Lblks : want[l] # NoMap})
      /\ inode.iblk = Cardinality(data) + Cardinality(tree)
==============================================================================
