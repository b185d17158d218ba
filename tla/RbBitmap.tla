------------------------------- MODULE RbBitmap -------------------------------
(****************************************************************************)
(* The bitmap of libext2fs that keeps extents in a red-black tree           *)
(* (lib/ext2fs/blkmap64_rb.c) under the generic layer (gen_bitmap64.c).     *)
(*                                                                          *)
(* The tree is a set of nodes in the order of their start; the shape of the *)
(* tree decides only which neighbour a search that fails ends on, and no    *)
(* result depends on it.  Nodes have an identity, since three cursors point *)
(* at them.                                                                 *)
(****************************************************************************)
EXTENDS Integers, FiniteSets, SequencesExt

CONSTANTS
  First,         \* bitmap->start
  MaxEnd,        \* bound on bitmap->real_end
  ClusterRatio   \* 1 << cluster_bits

VARIABLES
  bp,     \* struct ext2fs_rb_private: the nodes and the cursors
  range   \* bitmap->end and bitmap->real_end

rbVars == <<bp, range>>

NULL == 0
NoNodes == [i \in {} |-> NULL]
EmptyTree == [ext |-> NoNodes, rcursor |-> NULL, rcursor_next |-> NULL, wcursor |-> NULL]

ExtEnd(e) == e.start + e.count
Nodes(t) == DOMAIN t.ext
NewNode(t) == Min(1 .. Cardinality(Nodes(t)) + 1 \ Nodes(t))
SetNode(t, i, e) == [t EXCEPT !.ext = [x \in DOMAIN @ \cup {i} |-> IF x = i THEN e ELSE @[x]]]

\* The node after node i; module RbTree shows that the walk of rbtree.c gives it.
After(t, i) == {j \in Nodes(t) : t.ext[j].start > t.ext[i].start}
rb_next(t, i) ==
  IF After(t, i) = {} THEN NULL
  ELSE CHOOSE j \in After(t, i) : \A k \in After(t, i) : t.ext[j].start <= t.ext[k].start

\* Mutant: the write cursor is not cleared.
rb_free_extent_wcursor_kept(t, gone) ==
  LET Keep(c) == IF c \in gone THEN NULL ELSE c
  IN  [ext |-> [i \in Nodes(t) \ gone |-> t.ext[i]], rcursor |-> Keep(t.rcursor),
       rcursor_next |-> Keep(t.rcursor_next), wcursor |-> t.wcursor]

\* ext2fs_rb_erase and rb_free_extent: no cursor keeps pointing at the node.
rb_free_extent(t, gone) ==
  LET Keep(c) == IF c \in gone THEN NULL ELSE c
  IN  [ext |-> [i \in Nodes(t) \ gone |-> t.ext[i]], rcursor |-> Keep(t.rcursor),
       rcursor_next |-> Keep(t.rcursor_next), wcursor |-> Keep(t.wcursor)]

\* The node that holds a bit, or NULL.
Holding(t, bit) ==
  LET h == {i \in Nodes(t) : bit \in t.ext[i].start .. ExtEnd(t.ext[i]) - 1}
  IN  IF h = {} THEN NULL ELSE CHOOSE i \in h : TRUE

------------------------------------------------------------------------------
\* rb_test_bit: the read cursor and its successor first, then the write cursor, then
\* the tree.
rb_test_bit(t, bit) ==
  LET In(i)  == i # NULL /\ bit \in t.ext[i].start .. ExtEnd(t.ext[i]) - 1
      next   == IF t.rcursor_next # NULL THEN t.rcursor_next ELSE rb_next(t, t.rcursor)
      gap    == t.rcursor # NULL /\ next # NULL /\ bit \in ExtEnd(t.ext[t.rcursor]) .. t.ext[next].start - 1
      lost   == [t EXCEPT !.rcursor = NULL, !.rcursor_next = NULL]
      found  == Holding(t, bit)
      Search(u) == IF found = NULL THEN [t |-> u, ret |-> 0]
                   ELSE [t |-> [u EXCEPT !.rcursor = found, !.rcursor_next = NULL], ret |-> 1]
  IN  IF t.rcursor = NULL THEN Search(t)
      ELSE IF In(t.rcursor) THEN [t |-> t, ret |-> 1]
      ELSE IF gap THEN [t |-> [t EXCEPT !.rcursor_next = next], ret |-> 0]
      ELSE IF In(t.wcursor) THEN [t |-> lost, ret |-> 1]
      ELSE Search(lost)

\* rb_insert_extent: grow the extent at the write cursor or one found in the tree, or
\* add one; then swallow the extents that the new one reaches.  (An extent that ends where
\* the new one starts is one that the search finds, so the merge to the left has no case.)
rb_insert_extent(start, count, u) ==
  LET t      == [u EXCEPT !.rcursor_next = NULL]
      Touches(i) == start \in t.ext[i].start .. ExtEnd(t.ext[i])
      at     == IF t.wcursor # NULL /\ Touches(t.wcursor) THEN {t.wcursor}
                ELSE {i \in Nodes(t) : Touches(i)}
      grow   == at # {}
      node   == IF grow THEN CHOOSE i \in at : TRUE ELSE NewNode(t)
      s      == IF grow THEN t.ext[node].start ELSE start
      over   == {i \in Nodes(t) \ {node} : t.ext[i].start > s /\ t.ext[i].start <= start + count}
      end    == Max({start + count} \cup {ExtEnd(t.ext[i]) : i \in over})
      merged == SetNode(rb_free_extent(t, over), node, [start |-> s, count |-> end - s])
  IN  IF count = 0 THEN [t |-> u, ret |-> 0]
      ELSE IF grow /\ start + count <= ExtEnd(t.ext[node]) THEN [t |-> t, ret |-> 1]
      ELSE IF grow THEN [t |-> merged, ret |-> IF ExtEnd(t.ext[node]) = start THEN 0 ELSE 1]
      ELSE [t |-> [merged EXCEPT !.wcursor = node], ret |-> 0]

\* rb_remove_extent: split, cut or erase the extent that holds the start, then erase or
\* cut the extents to its right.
rb_remove_extent(start, count, t) ==
  LET i     == Holding(t, start)
      e     == t.ext[i]
      stop  == start + count
      t1    == IF i = NULL THEN t
               ELSE IF e.start = start THEN rb_free_extent(t, {i})
               ELSE SetNode(t, i, [start |-> e.start, count |-> start - e.start])
      right == {j \in Nodes(t1) : ExtEnd(t1.ext[j]) > start /\ t1.ext[j].start <= stop}
      gone  == {j \in right : ExtEnd(t1.ext[j]) <= stop}
      t2    == rb_free_extent(t1, gone)
      cut   == right \ gone
      t3    == [t2 EXCEPT !.ext = [j \in DOMAIN @ |->
                   IF j \in cut THEN [start |-> stop, count |-> ExtEnd(@[j]) - stop] ELSE @[j]]]
  IN  IF i # NULL /\ e.start < start /\ stop < ExtEnd(e)
      THEN [t |-> rb_insert_extent(stop, ExtEnd(e) - stop,
                    SetNode(t, i, [start |-> e.start, count |-> start - e.start])).t, ret |-> 1]
      ELSE IF i # NULL /\ e.start = start /\ stop < ExtEnd(e)
      THEN [t |-> SetNode(t, i, [start |-> stop, count |-> ExtEnd(e) - stop]), ret |-> 1]
      ELSE [t |-> t3, ret |-> IF i # NULL \/ right # {} THEN 1 ELSE 0]

\* rb_truncate, which forgets no cursor: its caller does.
rb_truncate(new_max, t) ==
  LET kept == {i \in Nodes(t) : t.ext[i].start <= new_max}
  IN  [t EXCEPT !.ext = [i \in kept |-> IF ExtEnd(@[i]) - 1 <= new_max THEN @[i]
                         ELSE [start |-> @[i].start, count |-> new_max - @[i].start + 1]]]

------------------------------------------------------------------------------
\* The generic layer: a block is converted to a cluster and checked, and the operations
\* count bits from the start of the bitmap.  A call yields the tree and what it returns.
Cluster(b) == b \div ClusterRatio
Blocks == First * ClusterRatio .. (MaxEnd + 1) * ClusterRatio - 1
Bit(c) == c - First
InBitmap(b) == Cluster(b) >= First /\ Cluster(b) <= range.end
Refused(ret) == [t |-> bp, ret |-> ret]
ENOENT == -1
EINVAL == -2

ext2fs_mark_generic_bmap(b) ==
  IF InBitmap(b) THEN rb_insert_extent(Bit(Cluster(b)), 1, bp) ELSE Refused(0)

ext2fs_unmark_generic_bmap(b) ==
  IF InBitmap(b) THEN rb_remove_extent(Bit(Cluster(b)), 1, bp) ELSE Refused(0)

ext2fs_test_generic_bmap(b) ==
  IF InBitmap(b) THEN rb_test_bit(bp, Bit(Cluster(b))) ELSE Refused(0)

\* Mutant: the end of the range is rounded down to a cluster.
NumClustersDown(b, n) == (b + n) \div ClusterRatio - Cluster(b)

\* The number of clusters that n blocks from b on touch.
NumClusters(b, n) == (b + n + ClusterRatio - 1) \div ClusterRatio - Cluster(b)
RangeInBitmap(b, n) == Cluster(b) >= First /\ Cluster(b) + NumClusters(b, n) - 1 <= range.end

ext2fs_mark_block_bitmap_range2(b, n) ==
  IF RangeInBitmap(b, n) THEN rb_insert_extent(Bit(Cluster(b)), NumClusters(b, n), bp) ELSE Refused(0)

ext2fs_unmark_block_bitmap_range2(b, n) ==
  IF RangeInBitmap(b, n) THEN rb_remove_extent(Bit(Cluster(b)), NumClusters(b, n), bp) ELSE Refused(0)

\* rb_test_clear_bmap_extent: clear unless the tree holds the start or has a node in the
\* range.
rb_test_clear_bmap_extent(start, len) ==
  IF Holding(bp, start) # NULL \/ \E i \in Nodes(bp) : bp.ext[i].start \in start .. start + len - 1
  THEN 0 ELSE 1

ext2fs_test_block_bitmap_range2(b, n) ==
  IF n = 1 THEN [ext2fs_test_generic_bmap(b) EXCEPT !.ret = 1 - @]
  ELSE IF RangeInBitmap(b, n)
  THEN Refused(rb_test_clear_bmap_extent(Bit(Cluster(b)), NumClusters(b, n)))
  ELSE Refused(EINVAL)

\* rb_find_first_zero: the start, or the end of the extent that holds it.
rb_find_first_zero(start, end) ==
  LET i == Holding(bp, start)
  IN  IF Nodes(bp) = {} THEN ENOENT
      ELSE IF i = NULL THEN start
      ELSE IF ExtEnd(bp.ext[i]) <= end THEN ExtEnd(bp.ext[i]) ELSE ENOENT

\* rb_find_first_set: the start, or the start of the next extent.
rb_find_first_set(start, end) ==
  LET later == {bp.ext[i].start : i \in {j \in Nodes(bp) : bp.ext[j].start >= start}}
  IN  IF Holding(bp, start) # NULL THEN start
      ELSE IF later = {} \/ Min(later) > end THEN ENOENT ELSE Min(later)

\* What was found is turned back into a block, not before the start that was asked for.
FoundBlock(bit, b) == IF bit = ENOENT THEN ENOENT ELSE Max({b, (First + bit) * ClusterRatio})
FindInBitmap(b, e) == Cluster(b) >= First /\ Cluster(e) <= range.end /\ b <= e

ext2fs_find_first_zero_generic_bmap(b, e) ==
  IF FindInBitmap(b, e) THEN FoundBlock(rb_find_first_zero(Bit(Cluster(b)), Bit(Cluster(e))), b) ELSE EINVAL

ext2fs_find_first_set_generic_bmap(b, e) ==
  IF FindInBitmap(b, e) THEN FoundBlock(rb_find_first_set(Bit(Cluster(b)), Bit(Cluster(e))), b) ELSE EINVAL

------------------------------------------------------------------------------
\* rb_set_bmap_range: each run of set bits in the buffer is inserted, from left to right.
Runs(bits) ==
  {r \in [start : bits, count : 1 .. Cardinality(bits)] :
     /\ r.start .. ExtEnd(r) - 1 \subseteq bits
     /\ r.start - 1 \notin bits /\ ExtEnd(r) \notin bits}
RunSeq(bits) == SetToSortSeq(Runs(bits), LAMBDA r, q : r.start < q.start)
InsertRun(t, r) == rb_insert_extent(r.start, r.count, t).t
ext2fs_set_generic_bmap_range(cs) == FoldLeft(InsertRun, bp, RunSeq({Bit(c) : c \in cs}))

\* rb_get_bmap_range clears the buffer and sets what each extent shares with the range; an
\* empty tree returns first, and the buffer keeps what the caller had in it.
ext2fs_get_generic_bmap_range(b, e, buffer) ==
  IF Nodes(bp) = {} THEN buffer ELSE {c \in b .. e : Holding(bp, Bit(c)) # NULL}

\* rb_resize_bmap: cut at the smaller end, and insert the padding.
ext2fs_resize_generic_bmap(e, r) ==
  LET cut == rb_truncate(Bit(Min({e, range.end})), [bp EXCEPT !.rcursor = NULL, !.wcursor = NULL])
  IN  IF e < r THEN rb_insert_extent(Bit(e + 1), r - e, cut).t ELSE cut

ext2fs_set_generic_bmap_padding ==
  rb_insert_extent(Bit(range.end + 1), range.real_end - range.end, bp).t

\* rb_copy_bmap: the caller goes on with the copy, which has no cursors, or with the
\* source, which loses its read cursor.
ext2fs_copy_generic_bmap == {[EmptyTree EXCEPT !.ext = bp.ext], [bp EXCEPT !.rcursor = NULL]}

------------------------------------------------------------------------------
RbInit ==
  /\ bp = EmptyTree
  /\ range = [end |-> MaxEnd, real_end |-> MaxEnd]

Becomes(t) == bp' = t /\ UNCHANGED range

CallOnBlock == \E b \in Blocks :
  \/ Becomes(ext2fs_mark_generic_bmap(b).t)
  \/ Becomes(ext2fs_unmark_generic_bmap(b).t)
  \/ Becomes(ext2fs_test_generic_bmap(b).t)

CallOnRange == \E b, e \in Blocks :
  /\ b <= e
  /\ \/ Becomes(ext2fs_mark_block_bitmap_range2(b, e - b + 1).t)
     \/ Becomes(ext2fs_unmark_block_bitmap_range2(b, e - b + 1).t)
     \/ Becomes(ext2fs_test_block_bitmap_range2(b, e - b + 1).t)

ReadFromDisk == \E cs \in SUBSET (First .. range.real_end) : Becomes(ext2fs_set_generic_bmap_range(cs))

Resize == \E r \in First .. MaxEnd : \E e \in First .. r :
  bp' = ext2fs_resize_generic_bmap(e, r) /\ range' = [end |-> e, real_end |-> r]

\* ext2fs_fudge_generic_bmap_end moves the end for a while, and the bits stay.
ext2fs_fudge_generic_bmap_end == \E e \in First .. range.real_end :
  range' = [range EXCEPT !.end = e] /\ UNCHANGED bp

Pad == Becomes(ext2fs_set_generic_bmap_padding)
Copy == \E t \in ext2fs_copy_generic_bmap : Becomes(t)
rb_clear_bmap == Becomes(EmptyTree)

RbNext ==
  \/ CallOnBlock \/ CallOnRange \/ ReadFromDisk \/ Resize
  \/ ext2fs_fudge_generic_bmap_end \/ Pad \/ Copy \/ rb_clear_bmap

RbSpec == RbInit /\ [][RbNext]_rbVars

------------------------------------------------------------------------------
Members(t) == {First + b : b \in UNION {t.ext[i].start .. ExtEnd(t.ext[i]) - 1 : i \in Nodes(t)}}
Yes(p) == IF p THEN 1 ELSE 0

\* check_tree of the debugging build, after any sequence of calls: no node is empty, and two
\* nodes are apart by a clear bit.  The cursors that a search starts from point at nodes of
\* the tree, never at a node that a removal or a merge has freed, and the cached successor
\* is the successor.
TreeIsSound ==
  /\ \A i \in Nodes(bp) : bp.ext[i].count > 0
  /\ \A i, j \in Nodes(bp) : bp.ext[i].start < bp.ext[j].start =>
       ExtEnd(bp.ext[i]) < bp.ext[j].start
  /\ {bp.rcursor, bp.wcursor} \subseteq Nodes(bp) \cup {NULL}
  /\ bp.rcursor # NULL /\ bp.rcursor_next # NULL =>
       bp.rcursor_next = rb_next(bp, bp.rcursor)

\* In every state that the calls reach, a call changes the set of clusters as it would a
\* plain set, at every block and range, and a mark and a test return the old value: a wrong
\* merge or split, a stale cursor or a shift that rounds the wrong way shows here.  The
\* searches find the first block whose cluster is clear or set, and what is written to disk
\* is what is set; a bitmap with nothing set is excepted, where the search for a clear block
\* fails (rb_find_first_zero) and the buffer keeps what it held (rb_get_bmap_range).
CallsAreExact ==
  LET now == Members(bp)
      In(cs) == cs \subseteq First .. range.end
      FirstOf(b, cs) == IF cs = {} THEN ENOENT ELSE Max({b, Min(cs) * ClusterRatio})
  IN  /\ \A b \in Blocks :
           LET c == {Cluster(b)}
               mark == ext2fs_mark_generic_bmap(b)
               test == ext2fs_test_generic_bmap(b)
           IN  /\ Members(mark.t) = (IF In(c) THEN now \cup c ELSE now)
               /\ mark.ret = Yes(In(c) /\ c \subseteq now) /\ test.ret = mark.ret
               /\ Members(test.t) = now
               /\ Members(ext2fs_unmark_generic_bmap(b).t) = (IF In(c) THEN now \ c ELSE now)
      /\ \A b, e \in Blocks : b <= e =>
           LET cs == Cluster(b) .. Cluster(e)
               test == ext2fs_test_block_bitmap_range2(b, e - b + 1).ret
           IN  /\ Members(ext2fs_mark_block_bitmap_range2(b, e - b + 1).t) =
                    (IF In(cs) THEN now \cup cs ELSE now)
               /\ Members(ext2fs_unmark_block_bitmap_range2(b, e - b + 1).t) =
                    (IF In(cs) THEN now \ cs ELSE now)
               /\ In(cs) => test = Yes(cs \cap now = {})
               /\ FindInBitmap(b, e) =>
                    /\ ext2fs_find_first_set_generic_bmap(b, e) = FirstOf(b, cs \cap now)
                    /\ now # {} => ext2fs_find_first_zero_generic_bmap(b, e) = FirstOf(b, cs \ now)
      /\ \A cs \in SUBSET (First .. range.real_end) :
           Members(ext2fs_set_generic_bmap_range(cs)) = now \cup cs
      /\ now # {} => \A b, e \in First .. range.real_end :
           ext2fs_get_generic_bmap_range(b, e, {}) = b .. e \cap now
==============================================================================
