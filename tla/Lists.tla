-------------------------------- MODULE Lists --------------------------------
(******************************************************************************)
(* The sorted lists that e2fsck and the library keep in memory: the counts of *)
(* inodes (lib/ext2fs/icount.c), the reference counts of attribute blocks     *)
(* (e2fsck/ea_refcount.c), the allocated regions (e2fsck/region.c) and the    *)
(* lists of bad blocks (lib/ext2fs/badblocks.c).                              *)
(*                                                                            *)
(* A behaviour uses one of them.  Each comes with history, is: what the calls *)
(* so far have put there.  An index in a list counts from 1, 0 is none.       *)
(******************************************************************************)
EXTENDS Integers, FiniteSets, SequencesExt

CONSTANTS
  num_inodes,   \* the inodes, and the keys of the other lists
  CountCap,     \* icount_16_xlate: 65500
  MaxCounted,   \* bound on the counts
  Grow,         \* how many entries a full list gains
  RegionMax     \* the end of the region

VARIABLES container, list, is
listVars == <<container, list, is>>

Keys == 1 .. num_inodes
Zero == [k \in Keys |-> 0]

\* The binary search of get_icount_el and get_refcount_el: the place of the key, or how many
\* entries are below it.
Find(l, key) ==
  LET S[r \in (1 .. Len(l) + 1) \X (0 .. Len(l))] ==
        LET mid == (r[1] - 1 + r[2] - 1) \div 2 + 1
        IN  IF r[1] > r[2] THEN [found |-> FALSE, at |-> r[1]]
            ELSE IF key = l[mid].key THEN [found |-> TRUE, at |-> mid]
            ELSE IF key < l[mid].key THEN S[<<r[1], mid - 1>>] ELSE S[<<mid + 1, r[2]>>]
  IN  S[<<1, Len(l)>>]

\* get_icount_el and get_refcount_el without create: at the cursor, or by the search, which
\* moves it.  at = 0: there is none.
GetEl(c, key) ==
  LET cursor == IF c.cursor >= Len(c.list) THEN 0 ELSE c.cursor
      At(i) == [c |-> [c EXCEPT !.cursor = i], at |-> i]
      Searched(f) == IF f.found THEN At(f.at) ELSE [c |-> [c EXCEPT !.cursor = cursor], at |-> 0]
  IN  IF c.list = <<>> THEN [c |-> c, at |-> 0]
      ELSE IF c.list[cursor + 1].key = key THEN At(cursor + 1)
      ELSE Searched(Find(c.list, key))

\* The count at an element, and the list with another one there.
CountAt(g) == [c |-> g.c, n |-> IF g.at = 0 THEN 0 ELSE g.c.list[g.at].n]
SetAt(g, n) == IF g.at = 0 THEN g.c ELSE [g.c EXCEPT !.list[g.at].n = n]

------------------------------------------------------------------------------
\* icount.  multiple is a bitmap only with EXT2_ICOUNT_OPT_INCREMENT; the counts are in the
\* sorted list or in a tdb file.
NewIcount(inc, tdb) ==
  [inc |-> inc, tdb |-> tdb, single |-> {}, multiple |-> {}, list |-> <<>>, cursor |-> 0, last |-> 0,
   db |-> [k \in {} |-> 0]]

insert_icount_el(c, ino, pos) ==
  IF c.last # 0 /\ c.list[c.last].key = ino THEN [c |-> c, at |-> c.last]
  ELSE [c |-> [c EXCEPT !.list = InsertAt(@, pos, [key |-> ino, n |-> 0]), !.last = pos], at |-> pos]

get_icount_el(c, ino) ==
  IF c.list = <<>> \/ ino > Last(c.list).key THEN insert_icount_el(c, ino, Len(c.list) + 1)
  ELSE LET g == GetEl(c, ino)
       IN  IF g.at # 0 THEN g ELSE insert_icount_el(g.c, ino, Find(c.list, ino).at)

set_inode_count(c, ino, n) ==
  IF c.tdb THEN [c EXCEPT !.db = [k \in IF n = 0 THEN DOMAIN c.db \ {ino} ELSE DOMAIN c.db \cup {ino}
                                    |-> IF k = ino THEN n ELSE c.db[k]]]
  ELSE SetAt(get_icount_el(c, ino), n)

get_inode_count(c, ino) ==
  IF c.tdb THEN [c |-> c, n |-> IF ino \in DOMAIN c.db THEN c.db[ino] ELSE 0]
  ELSE CountAt(GetEl(c, ino))

icount_16_xlate(n) == IF n > CountCap THEN CountCap ELSE n
EINVAL_COUNT == -1

\* Each yields the icount and what it returns.
ext2fs_icount_fetch(c, ino) ==
  LET g == get_inode_count(c, ino)
  IN  IF ino \in c.single THEN [c |-> c, ret |-> 1]
      ELSE IF c.inc /\ ino \notin c.multiple THEN [c |-> c, ret |-> 0]
      ELSE [c |-> g.c, ret |-> icount_16_xlate(g.n)]

ext2fs_icount_increment(c, ino) ==
  LET g == get_inode_count(c, ino)
      Multiple(d) == IF d.inc THEN [d EXCEPT !.multiple = @ \cup {ino}] ELSE d
  IN  IF ino \in c.single
      THEN [c |-> Multiple([set_inode_count(c, ino, 2) EXCEPT !.single = @ \ {ino}]),
            ret |-> icount_16_xlate(2)]
      ELSE IF c.inc /\ ino \notin c.multiple
      THEN [c |-> [c EXCEPT !.single = @ \cup {ino}], ret |-> 1]
      ELSE [c |-> Multiple(set_inode_count(g.c, ino, g.n + 1)), ret |-> icount_16_xlate(g.n + 1)]

\* One less than the count that get_inode_count has found.
Decremented(g, ino) ==
  IF g.n = 0 THEN [c |-> g.c, ret |-> EINVAL_COUNT]
  ELSE [c |-> [set_inode_count(g.c, ino, g.n - 1) EXCEPT
                 !.single = IF g.n = 2 THEN @ \cup {ino} ELSE @,
                 !.multiple = IF g.n = 1 THEN @ \ {ino} ELSE @],
        ret |-> icount_16_xlate(g.n - 1)]

ext2fs_icount_decrement(c, ino) ==
  LET one == [c EXCEPT !.single = @ \ {ino}, !.multiple = @ \ {ino}]
  IN  IF ino \in c.single THEN [c |-> IF c.inc THEN one ELSE set_inode_count(one, ino, 0), ret |-> 0]
      ELSE IF c.inc /\ ino \notin c.multiple THEN [c |-> c, ret |-> EINVAL_COUNT]
      ELSE Decremented(get_inode_count(c, ino), ino)

ext2fs_icount_store(c, ino, n) ==
  LET none == [c EXCEPT !.single = @ \ {ino}, !.multiple = @ \ {ino}]
  IN  IF n = 1 THEN [c EXCEPT !.single = @ \cup {ino}, !.multiple = @ \ {ino}]
      ELSE IF n = 0 THEN IF c.inc THEN none ELSE set_inode_count(none, ino, 0)
      ELSE [set_inode_count(c, ino, n) EXCEPT !.single = @ \ {ino},
                                              !.multiple = IF c.inc THEN @ \cup {ino} ELSE @]

Icount(ino) ==
  \/ /\ is[ino] < MaxCounted
     /\ list' = ext2fs_icount_increment(list, ino).c /\ is' = [is EXCEPT ![ino] = @ + 1]
  \/ \E d \in {ext2fs_icount_decrement(list, ino)} :
       list' = d.c /\ is' = IF d.ret = EINVAL_COUNT THEN is ELSE [is EXCEPT ![ino] = @ - 1]
  \/ \E n \in 0 .. CountCap : list' = ext2fs_icount_store(list, ino, n) /\ is' = [is EXCEPT ![ino] = n]
  \/ list' = ext2fs_icount_fetch(list, ino).c /\ UNCHANGED is

------------------------------------------------------------------------------
\* ea_refcount: a full list first drops its zeroes, then grows.
NewRefcount == [list |-> <<>>, cursor |-> 0, size |-> 1]

refcount_collapse(c) == [c EXCEPT !.list = SelectSeq(@, LAMBDA e : e.n # 0)]

insert_refcount_el(c, key, pos) ==
  [c |-> [c EXCEPT !.size = IF Len(c.list) >= @ THEN @ + Grow ELSE @,
                   !.list = InsertAt(@, pos, [key |-> key, n |-> 0])], at |-> pos]

\* get_refcount_el with create.  After a collapse that made room it starts again.
CreateRefcount(c, key) ==
  LET Room(d) == IF Len(d.list) >= d.size THEN refcount_collapse(d) ELSE d
      AtEnd(d) == insert_refcount_el(d, key, Len(d.list) + 1)
      Above(d) == d.list = <<>> \/ key > Last(d.list).key
      Insert(d) == insert_refcount_el(d, key, Find(d.list, key).at)
      Again(g) == IF g.at # 0 THEN g ELSE Insert(g.c)
      Collapsed(d, r) == IF r = d THEN Insert(d) ELSE IF Above(r) THEN AtEnd(r) ELSE Again(GetEl(r, key))
      Got(g) == IF g.at # 0 THEN g ELSE Collapsed(g.c, Room(g.c))
  IN  IF Above(c) THEN AtEnd(Room(c)) ELSE Got(GetEl(c, key))

ea_refcount_fetch(c, key) == CountAt(GetEl(c, key))

ea_refcount_increment(c, key) ==
  LET More(g) == SetAt(g, CountAt(g).n + 1) IN More(CreateRefcount(c, key))

ea_refcount_decrement(c, key) ==
  LET Less(g) == SetAt(g, IF CountAt(g).n = 0 THEN 0 ELSE CountAt(g).n - 1) IN Less(GetEl(c, key))

ea_refcount_store(c, key, n) == SetAt(IF n # 0 THEN CreateRefcount(c, key) ELSE GetEl(c, key), n)

\* ea_refcount_intr_next: the next key with a count, and 0 at the end.
ea_refcount_intr_next(c) ==
  LET next == {i \in c.cursor + 1 .. Len(c.list) : c.list[i].n # 0}
  IN  IF next = {} THEN [c |-> [c EXCEPT !.cursor = Max({c.cursor, Len(c.list)})], key |-> 0]
      ELSE [c |-> [c EXCEPT !.cursor = Min(next)], key |-> c.list[Min(next)].key]

Refcount(key) ==
  \/ is[key] < MaxCounted /\ list' = ea_refcount_increment(list, key) /\ is' = [is EXCEPT ![key] = @ + 1]
  \/ list' = ea_refcount_decrement(list, key) /\ is' = [is EXCEPT ![key] = IF @ = 0 THEN 0 ELSE @ - 1]
  \/ \E n \in 0 .. MaxCounted : list' = ea_refcount_store(list, key, n) /\ is' = [is EXCEPT ![key] = n]
  \/ list' = ea_refcount_fetch(list, key).c /\ UNCHANGED is
  \/ list' = ea_refcount_intr_next(list).c /\ UNCHANGED is

------------------------------------------------------------------------------
\* region: the regions [start, end) in order; last is the region that the pointer is at.
NewRegion == [all |-> <<>>, last |-> 0]

\* region_allocate, with what it returns.  The loop stops at the first region that it
\* conflicts with, can grow, or comes before.
region_allocate(g, start, n) ==
  LET end == start + n
      all == g.all
      R(i) == all[i]
      atlast == g.last # 0 /\ g.last = Len(all)
      Overlaps(r) == \/ start >= r.s /\ start < r.e
                     \/ end > r.s /\ end <= r.e
                     \/ start <= r.s /\ end >= r.e
      stops == {i \in DOMAIN all : Overlaps(R(i)) \/ end = R(i).s \/ start = R(i).e \/ start < R(i).s}
      i == Min(stops)
      Put(pos) == [g |-> [all |-> InsertAt(all, pos, [s |-> start, e |-> end]),
                          last |-> IF pos > Len(all) THEN pos
                                   ELSE IF g.last >= pos THEN g.last + 1 ELSE g.last],
                   ret |-> 0]
      Ends(k, e) == [g |-> [g EXCEPT !.all[k].e = e], ret |-> 0]
      joined == [all |-> RemoveAt([all EXCEPT ![i].e = R(i + 1).e], i + 1),
                 last |-> IF i + 1 = Len(all) THEN i ELSE IF g.last > i THEN g.last - 1 ELSE g.last]
  IN  IF start < 0 \/ end > RegionMax THEN [g |-> g, ret |-> -1]
      ELSE IF n = 0 THEN [g |-> g, ret |-> 1]
      ELSE IF atlast /\ R(g.last).e = start THEN Ends(g.last, end)
      ELSE IF (atlast /\ start > R(g.last).e) \/ stops = {} THEN Put(Len(all) + 1)
      ELSE IF Overlaps(R(i)) THEN [g |-> g, ret |-> 1]
      ELSE IF end = R(i).s THEN [g |-> [g EXCEPT !.all[i].s = start], ret |-> 0]
      ELSE IF start # R(i).e THEN Put(i)
      ELSE IF i = Len(all) THEN Ends(i, end)
      ELSE IF end > R(i + 1).s THEN [g |-> g, ret |-> 1]
      ELSE IF end = R(i + 1).s THEN [g |-> joined, ret |-> 0]
      ELSE Ends(i, end)

Region(start, n) ==
  LET a == region_allocate(list, start, n)
  IN  list' = a.g /\ is' = IF a.ret = 0 THEN is \cup (start .. start + n - 1) ELSE is

------------------------------------------------------------------------------
\* The list of bad blocks, with an iteration over it (iter: how many it has handed out).
NewBlocks == [all |-> <<>>, iter |-> 0]

ext2fs_u32_list_add(all, blk) ==
  LET above == {i \in DOMAIN all : all[i] >= blk}
  IN  IF above = {} THEN Append(all, blk)
      ELSE IF all[Min(above)] = blk THEN all ELSE InsertAt(all, Min(above), blk)

\* Mutant: the last entry is not looked at.
ext2fs_u32_list_find_inner(all, blk) ==
  LET S[r \in (DOMAIN all) \X (DOMAIN all)] ==
        LET mid == (r[1] - 1 + r[2] - 1) \div 2 + 1
        IN  IF r[1] >= r[2] \/ mid \in {r[1], r[2]} THEN 0
            ELSE IF blk = all[mid] THEN mid
            ELSE IF blk < all[mid] THEN S[<<r[1], mid>>] ELSE S[<<mid, r[2]>>]
  IN  IF all = <<>> THEN 0 ELSE IF blk = all[1] THEN 1 ELSE S[<<1, Len(all)>>]

\* ext2fs_u32_list_find: both ends first, then halving until nothing is between them.
ext2fs_u32_list_find(all, blk) ==
  LET S[r \in (DOMAIN all) \X (DOMAIN all)] ==
        LET mid == (r[1] - 1 + r[2] - 1) \div 2 + 1
        IN  IF r[1] >= r[2] \/ mid \in {r[1], r[2]} THEN 0
            ELSE IF blk = all[mid] THEN mid
            ELSE IF blk < all[mid] THEN S[<<r[1], mid>>] ELSE S[<<mid, r[2]>>]
  IN  IF all = <<>> THEN 0
      ELSE IF blk = all[1] THEN 1
      ELSE IF blk = all[Len(all)] THEN Len(all) ELSE S[<<1, Len(all)>>]

ext2fs_u32_list_del(all, blk) ==
  LET at == ext2fs_u32_list_find(all, blk) IN IF at = 0 THEN all ELSE RemoveAt(all, at)

Blocks32(blk) ==
  \/ list' = [list EXCEPT !.all = ext2fs_u32_list_add(@, blk)] /\ is' = is \cup {blk}
  \/ list' = [list EXCEPT !.all = ext2fs_u32_list_del(@, blk)] /\ is' = is \ {blk}

ext2fs_u32_list_iterate ==
  list.iter < Len(list.all) /\ list' = [list EXCEPT !.iter = @ + 1] /\ UNCHANGED is

------------------------------------------------------------------------------
ListInit ==
  \/ container = "icount" /\ is = Zero /\ \E inc, tdb \in BOOLEAN : list = NewIcount(inc, tdb)
  \/ container = "refcount" /\ is = Zero /\ list = NewRefcount
  \/ container = "region" /\ is = {} /\ list = NewRegion
  \/ container = "badblocks" /\ is = {} /\ list = NewBlocks

ListNext ==
  /\ \/ container = "icount" /\ \E ino \in Keys : Icount(ino)
     \/ container = "refcount" /\ \E key \in Keys : Refcount(key)
     \/ container = "region" /\ \E s \in 0 .. RegionMax, n \in 0 .. RegionMax : Region(s, n)
     \/ container = "badblocks" /\ ((\E b \in Keys : Blocks32(b)) \/ ext2fs_u32_list_iterate)
  /\ UNCHANGED container

ListSpec == ListInit /\ [][ListNext]_listVars

------------------------------------------------------------------------------
Sorted(l) == \A i, j \in DOMAIN l : i < j => l[i].key < l[j].key

\* Whatever the bitmaps, the cursor and the entries that earlier calls left behind, the
\* counts that fetch, increment and decrement hand out are those of the calls so far, and the
\* lists stay sorted (ext2fs_icount_validate, ea_refcount_validate).
CountsAreExact ==
  /\ container = "icount" => /\ Sorted(list.list)
                             /\ \A k \in Keys :
                                  /\ ext2fs_icount_fetch(list, k).ret = icount_16_xlate(is[k])
                                  /\ ext2fs_icount_increment(list, k).ret = icount_16_xlate(is[k] + 1)
                                  /\ ext2fs_icount_decrement(list, k).ret =
                                       IF is[k] = 0 THEN EINVAL_COUNT ELSE icount_16_xlate(is[k] - 1)
  /\ container = "refcount" => /\ Sorted(list.list) /\ Len(list.list) <= list.size
                               /\ \A k \in Keys : ea_refcount_fetch(list, k).n = is[k]

\* A region is refused exactly when a part of it is allocated (or it is empty, or outside), the
\* regions are apart from one another, and what region->last points at stays in the list.  The
\* list of bad blocks holds the blocks that were added and not deleted, in order, and finds
\* each of them.
SetsAreExact ==
  /\ container = "region" =>
       /\ is = UNION {r.s .. r.e - 1 : r \in Range(list.all)}
       /\ \A i, j \in DOMAIN list.all : i < j => list.all[i].e < list.all[j].s
       /\ list.last \in 0 .. Len(list.all) /\ (list.all # <<>> => list.last # 0)
       /\ \A s \in 0 .. RegionMax, n \in 1 .. RegionMax : s + n <= RegionMax =>
            (region_allocate(list, s, n).ret = 0 <=> is \cap (s .. s + n - 1) = {})
  /\ container = "badblocks" =>
       /\ is = Range(list.all) /\ \A i, j \in DOMAIN list.all : i < j => list.all[i] < list.all[j]
       /\ \A b \in Keys : (ext2fs_u32_list_find(list.all, b) # 0) <=> b \in is
==============================================================================
