------------------------------- MODULE RbTree -------------------------------
(**************************************************************************)
(* The red-black trees under the bitmaps (lib/ext2fs/rbtree.c): insertion *)
(* and removal of nodes with the rebalancing that follows, and the walk   *)
(* from node to node.  RbBitmap takes the order of the nodes for granted. *)
(*                                                                        *)
(* The code of each case is there twice, for the left and the right; here *)
(* a side is a parameter.  A node is named by its key, 0 is NULL.         *)
(**************************************************************************)
EXTENDS Integers, SequencesExt

CONSTANT RbNodes     \* keys

ASSUME RbTreeConstants == RbNodes \subseteq Nat \ {0} /\ IsFiniteSet(RbNodes)

VARIABLES
  rbtree,      \* rb_root, and the fields of the nodes: child[side], parent, red
  rbkeys       \* ghost: the nodes linked and not erased

Null == 0
Sides == {"left", "right"}
Other(d) == IF d = "left" THEN "right" ELSE "left"

EmptyRbTree == [root |-> Null, child |-> [d \in Sides |-> [n \in RbNodes |-> Null]],
                 parent |-> [n \in RbNodes |-> Null], red |-> [n \in RbNodes |-> FALSE]]

-----------------------------------------------------------------------------
(* Assignments *)

SetParent(t, n, p) == IF n = Null THEN t ELSE [t EXCEPT !.parent[n] = p]
Paint(t, black, red) ==
  [t EXCEPT !.red = [n \in RbNodes |-> IF n \in black THEN FALSE ELSE n \in red \/ t.red[n]]]
IsRed(t, n) == n # Null /\ t.red[n]

\* Where parent p pointed at node n it points at m.
Replace(t, p, n, m) ==
  IF p = Null THEN [t EXCEPT !.root = m]
  ELSE IF t.child["left"][p] = n THEN [t EXCEPT !.child["left"][p] = m]
  ELSE [t EXCEPT !.child["right"][p] = m]

\* __rb_rotate_left, for the side "left": n goes down on side d.
rb_rotate(t, n, d) ==
  LET up    == t.child[Other(d)][n]
      inner == t.child[d][up]
      p     == t.parent[n]
      t1    == SetParent([t EXCEPT !.child[Other(d)][n] = inner], inner, n)
      t2    == Replace(SetParent(t1, up, p), p, n, up)
  IN  SetParent([t2 EXCEPT !.child[d][up] = n], n, up)

-----------------------------------------------------------------------------
(* Insertion *)

RECURSIVE ext2fs_rb_insert_color(_, _)
ext2fs_rb_insert_color(t, node) ==
  LET parent == t.parent[node] IN
  IF ~IsRed(t, parent) THEN Paint(t, {t.root}, {})
  ELSE LET gparent == t.parent[parent]
           d       == IF t.child["left"][gparent] = parent THEN "left" ELSE "right"
           uncle   == t.child[Other(d)][gparent]
           inner   == t.child[Other(d)][parent] = node
           t1      == IF inner THEN rb_rotate(t, parent, d) ELSE t
           upper   == IF inner THEN node ELSE parent
           lower   == IF inner THEN parent ELSE node
       IN  IF IsRed(t, uncle)
           THEN ext2fs_rb_insert_color(Paint(t, {uncle, parent}, {gparent}), gparent)
           ELSE ext2fs_rb_insert_color(
                  rb_rotate(Paint(t1, {upper}, {gparent}), gparent, Other(d)), lower)

\* The search of rb_insert_extent for the place of a new key.
RECURSIVE PlaceBelow(_, _, _)
PlaceBelow(t, n, key) ==
  LET d == IF key < n THEN "left" ELSE "right" IN
  IF t.child[d][n] = Null THEN [parent |-> n, side |-> d] ELSE PlaceBelow(t, t.child[d][n], key)

\* ext2fs_rb_link_node: the parent's address as the colour word also makes the node red.
ext2fs_rb_link_node(t, node, place) ==
  LET fresh == [t EXCEPT !.red[node] = TRUE, !.parent[node] = place.parent,
                         !.child["left"][node] = Null, !.child["right"][node] = Null]
  IN  IF place.parent = Null THEN [fresh EXCEPT !.root = node]
      ELSE [fresh EXCEPT !.child[place.side][place.parent] = node]

RbInsertAt(t, node, place) == ext2fs_rb_insert_color(ext2fs_rb_link_node(t, node, place), node)
NoParent == [parent |-> Null, side |-> "left"]

\* The part of rb_insert_extent that finds no extent to enlarge.
RbInsert(t, node) ==
  RbInsertAt(t, node, IF t.root = Null THEN NoParent ELSE PlaceBelow(t, t.root, node))

-----------------------------------------------------------------------------
(* The walk *)

RECURSIVE Outermost(_, _, _)
Outermost(t, n, d) == IF t.child[d][n] = Null THEN n ELSE Outermost(t, t.child[d][n], d)

\* ext2fs_rb_first and ext2fs_rb_last.
RbEnd(t, d) == IF t.root = Null THEN Null ELSE Outermost(t, t.root, d)

RECURSIVE UpFrom(_, _, _)
UpFrom(t, n, d) ==
  LET p == t.parent[n] IN IF p = Null \/ t.child[d][p] # n THEN p ELSE UpFrom(t, p, d)

\* ext2fs_rb_next and ext2fs_rb_prev.
RbNeighbour(t, n, d) ==
  IF t.child[d][n] # Null THEN Outermost(t, t.child[d][n], Other(d)) ELSE UpFrom(t, n, d)

-----------------------------------------------------------------------------
(* Removal *)

\* Faulty variant: the far nephew stays red.
LastTurn_red(t, parent, d) ==
  LET other  == t.child[Other(d)][parent]
      turned == rb_rotate(Paint([t EXCEPT !.red[other] = t.red[parent]], {parent}, {}), parent, d)
  IN  Paint(turned, {turned.root}, {})

\* The sibling, which has a red child on the far side, goes up in the place of parent.
LastTurn(t, parent, d) ==
  LET other  == t.child[Other(d)][parent]
      far    == t.child[Other(d)][other]
      turned == rb_rotate(Paint([t EXCEPT !.red[other] = t.red[parent]], {parent, far}, {}),
                          parent, d)
  IN  Paint(turned, {turned.root}, {})

\* __rb_erase_color: the subtree at node, a child of parent, lacks a black node.
RECURSIVE rb_erase_color(_, _, _)
rb_erase_color(t, node, parent) ==
  IF IsRed(t, node) \/ node = t.root
  THEN IF node = Null THEN t ELSE Paint(t, {node}, {})
  ELSE LET d     == IF t.child["left"][parent] = node THEN "left" ELSE "right"
           o     == Other(d)
           was   == t.child[o][parent]
           t1    == IF IsRed(t, was) THEN rb_rotate(Paint(t, {was}, {parent}), parent, d) ELSE t
           other == t1.child[o][parent]
           near  == t1.child[d][other]
           far   == t1.child[o][other]
           t2    == IF IsRed(t1, far) THEN t1
                    ELSE rb_rotate(Paint(t1, {near}, {other}), other, o)
           up    == Paint(t1, {}, {other})
       IN  IF ~IsRed(t1, near) /\ ~IsRed(t1, far)
           THEN rb_erase_color(up, parent, up.parent[parent])
           ELSE LastTurn(t2, parent, d)

\* A node with two children gives its place and colour to its successor, which is taken
\* out of the tree where it was.  The fields of the node that goes are no more.
ext2fs_rb_erase(t, old) ==
  LET left     == t.child["left"][old]
      right    == t.child["right"][old]
      both     == left # Null /\ right # Null
      node     == IF both THEN Outermost(t, right, "left") ELSE old   \* what leaves its place
      child    == IF ~both /\ left # Null THEN left ELSE t.child["right"][node]
      was      == t.parent[node]
      parent   == IF both /\ was = old THEN node ELSE was
      gone     == Replace(SetParent(t, child, was), was, node, child)
      moved    == IF was = old THEN t
                  ELSE SetParent([SetParent(t, child, was) EXCEPT !.child["left"][was] = child,
                                    !.child["right"][node] = right], right, node)
      in_place == SetParent([Replace(moved, t.parent[old], old, node) EXCEPT
                               !.parent[node] = t.parent[old], !.red[node] = t.red[old],
                               !.child["left"][node] = left], left, node)
      spliced  == IF both THEN in_place ELSE gone
      done     == IF t.red[node] THEN spliced ELSE rb_erase_color(spliced, child, parent)
  IN  [done EXCEPT !.child["left"][old] = Null, !.child["right"][old] = Null,
                   !.parent[old] = Null, !.red[old] = FALSE]

-----------------------------------------------------------------------------
(* Steps *)

\* The loop of rb_copy_bmap, from node src on: each node goes to the right of the last.
RECURSIVE CopyFrom(_, _, _)
CopyFrom(t, src, dest) ==
  IF src = Null THEN dest
  ELSE LET last == RbEnd(dest, "right") IN
       CopyFrom(t, RbNeighbour(t, src, "right"),
                RbInsertAt(dest, src, IF last = Null THEN NoParent
                                      ELSE [parent |-> last, side |-> "right"]))

InsertNode == \E n \in RbNodes \ rbkeys : rbtree' = RbInsert(rbtree, n) /\ rbkeys' = rbkeys \cup {n}
EraseNode  == \E n \in rbkeys : rbtree' = ext2fs_rb_erase(rbtree, n) /\ rbkeys' = rbkeys \ {n}
CopyTree   == rbtree' = CopyFrom(rbtree, RbEnd(rbtree, "left"), EmptyRbTree) /\ UNCHANGED rbkeys

rbtreeVars == <<rbtree, rbkeys>>
RbTreeInit == rbtree = EmptyRbTree /\ rbkeys = {}
RbTreeNext == InsertNode \/ EraseNode \/ CopyTree

-----------------------------------------------------------------------------
(* Properties *)

RECURSIVE RbInOrder(_, _)
RbInOrder(t, n) ==
  IF n = Null THEN <<>>
  ELSE RbInOrder(t, t.child["left"][n]) \o <<n>> \o RbInOrder(t, t.child["right"][n])

\* The number of black nodes on every way down from n; -1 if two ways differ or if a red
\* node has a red child.
RECURSIVE RbHeight(_, _)
RbHeight(t, n) ==
  IF n = Null THEN 0
  ELSE LET l == RbHeight(t, t.child["left"][n])
           r == RbHeight(t, t.child["right"][n])
           red_red == IsRed(t, n) /\ \E d \in Sides : IsRed(t, t.child[d][n])
       IN  IF l # r \/ l = -1 \/ red_red THEN -1 ELSE l + (IF IsRed(t, n) THEN 0 ELSE 1)

RECURSIVE RbWalk(_, _, _)
RbWalk(t, n, d) == IF n = Null THEN <<>> ELSE <<n>> \o RbWalk(t, RbNeighbour(t, n, d), d)

\* Whatever nodes were linked and erased, the tree holds the nodes that were linked and not
\* erased, in the order of their keys; walked with next from the first or with prev from
\* the last it gives them all, in order; its root is black, no red node has a red child and
\* all ways down meet the same number of black nodes, which bounds the depth of a search.
RbTreeIsSound ==
  LET nodes == RbInOrder(rbtree, rbtree.root)
  IN  /\ Range(nodes) = rbkeys
      /\ \A i \in 1 .. Len(nodes) - 1 : nodes[i] < nodes[i + 1]
      /\ RbWalk(rbtree, RbEnd(rbtree, "left"), "right") = nodes
      /\ RbWalk(rbtree, RbEnd(rbtree, "right"), "left") = Reverse(nodes)
      /\ RbHeight(rbtree, rbtree.root) # -1 /\ ~IsRed(rbtree, rbtree.root)
=============================================================================
