-------------------------------- MODULE Dict --------------------------------
(**************************************************************************)
(* The dictionaries of the support library (lib/support/dict.c), which    *)
(* e2fsck keeps shared blocks and the names of a directory in, and the    *)
(* quota code its dquots: another red-black tree, with a sentinel node in *)
(* the place of NULL, whose left child is the root and which rotations    *)
(* write to.  Node names are keys, 0 is the sentinel.                     *)
(*                                                                        *)
(* Left out: what is compiled under E2FSCK_NOTUSED (removal of a node,    *)
(* loading, merging), duplicate keys, which no caller allows, and the     *)
(* assertions, which DICT_NODEBUG turns off.                              *)
(**************************************************************************)
EXTENDS RbTree

CONSTANTS DictKeys,   \* the keys callers look up and insert
          IntHalf     \* an int holds -IntHalf .. IntHalf-1

ASSUME DictConstants == DictKeys \subseteq Nat \ {0} /\ IntHalf \in Nat \ {0}

VARIABLES
  dict,        \* the fields of the nodes, the sentinel's among them, and nodecount
  dictkeys     \* ghost: the keys inserted since the dictionary was empty

nil == 0
dict_nodes == DictKeys \cup {nil}

dict_init == [child |-> [d \in Sides |-> [n \in dict_nodes |-> nil]],
              parent |-> [n \in dict_nodes |-> nil],
              red |-> [n \in dict_nodes |-> FALSE], nodecount |-> 0]

dict_root(t) == t.child["left"][nil]


\* dict_int_cmp of pass 1B: the difference of two pointers, cut to an int.
dict_int_cmp(a, b) == ((a - b + IntHalf) % (2 * IntHalf)) - IntHalf

\* rotate_left, for the side "left".  What moves across may be the sentinel.
rotate(t, upper, d) ==
  LET o        == Other(d)
      lower    == t.child[o][upper]
      low      == t.child[d][lower]
      upparent == t.parent[upper]
      side     == IF t.child[d][upparent] = upper THEN d ELSE o
      linked   == [t EXCEPT !.child[o][upper] = low, !.child[d][lower] = upper,
                            !.child[side][upparent] = lower]
  IN  [linked EXCEPT !.parent = [@ EXCEPT ![low] = upper, ![lower] = upparent, ![upper] = lower]]

-----------------------------------------------------------------------------
(* Look-up and insertion *)

RECURSIVE LookupBelow(_, _, _)
LookupBelow(t, n, key) ==
  LET result == dict_int_cmp(key, n) IN
  IF n = nil \/ result = 0 THEN n
  ELSE LookupBelow(t, t.child[IF result < 0 THEN "left" ELSE "right"][n], key)

dict_lookup(t, key) == LookupBelow(t, dict_root(t), key)   \* nil stands for NULL

\* Where the search of dict_insert ends.
RECURSIVE WhereBelow(_, _, _, _)
WhereBelow(t, n, d, key) ==
  LET side == IF dict_int_cmp(key, t.child[d][n]) < 0 THEN "left" ELSE "right" IN
  IF t.child[d][n] = nil THEN [parent |-> n, side |-> d]
  ELSE WhereBelow(t, t.child[d][n], side, key)

\* The loop of red-black adjustments.
RECURSIVE Adjusted(_, _, _)
Adjusted(t, node, parent) ==
  IF ~t.red[parent] THEN t
  ELSE LET grandpa == t.parent[parent]
           d       == IF t.child["left"][grandpa] = parent THEN "left" ELSE "right"
           uncle   == t.child[Other(d)][grandpa]
           inner   == t.child[Other(d)][parent] = node
           turned  == IF inner THEN rotate(t, parent, d) ELSE t
           upper   == IF inner THEN node ELSE parent
       IN  IF t.red[uncle]
           THEN Adjusted([t EXCEPT !.red = [@ EXCEPT ![parent] = FALSE, ![uncle] = FALSE,
                                                     ![grandpa] = TRUE]],
                         grandpa, t.parent[grandpa])
           ELSE rotate([turned EXCEPT !.red = [@ EXCEPT ![upper] = FALSE, ![grandpa] = TRUE]],
                       grandpa, Other(d))

\* dict_insert.  If dict_alloc_insert gets no memory the dictionary stays as it is.
dict_insert(t, node) ==
  LET where == WhereBelow(t, nil, "left", node)
      tree  == [t EXCEPT !.child[where.side][where.parent] = node, !.nodecount = @ + 1]
      fresh == [tree EXCEPT !.child["left"][node] = nil, !.child["right"][node] = nil,
                            !.parent[node] = where.parent, !.red[node] = TRUE]
      done  == Adjusted(fresh, node, where.parent)
  IN  [done EXCEPT !.red[dict_root(done)] = FALSE]

\* The sentinel keeps the parent a rotation gave it.  The freed nodes' fields are no more.
dict_free_nodes(t) == [dict_init EXCEPT !.parent[nil] = t.parent[nil]]

-----------------------------------------------------------------------------
(* The walk *)

RECURSIVE DictOutermost(_, _, _)
DictOutermost(t, n, d) ==
  IF t.child[d][n] = nil THEN n ELSE DictOutermost(t, t.child[d][n], d)

\* dict_first and dict_last.
dict_end(t, d) == IF dict_root(t) = nil THEN nil ELSE DictOutermost(t, dict_root(t), d)

RECURSIVE DictUpFrom(_, _, _)
DictUpFrom(t, n, d) ==
  LET p == t.parent[n] IN IF p = nil \/ t.child[d][p] # n THEN p ELSE DictUpFrom(t, p, d)

\* dict_next and dict_prev.
dict_neighbour(t, n, d) ==
  IF t.child[d][n] # nil THEN DictOutermost(t, t.child[d][n], Other(d)) ELSE DictUpFrom(t, n, d)

-----------------------------------------------------------------------------
(* Steps *)

\* add_dupe, get_dq: the entry of a key, made when there is none.
GetEntry(key) ==
  IF dict_lookup(dict, key) # nil THEN UNCHANGED <<dict, dictkeys>>
  ELSE dict' = dict_insert(dict, key) /\ dictkeys' = dictkeys \cup {key}

FreeNodes == dictkeys # {} /\ dict' = dict_free_nodes(dict) /\ dictkeys' = {}

dictVars == <<dict, dictkeys>>
DictInit == dict = dict_init /\ dictkeys = {}
DictNext == (\E key \in DictKeys : GetEntry(key)) \/ FreeNodes

-----------------------------------------------------------------------------
(* Properties *)

RECURSIVE DictInOrder(_, _)
DictInOrder(t, n) ==
  IF n = nil THEN <<>>
  ELSE DictInOrder(t, t.child["left"][n]) \o <<n>> \o DictInOrder(t, t.child["right"][n])

RECURSIVE DictHeight(_, _)
DictHeight(t, n) ==
  IF n = nil THEN 0
  ELSE LET l == DictHeight(t, t.child["left"][n])
           r == DictHeight(t, t.child["right"][n])
           red_red == t.red[n] /\ \E d \in Sides : t.red[t.child[d][n]]
       IN  IF l # r \/ l = -1 \/ red_red THEN -1 ELSE l + (IF t.red[n] THEN 0 ELSE 1)

RECURSIVE DictWalk(_, _, _)
DictWalk(t, n, d) == IF n = nil THEN <<>> ELSE <<n>> \o DictWalk(t, dict_neighbour(t, n, d), d)

\* However keys were asked for, every key that was is found, as an entry of its own, and no
\* other; first and next, or last and prev, give the entries in order, as many as
\* dict_count says; and the tree under them is balanced, with a black sentinel that has the
\* root on its left only (dict_verify, which is not compiled in, tests some of this).
DictIsSound ==
  LET nodes == DictInOrder(dict, dict_root(dict))
  IN  /\ \A key \in DictKeys : dict_lookup(dict, key) = (IF key \in dictkeys THEN key ELSE nil)
      /\ \A i \in 1 .. Len(nodes) - 1 : nodes[i] < nodes[i + 1]
      /\ DictWalk(dict, dict_end(dict, "left"), "right") = nodes
      /\ DictWalk(dict, dict_end(dict, "right"), "left") = Reverse(nodes)
      /\ dict.nodecount = Len(nodes) /\ Range(nodes) = dictkeys
      /\ DictHeight(dict, dict_root(dict)) # -1 /\ ~dict.red[dict_root(dict)] /\ ~dict.red[nil]
      /\ dict.child["right"][nil] = nil
=============================================================================
