------------------------------- MODULE Quota --------------------------------
(*************************************************************************)
(* The quota files of lib/support: the radix tree of quotaio_tree.c with *)
(* its data blocks, free blocks and blocks with free entries, and the    *)
(* accounting of mkquota.c as e2fsck and tune2fs use it.                 *)
(*                                                                       *)
(* One quota type.  An entry is [id, used, limit]; used stands for the   *)
(* space and the inodes, limit for the four limits.  A block of the file *)
(* is a tree block (refs) or a data block (next, prev, entries, dq).     *)
(*************************************************************************)
EXTENDS Integers, Sequences, FiniteSets, FiniteSetsExt, SequencesExt, Functions

CONSTANTS
  QuotaIds,         \* the ids 0..N
  Radix,            \* references in a tree block, 256 in the code
  QT_TREEDEPTH,     \* 4 in the code
  dqstr_in_blk,     \* entries in a data block, at least 2
  QuotaFileMax,     \* blocks the device has room for
  Amounts,          \* what an owner may use or be limited to, with 0
  TakesOver,        \* whether tune2fs takes over the quota file of another tool
  MaxQuotaCalls     \* the number of calls explored

ASSUME QuotaConstants ==
  /\ QuotaIds \subseteq Nat /\ Radix \in Nat \ {0, 1} /\ QT_TREEDEPTH \in Nat \ {0}
  /\ dqstr_in_blk \in Nat \ {0, 1} /\ QuotaFileMax \in Nat /\ 0 \in Amounts
  /\ TakesOver \in BOOLEAN

VARIABLES
  qfile,            \* the quota file and dqinfo
  usage,            \* what each id really uses
  expected,         \* what the file should say of each id
  quotaCalls
quotaVars == <<qfile, usage, expected, quotaCalls>>

QT_TREEOFF == 1
NoDq == [id |-> -1, used |-> 0, limit |-> 0]
ZeroBlk == [refs |-> [i \in 1..Radix |-> 0], next |-> 0, prev |-> 0, entries |-> 0,
            dq |-> [i \in 1..dqstr_in_blk |-> NoDq]]

\* header: the header of the file is intact; nospace: a block could not be had.
v2_new_io == [blk |-> [b \in 1..QuotaFileMax |-> ZeroBlk], dqi_blocks |-> QT_TREEOFF + 1,
              free_blk |-> 0, free_entry |-> 0, header |-> TRUE, nospace |-> FALSE]

get_index(id, depth) == ((id \div Radix ^ (QT_TREEDEPTH - depth - 1)) % Radix) + 1

(**************************************************************************)
(* Blocks.  q is the file; a call that needs a block returns it as blk, 0 *)
(* when there is none.                                                    *)
(**************************************************************************)
get_free_dqblk(q) ==
  IF q.free_blk # 0
  THEN [q |-> [q EXCEPT !.free_blk = q.blk[q.free_blk].next], blk |-> q.free_blk]
  ELSE IF q.dqi_blocks > QuotaFileMax
  THEN [q |-> [q EXCEPT !.nospace = TRUE], blk |-> 0]
  ELSE [q |-> [q EXCEPT !.blk[q.dqi_blocks] = ZeroBlk, !.dqi_blocks = @ + 1],
        blk |-> q.dqi_blocks]

\* The buffer buf of the block goes to the free list.
put_free_dqblk(q, buf, blk) ==
  [q EXCEPT !.blk[blk] = [buf EXCEPT !.next = q.free_blk, !.prev = 0, !.entries = 0],
            !.free_blk = blk]

\* The block leaves the list of blocks with free entries; buf is its buffer.
remove_free_dqentry(q, buf, blk) ==
  LET unlinked == [q EXCEPT !.blk = [b \in DOMAIN @ |->
                     CASE b = buf.next -> [@[b] EXCEPT !.prev = buf.prev]
                       [] b = buf.prev -> [@[b] EXCEPT !.next = buf.next]
                       [] OTHER -> @[b]],
                   !.free_entry = IF buf.prev = 0 THEN buf.next ELSE @]
  IN  [unlinked EXCEPT !.blk[blk] = [buf EXCEPT !.next = 0, !.prev = 0]]

insert_free_dqentry(q, buf, blk) ==
  LET head == q.free_entry
      put == [q EXCEPT !.blk[blk] = [buf EXCEPT !.next = head, !.prev = 0], !.free_entry = blk]
  IN  IF head = 0 THEN put ELSE [put EXCEPT !.blk[head].prev = blk]

Unused(dq) == dq = NoDq

\* A block with room and the place in it.
find_free_dqentry(q) ==
  LET got == get_free_dqblk(q)
      new == q.free_entry = 0
      blk == IF new THEN got.blk ELSE q.free_entry
      buf == IF new THEN ZeroBlk ELSE q.blk[blk]
      listed == IF new THEN [got.q EXCEPT !.free_entry = blk] ELSE q
      full == buf.entries + 1 >= dqstr_in_blk
      out == IF full THEN remove_free_dqentry(listed, buf, blk) ELSE listed
      kept == IF full THEN out.blk[blk] ELSE buf
      i == Min({j \in DOMAIN buf.dq : Unused(buf.dq[j])})
  IN  IF blk = 0 THEN [q |-> got.q, blk |-> 0, off |-> <<0, 0>>]
      ELSE [q |-> [out EXCEPT !.blk[blk] = [kept EXCEPT !.entries = @ + 1]],
            blk |-> blk, off |-> <<blk, i>>]

(*************************************************************************)
(* The tree.                                                             *)
(*************************************************************************)
\* The reference for id below the tree block treeblk, 0 for one still to be
\* made; off is where the entry goes.
RECURSIVE do_insert_tree(_, _, _, _)
do_insert_tree(q, id, treeblk, depth) ==
  LET got == get_free_dqblk(q)
      newact == treeblk = 0
      at == IF newact THEN got.blk ELSE treeblk
      p == IF newact THEN got.q ELSE q
      buf == IF newact THEN ZeroBlk ELSE q.blk[at]
      ix == get_index(id, depth)
      Refer(r) == IF r.blk # 0 /\ buf.refs[ix] = 0
                    THEN [r EXCEPT !.q.blk[at] = [buf EXCEPT !.refs[ix] = r.blk], !.blk = at]
                  ELSE IF r.blk = 0 /\ newact THEN [r EXCEPT !.q = put_free_dqblk(@, buf, at)]
                  ELSE IF r.blk = 0 THEN r
                  ELSE [r EXCEPT !.blk = at]
  IN  IF at = 0 THEN [q |-> got.q, blk |-> 0, off |-> <<0, 0>>]
      ELSE Refer(IF depth = QT_TREEDEPTH - 1 THEN find_free_dqentry(p)
                 ELSE do_insert_tree(p, id, buf.refs[ix], depth + 1))

\* A dquot is [id, used, limit, off]; the entry of one that found no block is
\* written over the header of the file.
qtree_write_dquot(q, dq) ==
  LET Put(r) == [q |-> IF r.off = <<0, 0>> THEN [r.q EXCEPT !.header = FALSE]
                       ELSE [r.q EXCEPT !.blk[r.off[1]].dq[r.off[2]] =
                               [id |-> dq.id, used |-> dq.used, limit |-> dq.limit]],
                 off |-> r.off]
  IN  Put(IF dq.off = <<0, 0>> THEN do_insert_tree(q, dq.id, QT_TREEOFF, 0)
          ELSE [q |-> q, off |-> dq.off])

\* A mutant: a block that was full does not return to the list.
free_dqentry_lost(q, off, blk) ==
  LET buf == [q.blk[blk] EXCEPT !.entries = @ - 1]
      out == remove_free_dqentry(q, buf, blk)
      clear == [buf EXCEPT !.dq[off[2]] = NoDq]
  IN  IF buf.entries = 0 THEN put_free_dqblk(out, out.blk[blk], blk)
      ELSE [q EXCEPT !.blk[blk] = clear]

free_dqentry(q, off, blk) ==
  LET buf == [q.blk[blk] EXCEPT !.entries = @ - 1]
      out == remove_free_dqentry(q, buf, blk)
      clear == [buf EXCEPT !.dq[off[2]] = NoDq]
  IN  IF buf.entries = 0 THEN put_free_dqblk(out, out.blk[blk], blk)
      ELSE IF buf.entries = dqstr_in_blk - 1 THEN insert_free_dqentry(q, clear, blk)
      ELSE [q EXCEPT !.blk[blk] = clear]

\* blk is 0 when the tree block went to the free list.
RECURSIVE remove_tree(_, _, _, _)
remove_tree(q, dq, blk, depth) ==
  LET ix == get_index(dq.id, depth)
      buf == q.blk[blk]
      r == IF depth = QT_TREEDEPTH - 1
           THEN [q |-> free_dqentry(q, dq.off, buf.refs[ix]), blk |-> 0]
           ELSE remove_tree(q, dq, buf.refs[ix], depth + 1)
      cut == [buf EXCEPT !.refs[ix] = 0]
  IN  IF r.blk # 0 THEN [q |-> r.q, blk |-> blk]
      ELSE IF cut.refs = ZeroBlk.refs /\ blk # QT_TREEOFF
        THEN [q |-> put_free_dqblk(r.q, cut, blk), blk |-> 0]
      ELSE [q |-> [r.q EXCEPT !.blk[blk] = cut], blk |-> blk]

qtree_delete_dquot(q, dq) ==
  IF dq.off = <<0, 0>> THEN q ELSE remove_tree(q, dq, QT_TREEOFF, 0).q

find_block_dqentry(q, id, blk) ==
  LET at == {i \in 1..dqstr_in_blk : q.blk[blk].dq[i].id = id}
  IN  <<blk, IF at = {} THEN dqstr_in_blk + 1 ELSE Min(at)>>

RECURSIVE find_tree_dqentry(_, _, _, _)
find_tree_dqentry(q, id, blk, depth) ==
  LET ref == q.blk[blk].refs[get_index(id, depth)]
  IN  IF ref = 0 THEN <<0, 0>>
      ELSE IF depth < QT_TREEDEPTH - 1 THEN find_tree_dqentry(q, id, ref, depth + 1)
      ELSE find_block_dqentry(q, id, ref)

qtree_read_dquot(q, id) ==
  LET off == find_tree_dqentry(q, id, QT_TREEOFF, 0)
      dq == IF off = <<0, 0>> THEN NoDq ELSE q.blk[off[1]].dq[off[2]]
  IN  [id |-> id, used |-> dq.used, limit |-> dq.limit, off |-> off]

v2_commit_dquot(q, dq) ==
  IF dq.used = 0 /\ dq.limit = 0 THEN qtree_delete_dquot(q, dq) ELSE qtree_write_dquot(q, dq).q

\* The blocks the tree refers to at its last level.
RECURSIVE Leaves(_, _, _)
Leaves(q, blk, depth) ==
  LET refs == Range(q.blk[blk].refs) \ {0}
  IN  IF depth = QT_TREEDEPTH - 1 THEN refs
      ELSE UNION {Leaves(q, b, depth + 1) : b \in refs}

\* qtree_scan_dquots: every entry in use of every such block, each block once.
qtree_scan_dquots(q) ==
  {q.blk[b].dq[i] : <<b, i>> \in
     {p \in Leaves(q, QT_TREEOFF, 0) \X (1..dqstr_in_blk) : ~Unused(q.blk[p[1]].dq[p[2]])}}

(*************************************************************************)
(* mkquota.c.  A dictionary is a function from ids to [used, limit].     *)
(*************************************************************************)
\* quota_compute_usage, or the calls of quota_data_add and quota_data_inodes in
\* pass 1: the ids that own something.
quota_compute_usage ==
  [id \in {i \in QuotaIds : usage[i] # 0} |-> [used |-> usage[id], limit |-> 0]]

\* scan_dquots_callback for the entries of the file: get_dq adds an id it meets.
Scanned(dict, q, update_limits, update_usage) ==
  LET on == qtree_scan_dquots(q)
      Of(id) == CHOOSE e \in on : e.id = id
      met == {e.id : e \in on}
      old == [id \in DOMAIN dict \cup met |->
                IF id \in DOMAIN dict THEN dict[id] ELSE [used |-> 0, limit |-> 0]]
  IN  [id \in DOMAIN old |->
         IF id \notin met THEN old[id]
         ELSE [used |-> IF update_usage THEN Of(id).used ELSE old[id].used,
               limit |-> IF update_limits THEN Of(id).limit ELSE old[id].limit]]

\* quota_compare_and_update: usage that differs, or an entry that is missing.
Inconsistent(dict, q) ==
  LET on == qtree_scan_dquots(q)
      found == Scanned(dict, q, TRUE, FALSE)
  IN  \/ \E e \in on : e.used # found[e.id].used
      \/ \E id \in DOMAIN found : \A e \in on : e.id # id

\* quota_write_inode: a new file with every entry of the dictionary, in order.
quota_write_inode(dict) ==
  FoldLeft(LAMBDA q, id : v2_commit_dquot(q, [id |-> id, used |-> dict[id].used,
                                              limit |-> dict[id].limit, off |-> <<0, 0>>]),
           v2_new_io, SetToSortSeq(DOMAIN dict, <))

(*************************************************************************)
(* Calls.                                                                *)
(*************************************************************************)
QuotaCall == quotaCalls < MaxQuotaCalls /\ quotaCalls' = quotaCalls + 1

\* An entry is read, changed and committed while quota is kept.
CommitDquot ==
  /\ QuotaCall /\ qfile.header
  /\ \E id \in QuotaIds, used \in Amounts, limit \in Amounts :
       LET dq == qtree_read_dquot(qfile, id)
       IN  /\ <<used, limit>> # <<dq.used, dq.limit>>
           /\ qfile' = v2_commit_dquot(qfile, [dq EXCEPT !.used = used, !.limit = limit])
           /\ usage' = [usage EXCEPT ![id] = used]
           /\ expected' = [expected EXCEPT ![id] = [used |-> used, limit |-> limit]]

\* The usage changes while nothing keeps the file.
UsageDrifts ==
  /\ QuotaCall
  /\ \E id \in QuotaIds : \E used \in Amounts \ {usage[id]} :
       usage' = [usage EXCEPT ![id] = used]
  /\ UNCHANGED <<qfile, expected>>

\* The end of e2fsck: the file is made again when it is inconsistent and the user
\* agrees.
e2fsck_quota ==
  /\ QuotaCall /\ qfile.header
  /\ LET dict == Scanned(quota_compute_usage, qfile, TRUE, FALSE)
         bad == Inconsistent(quota_compute_usage, qfile)
     IN  \E yes \in BOOLEAN :
           /\ qfile' = IF bad /\ yes THEN quota_write_inode(dict) ELSE qfile
           /\ expected' = IF bad /\ ~yes THEN expected
                          ELSE [id \in QuotaIds |-> [expected[id] EXCEPT !.used = usage[id]]]
  /\ UNCHANGED usage

\* tune2fs -O quota.
handle_quota_options ==
  /\ QuotaCall /\ qfile.header
  /\ qfile' = quota_write_inode(IF TakesOver
                                THEN Scanned(quota_compute_usage, qfile, FALSE, TRUE)
                                ELSE quota_compute_usage)
  /\ expected' = [id \in QuotaIds |->
                    [used |-> usage[id], limit |-> IF TakesOver THEN expected[id].limit ELSE 0]]
  /\ UNCHANGED usage

QuotaInit ==
  /\ qfile = v2_new_io
  /\ usage = [id \in QuotaIds |-> 0]
  /\ expected = [id \in QuotaIds |-> [used |-> 0, limit |-> 0]]
  /\ quotaCalls = 0

QuotaNext == CommitDquot \/ UsageDrifts \/ e2fsck_quota \/ handle_quota_options
QuotaSpec == QuotaInit /\ [][QuotaNext]_quotaVars

(*************************************************************************)
(* Properties.                                                           *)
(*************************************************************************)
\* The blocks on a list that starts at b, in order; a list is no longer than the
\* file.
RECURSIVE ListOf(_, _)
ListOf(b, n) ==
  IF b = 0 \/ n = 0 THEN <<>> ELSE <<b>> \o ListOf(qfile.blk[b].next, n - 1)

RECURSIVE TreeBlocks(_, _)
TreeBlocks(blk, depth) ==
  IF depth = QT_TREEDEPTH - 1 THEN <<blk>>
  ELSE <<blk>> \o FlattenSeq([i \in 1..Radix |->
                     LET b == qfile.blk[blk].refs[i]
                     IN  IF b = 0 THEN <<>> ELSE TreeBlocks(b, depth + 1)])

\* Unless it ran out of space the quota file (quotaio_tree.c) holds for every id
\* exactly what was last committed or recomputed, found by the tree as by a scan;
\* each of its blocks is a block of the tree, a data block with as many entries
\* as it counts, or free, and only one of these; and the blocks with free entries
\* are on one list that is linked both ways.
QuotaFileIsExact ==
  LET data == Leaves(qfile, QT_TREEOFF, 0)
      tree == TreeBlocks(QT_TREEOFF, 0)
      free == ListOf(qfile.free_blk, QuotaFileMax)
      room == ListOf(qfile.free_entry, QuotaFileMax)
      InUse(b) == {i \in 1..dqstr_in_blk : ~Unused(qfile.blk[b].dq[i])}
  IN  ~qfile.nospace =>
    /\ qfile.header
    /\ \A id \in QuotaIds :
         LET dq == qtree_read_dquot(qfile, id)
         IN  [used |-> dq.used, limit |-> dq.limit] = expected[id]
    /\ \A id \in QuotaIds :
         Cardinality({e \in qtree_scan_dquots(qfile) : e.id = id})
           = IF expected[id] = [used |-> 0, limit |-> 0] THEN 0 ELSE 1
    /\ IsInjective(tree \o free \o SetToSeq(data))
    /\ Range(tree) \cup Range(free) \cup data = QT_TREEOFF .. qfile.dqi_blocks - 1
    /\ \A b \in data : qfile.blk[b].entries = Cardinality(InUse(b))
    /\ Range(room) = {b \in data : Cardinality(InUse(b)) < dqstr_in_blk}
    /\ IsInjective(room)
    /\ \A i \in DOMAIN room :
         qfile.blk[room[i]].prev = IF i = 1 THEN 0 ELSE room[i - 1]
=============================================================================
