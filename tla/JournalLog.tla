------------------------------ MODULE JournalLog ------------------------------
(***************************************************************************)
(* The on-disk log of an ext3/ext4 journal, as e2fsck/recovery.c reads it  *)
(* and as the kernel leaves it behind: a circular sequence of transactions *)
(* starting at s_start, each a revoke block, a descriptor block with one   *)
(* data block per tag, and a commit block.  What follows the last one is   *)
(* left over from an earlier lap.                                          *)
(***************************************************************************)
EXTENDS Integers, Sequences, FiniteSets, SequencesExt

CONSTANTS j_first, j_last, \* the log blocks are j_first .. j_last - 1
          TidMod,          \* 2^w, w the width of a tid_t
          FsBlocks,        \* file system blocks the journal covers
          MagicBlocks,     \* those whose data starts with JFS_MAGIC_NUMBER
          Shapes,          \* what a transaction writes (in order) and revokes
          MaxTransactions

\* "sb" is the block of the file system superblock.
ASSUME JournalLogConstants ==
    /\ j_first \in Nat \ {0} /\ j_last \in Nat /\ j_first < j_last
    /\ TidMod \in Nat /\ TidMod % 2 = 0 /\ TidMod > 0
    /\ "sb" \in FsBlocks /\ MagicBlocks \subseteq FsBlocks \ {"sb"}
    /\ \A s \in Shapes : s.writes \in Seq(FsBlocks) /\ s.revokes \subseteq FsBlocks

Positions == j_first .. j_last - 1
Tids == 0 .. TidMod - 1
Disk == TidMod           \* the writer of what is on disk before any replay

-----------------------------------------------------------------------------
(* kernel-jbd.h, recovery.c: transaction numbers and log positions wrap *)

Tid(x) == x % TidMod
Difference(x, y) == Tid(x - y)      \* as a signed number: < 0 from the half on
tid_gt(x, y) == Difference(x, y) \in 1 .. TidMod \div 2 - 1
tid_geq(x, y) == Difference(x, y) < TidMod \div 2

wrap(p) == IF p >= j_last THEN p - (j_last - j_first) ELSE p

-----------------------------------------------------------------------------
(* Blocks *)

\* What transaction t stores in block b.  A superblock image was taken while
\* the file system was mounted.
Super(by, needs_recovery, valid, error) ==
    [by |-> by, needs_recovery |-> needs_recovery, valid |-> valid, error |-> error]
Image(b, t) == IF b = "sb" THEN Super(t, TRUE, TRUE, FALSE)
                           ELSE [by |-> t, magic |-> b \in MagicBlocks]

\* In the log a data block never starts with the magic number: it is cleared
\* and the tag says so (JFS_FLAG_ESCAPE).
Escaped(b, t) == IF b \in MagicBlocks THEN [Image(b, t) EXCEPT !.magic = FALSE]
                                      ELSE Image(b, t)
Unescape(v) == [v EXCEPT !.magic = TRUE]

NoData == [by |-> Disk, magic |-> FALSE]
LogBlock(type, t) == [type |-> type, tid |-> t, tags |-> <<>>, revoked |-> {},
                      data |-> NoData, sound |-> TRUE, readable |-> TRUE]

\* One transaction in the log.
Layout(tx, t) ==
    LET n == Len(tx.writes)
        descriptor == [LogBlock("descriptor", t) EXCEPT !.tags =
            [i \in 1 .. n |-> [block |-> tx.writes[i],
                               escape |-> tx.writes[i] \in MagicBlocks]]]
    IN (IF tx.revokes = {} THEN <<>>
        ELSE <<[LogBlock("revoke", t) EXCEPT !.revoked = tx.revokes]>>)
       \o (IF n = 0 THEN <<>> ELSE <<descriptor>>)
       \o [i \in 1 .. n |-> [LogBlock("data", t) EXCEPT
                               !.data = Escaped(tx.writes[i], t)]]
       \o <<LogBlock("commit", t)>>

\* The transactions txs, the first one numbered t; without the last commit block
\* when torn.
Records(txs, t, torn) ==
    LET all == FlattenSeq([i \in 1 .. Len(txs) |-> Layout(txs[i], Tid(t + i - 1))])
    IN IF torn THEN Front(all) ELSE all

\* They are laid out from start on; the rest of the log holds commit blocks of
\* the transaction before.
LogOf(records, start, t) ==
    [p \in Positions |->
       LET k == ((p - start) % (j_last - j_first)) + 1
       IN IF k =< Len(records) THEN records[k] ELSE LogBlock("commit", Tid(t - 1))]

-----------------------------------------------------------------------------
(* The reference: what recovery has to bring about, from the transactions    *)
(* themselves and not from the log                                           *)

\* The transactions, among the first n, whose image of b is to be replayed: those
\* that wrote it and were not followed by a revocation of it.
Replayable(txs, n, b) ==
    {i \in 1 .. n : /\ b \in ToSet(txs[i].writes)
                    /\ \A j \in i .. n : b \notin txs[j].revokes}

\* Block b once the first n transactions are replayed over the value old.
Goal(txs, t, n, b, old) ==
    LET R == Replayable(txs, n, b)
    IN IF R = {} THEN old
       ELSE Image(b, Tid(t + (CHOOSE i \in R : \A j \in R : j =< i) - 1))
================================================================================
