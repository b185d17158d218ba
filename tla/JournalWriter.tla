----------------------------- MODULE JournalWriter -----------------------------
(***************************************************************************)
(* The journal writer of debugfs (debugfs/do_journal.c): journal_open,     *)
(* journal_write and journal_close, in a session that precedes or follows  *)
(* a run of e2fsck and appends transactions to the log that e2fsck then    *)
(* recovers.                                                               *)
(*                                                                         *)
(* A transaction fits one descriptor block and one revoke block, and the   *)
(* machine does not crash during a session.                                *)
(***************************************************************************)
EXTENDS JournalRecovery

CONSTANTS WriterShapes,    \* what journal_write is asked to write and revoke
          EnabledCsums,    \* the checksums that journal_open -c turns on
          CarefulWriter,   \* only transactions the writer gets right (Fits)
          MaxBefore,       \* transactions in the log before the session
          MaxSessions, MaxOpens, MaxWrites

VARIABLES journal,    \* current_journal
          session     \* counts, and the transactions committed since it was opened

writerVars == <<journal, session>>
allVars == <<vars, writerVars>>

ASSUME JournalWriterConstants ==
    /\ \A s \in WriterShapes : s.writes \in Seq(FsBlocks) /\ s.revokes \subseteq FsBlocks
    /\ EnabledCsums \subseteq {"v1", "v3"} /\ CarefulWriter \in BOOLEAN
    /\ {MaxBefore, MaxSessions, MaxOpens, MaxWrites} \subseteq Nat

NoJournal == [open |-> FALSE, tail |-> 0, tail_sequence |-> 0, head |-> 0,
              transaction_sequence |-> 0, s_start |-> 0]

WriterInit == /\ Init
              /\ journal = NoJournal
              /\ session = [n |-> 0, opens |-> 0, writes |-> 0, txs |-> <<>>]

-----------------------------------------------------------------------------
(* The session *)

\* open_filesystem -w.  An empty log is the start of a new history.
open_filesystem ==
    /\ pc \in {"idle", "clean"} /\ session.n < MaxSessions /\ crashes = 0
    /\ outcome \in {"none", "recovered"}
    /\ history.damaged = 0 /\ Len(history.txs) =< MaxBefore
    /\ pc' = "debugfs"
    /\ super' = content["sb"] /\ dirty' = FALSE
    /\ history' = IF content["jsb"].s_start # 0 THEN history
                  ELSE [history EXCEPT !.txs = <<>>, !.tid = content["jsb"].s_sequence,
                          !.start = j_first, !.torn = FALSE, !.flagged = FALSE,
                          !.old = [b \in FsBlocks |-> content[b]]]
    /\ outcome' = "none"
    /\ session' = [session EXCEPT !.n = @ + 1]
    /\ UNCHANGED <<log, feature, devVars, after, forced, restarted, recVars, crashes, journal>>

\* The block after the last commit and the number of the next transaction; neither
\* is known when a block cannot be read.
RECURSIVE journal_find_head(_, _, _)
journal_find_head(pos, id, head) ==
    LET block == log[pos]
        next == wrap(pos + 1)
    IN IF ~block.readable THEN [head |-> 0, id |-> content["jsb"].s_sequence]
       ELSE IF block.type = "data" \/ block.tid # id THEN [head |-> head, id |-> id]
       ELSE CASE block.type = "descriptor" ->
                   journal_find_head(wrap(next + Len(block.tags)), id, head)
              [] block.type = "commit" -> journal_find_head(next, Tid(id + 1), next)
              [] block.type = "revoke" -> journal_find_head(next, id, head)

\* ext2fs_journal_load, update_journal_csum, journal_find_head.  Checksums are not
\* turned on over a log with data in it.
do_journal_open ==
    /\ pc = "debugfs" /\ ~journal.open /\ session.opens < MaxOpens
    /\ LET jsb == content["jsb"]
           found == IF jsb.s_start = 0 THEN [head |-> 0, id |-> jsb.s_sequence]
                    ELSE journal_find_head(jsb.s_start, jsb.s_sequence, jsb.s_start)
       IN /\ journal' = [open |-> TRUE, tail |-> jsb.s_start, s_start |-> jsb.s_start,
                         tail_sequence |-> jsb.s_sequence, head |-> found.head,
                         transaction_sequence |-> found.id]
          /\ \E csum \in {feature.csum} \cup
                         (IF jsb.s_start # 0 \/ super.needs_recovery THEN {} ELSE EnabledCsums) :
               feature' = [feature EXCEPT !.csum = csum]
    /\ session' = [session EXCEPT !.opens = @ + 1]
    /\ UNCHANGED <<log, history, devVars, pc, after, ctxVars, recVars, outcome, crashes>>

-----------------------------------------------------------------------------
(* journal_write *)

\* The descriptor and revoke blocks are counted in whole blocks: none for a small
\* transaction.  One block is added for the commit.
journal_guess_blocks(s) == 1 + Len(s.writes)

\* journal_open_trans.
TransStart == IF journal.tail = 0 THEN j_first ELSE journal.head
TransTid == IF journal.tail = 0 THEN journal.tail_sequence ELSE journal.transaction_sequence

\* Blocks and their places in the log, in the order they are written.
At(p, blocks) == [i \in 1 .. Len(blocks) |-> [at |-> p + i - 1, block |-> blocks[i]]]
OfType(s, t, type) == SelectSeq(Layout(s, t), LAMBDA r : r.type = type)

\* The descriptor goes before the data blocks and is written after them.
journal_add_blocks_to_trans(s, p, t) ==
    At(p + 1, OfType(s, t, "data")) \o At(p, OfType(s, t, "descriptor"))

journal_add_revoke_to_trans(s, p, t) == At(p, OfType(s, t, "revoke"))

\* The v1 checksum covers all blocks of the transaction; that of calc_chksums leaves
\* out the revoke block.
journal_commit_trans(s, p, t) ==
    At(p, <<[LogBlock("commit", t) EXCEPT !.sound = ~v1 \/ s.revokes = {}]>>)

TransBlocks(s, start, t) ==
    LET data == journal_add_blocks_to_trans(s, start, t)
        revokes == journal_add_revoke_to_trans(s, start + Len(data), t)
    IN data \o revokes
       \o journal_commit_trans(s, start + Len(data) + Len(revokes), t)

\* The log once the blocks ws are written.  Past the last block of the journal there
\* is none, and journal_bmap maps it to block 0.
LogWith(ws) ==
    [p \in Positions |-> IF \E i \in 1 .. Len(ws) : ws[i].at = p
                         THEN (CHOOSE w \in ToSet(ws) : w.at = p).block ELSE log[p]]

\* Faulty variant: the next transaction starts on the commit block of this one.
journal_close_trans_at_end(start, t, blocks) ==
    [journal EXCEPT !.tail = IF @ = 0 THEN start ELSE @,
                    !.tail_sequence = IF journal.tail = 0 THEN t ELSE @,
                    !.s_start = IF journal.tail = 0 THEN start ELSE @,
                    !.head = start + blocks, !.transaction_sequence = Tid(t + 1)]

\* journal_close_trans, after a commit: the first transaction of an empty log is its
\* tail.
journal_close_trans(start, t, blocks) ==
    [journal EXCEPT !.tail = IF @ = 0 THEN start ELSE @,
                    !.tail_sequence = IF journal.tail = 0 THEN t ELSE @,
                    !.s_start = IF journal.tail = 0 THEN start ELSE @,
                    !.head = start + blocks + 1, !.transaction_sequence = Tid(t + 1)]

\* The transactions the writer gets right: with data or with revocations but not both
\* (the estimate is then one block short), without v1 checksums if they revoke, with
\* room for the commit block, and clear of the tail.
Fits(s) == LET end == TransStart + journal_guess_blocks(s)
           IN /\ (s.writes = <<>>) # (s.revokes = {})
              /\ v1 => s.revokes = {}
              /\ end # j_last
              /\ journal.tail \notin TransStart .. end

\* All the blocks of a transaction are written, or some: a write fails, or -c leaves
\* out the commit block.
journal_write(s) ==
    LET start == TransStart
        t == TransTid
        blocks == journal_guess_blocks(s)
        ws == TransBlocks(s, start, t)
    IN IF start + blocks > j_last          \* ENOSPC
       THEN UNCHANGED <<log, super, dirty, journal>>
            /\ session' = [session EXCEPT !.writes = @ + 1]
       ELSE \E k \in 0 .. Len(ws) :
            LET committed == k = Len(ws) IN
               /\ log' = LogWith(SubSeq(ws, 1, k))
               /\ journal' = IF committed THEN journal_close_trans(start, t, blocks) ELSE journal
               /\ super' = [super EXCEPT !.needs_recovery = @ \/ committed]
               /\ dirty' = (dirty \/ committed)
               /\ session' = [session EXCEPT !.writes = @ + 1,
                                !.txs = IF committed THEN Append(@, s) ELSE @]

do_journal_write ==
    /\ pc = "debugfs" /\ journal.open /\ session.writes < MaxWrites
    /\ \E s \in WriterShapes : (CarefulWriter => Fits(s)) /\ journal_write(s)
    /\ UNCHANGED <<feature, history, devVars, pc, after, forced, restarted, recVars, outcome,
                   crashes>>

-----------------------------------------------------------------------------

\* ext2fs_close_journal writes the journal superblock.  needs_recovery follows when
\* the file system is closed.
do_journal_close ==
    /\ pc = "debugfs" /\ journal.open
    /\ Write("jsb", Jsb(journal.s_start, journal.tail_sequence, content["jsb"].s_errno))
    /\ journal' = NoJournal
    /\ UNCHANGED <<logVars, pc, after, ctxVars, recVars, outcome, crashes, session>>

\* ext2fs_close_free: ext2fs_flush2 in one step.  A journal left open is dropped, and
\* with it the transactions of a log whose s_start was not written.
close_filesystem ==
    /\ pc = "debugfs" /\ (CarefulWriter => ~journal.open)
    /\ IF ~dirty THEN UNCHANGED <<devVars, history>>
       ELSE /\ content' = [content EXCEPT !["sb"] = super]
            /\ survives' = [b \in DevBlocks |-> {content'[b]}]
            /\ history' = [history EXCEPT
                 !.flagged = TRUE,
                 !.txs = IF content["jsb"].s_start = 0 THEN @
                         ELSE SubSeq(@, 1, Committed) \o session.txs,
                 !.torn = @ /\ content["jsb"].s_start = 0]
    /\ pc' = "idle" /\ dirty' = FALSE
    /\ journal' = NoJournal
    /\ session' = [session EXCEPT !.txs = <<>>]
    /\ UNCHANGED <<log, feature, after, super, forced, restarted, recVars, outcome, crashes>>

WriterStep == do_journal_open \/ do_journal_write \/ do_journal_close \/ close_filesystem

\* Recovery runs outside of the sessions.  It is not interrupted after one: a log of
\* the writer is of the same kind as one of the kernel.
RecoveryStep == pc # "debugfs" /\ Step /\ UNCHANGED writerVars
RecoveryCrash == pc # "debugfs" /\ session.n = 0 /\ Crash /\ UNCHANGED writerVars

WriterNext == RecoveryStep \/ RecoveryCrash \/ open_filesystem \/ WriterStep

\* A session that is started ends, and e2fsck runs after it.
WriterSpec == /\ WriterInit /\ [][WriterNext]_allVars
              /\ WF_allVars(RecoveryStep) /\ WF_allVars(WriterStep)

\* The same for a recovery by debugfs, which has its own check of the journal.
RecoveryStepDebugfs == ext2fs_check_ext3_journal /\ UNCHANGED writerVars
WriterSpecDebugfs == WriterInit /\ [][WriterNext \/ RecoveryStepDebugfs]_allVars
================================================================================
