---------------------------- MODULE JournalRecovery ----------------------------
(**************************************************************************)
(* Journal recovery by e2fsck (e2fsck/recovery.c, revoke.c, journal.c and *)
(* the part of main that runs them) and by debugfs (debugfs/journal.c).   *)
(*                                                                        *)
(* A step is one iteration of the loop of do_one_pass, or one access to   *)
(* the device between whose neighbours a crash makes a difference.  The   *)
(* device is the one of BlockDevice.tla: a write is read back at once, a  *)
(* crash leaves any of the values written since the last flush.           *)
(**************************************************************************)
EXTENDS JournalLog

CONSTANTS Program,          \* "e2fsck" or "debugfs"
          Features,         \* journal features: [csum, async]
          Places,           \* where the log starts and its first transaction
          MaxDamaged,       \* logs of so many transactions may hold a bad block
          V1ReadErrors,     \* a data block of a log with v1 checksums may be unreadable
          SyncMayFail,      \* the flush after the replay may fail
          MaxCrashes

VARIABLES log, feature,
          history,      \* the transactions the log was written from, the blocks before
          content,      \* block -> what a read returns; with "jsb", the journal superblock
          survives,     \* block -> the values a crash may leave
          pc, after,    \* where the program is; where it goes once the superblock is written
          super, dirty, \* fs->super in memory, EXT2_FLAG_DIRTY
          forced,       \* E2F_OPT_FORCE
          restarted,    \* E2F_FLAG_RESTARTED
          rec,          \* recovery_info, and the locals of do_one_pass
          revoke,       \* the revoke table: block -> sequence
          outcome,      \* history: how the journal was last emptied
          crashes

logVars == <<log, feature, history>>
devVars == <<content, survives>>
ctxVars == <<super, dirty, forced, restarted>>
recVars == <<rec, revoke>>
vars == <<logVars, devVars, pc, after, ctxVars, recVars, outcome, crashes>>

ASSUME JournalRecoveryConstants ==
    /\ Program \in {"e2fsck", "debugfs"}
    /\ \A f \in Features : f.csum \in {"none", "v1", "v3"} /\ f.async \in BOOLEAN
    /\ \A x \in Places : x.start \in Positions /\ x.tid \in Tids
    /\ MaxDamaged \in Nat /\ MaxCrashes \in Nat
    /\ {SyncMayFail, V1ReadErrors} \subseteq BOOLEAN

DataBlocks == FsBlocks \ {"sb"}
DevBlocks == FsBlocks \cup {"jsb"}
Jsb(start, sequence, errno) ==
    [s_start |-> start, s_sequence |-> sequence, s_errno |-> errno]
NoRec == [pass |-> "none", id |-> 0, pos |-> j_first, end |-> 0, crc |-> TRUE,
          err |-> FALSE, failed |-> 0, tid |-> 0]
NoRevoke == [b \in {} |-> 0]

-----------------------------------------------------------------------------
(* The journals a crashed kernel leaves (external).  needs_recovery may have  *)
(* been lost with the superblock: the backups have it, and the valid flag,    *)
(* cleared.                                                                   *)

Histories == {[txs |-> txs, tid |-> x.tid, start |-> x.start, torn |-> torn,
               damaged |-> 0, flagged |-> flagged,
               old |-> [b \in FsBlocks |->
                          IF b = "sb" THEN Super(Disk, flagged, flagged, FALSE) ELSE NoData]] :
                txs \in UNION {[1 .. n -> Shapes] : n \in 1 .. MaxTransactions},
                x \in Places, torn \in BOOLEAN, flagged \in BOOLEAN}
RecordsOf(h) == Records(h.txs, h.tid, h.torn)

\* A media error, or a block whose checksum, if the format has one for it, does
\* not match.
Damages(f, r) ==
    (IF f.csum # "v1" \/ r.type # "data" \/ V1ReadErrors
     THEN {[r EXCEPT !.readable = FALSE]} ELSE {}) \cup
    (IF f.csum = "v3" \/ (f.csum = "v1" /\ r.type \in {"data", "commit"})
     THEN {[r EXCEPT !.sound = FALSE]} ELSE {})

Written(h, f) ==
    LET rs == RecordsOf(h)
        whole == [history |-> h, records |-> rs]
    IN {whole} \cup
       (IF Len(h.txs) > MaxDamaged THEN {} ELSE
        {[history |-> [h EXCEPT !.damaged = Tid(rs[d.k].tid - h.tid) + 1],
          records |-> [rs EXCEPT ![d.k] = d.r]] :
           d \in UNION {{[k |-> k, r |-> r] : r \in Damages(f, rs[k])} :
                          k \in 1 .. Len(rs)}})

Init ==
    /\ feature \in Features
    /\ \E h \in Histories :
         /\ Len(RecordsOf(h)) < j_last - j_first
         /\ \E w \in Written(h, feature) :
              /\ history = w.history
              /\ log = LogOf(w.records, h.start, h.tid)
         /\ content = [b \in DevBlocks |-> IF b = "jsb" THEN Jsb(h.start, h.tid, FALSE)
                                                        ELSE h.old[b]]
    /\ survives = [b \in DevBlocks |-> {content[b]}]
    /\ pc = "idle" /\ after = "none"
    /\ super = content["sb"] /\ dirty = FALSE
    /\ forced = FALSE /\ restarted = FALSE
    /\ rec = NoRec /\ revoke = NoRevoke
    /\ outcome = "none" /\ crashes = 0

-----------------------------------------------------------------------------
(* The device *)

Write(b, v) == /\ content' = [content EXCEPT ![b] = v]
               /\ survives' = [survives EXCEPT ![b] = @ \cup {v}]
Flush == /\ survives' = [b \in DevBlocks |-> {content[b]}]
         /\ UNCHANGED content

Crash == /\ pc # "idle" /\ crashes < MaxCrashes
         /\ \E j \in survives["jsb"], s \in survives["sb"],
               d \in [DataBlocks -> UNION {survives[b] : b \in DataBlocks}] :
              /\ \A b \in DataBlocks : d[b] \in survives[b]
              /\ content' = [b \in DevBlocks |-> CASE b = "jsb" -> j
                                                   [] b = "sb" -> s
                                                   [] OTHER -> d[b]]
         /\ survives' = [b \in DevBlocks |-> {content'[b]}]
         /\ pc' = "idle" /\ after' = "none"
         /\ super' = content'["sb"] /\ dirty' = FALSE
         /\ forced' = FALSE /\ restarted' = FALSE
         /\ rec' = NoRec /\ revoke' = NoRevoke
         /\ crashes' = crashes + 1
         /\ UNCHANGED <<logVars, outcome>>

-----------------------------------------------------------------------------
(* e2fsck: main, e2fsck_check_ext3_journal, check_if_skip *)

\* ext2fs_open.  A program started anew has none of its flags set.
Open == /\ pc \in {"idle", "restart"}
        /\ super' = content["sb"] /\ dirty' = FALSE
        /\ restarted' = (pc = "restart")
        /\ forced' = (pc = "restart" /\ forced)
        /\ pc' = IF Program = "e2fsck" THEN "check" ELSE "run"
        /\ UNCHANGED <<logVars, devVars, after, recVars, outcome, crashes>>

\* What the user, or -p and -y, answer when the journal has data in it but
\* needs_recovery is clear; "none" when the question is not asked.
Answers == IF ~super.needs_recovery /\ content["jsb"].s_start # 0
           THEN {"run", "reset", "ignore"} ELSE {"none"}

\* s_errno is handed on to the superblock unless a recovery is still to come.
\* e2fsck_journal_release writes the journal superblock in any case.
e2fsck_check_ext3_journal ==
    /\ pc \in {"check", "recheck"} /\ Program = "e2fsck"
    /\ \E answer \in Answers :
         LET jsb == content["jsb"]
             needs == super.needs_recovery \/ answer = "run"
             errno == ~needs /\ jsb.s_errno
         IN /\ super' = [super EXCEPT !.needs_recovery = needs,
                                      !.valid = @ /\ answer # "reset",
                                      !.error = @ \/ errno]
            /\ dirty' = (dirty \/ answer \in {"run", "reset"} \/ errno)
            /\ forced' = (forced \/ answer = "run")
            /\ Write("jsb", Jsb(IF answer = "reset" THEN 0 ELSE jsb.s_start,
                                jsb.s_sequence, jsb.s_errno /\ ~errno))
            /\ outcome' = IF answer = "reset" THEN "discarded" ELSE outcome
            /\ pc' = CASE pc = "recheck" -> "close"
                       [] pc = "check" /\ ~needs -> "skip"
                       [] pc = "check" /\ needs -> IF restarted THEN "fatal" ELSE "run"
    /\ UNCHANGED <<logVars, after, restarted, recVars, crashes>>

\* The full check is skipped when nothing asks for it.
check_if_skip ==
    /\ pc = "skip"
    /\ pc' = IF forced \/ super.error \/ ~super.valid THEN "full check" ELSE "clean"
    /\ UNCHANGED <<logVars, devVars, after, ctxVars, recVars, outcome, crashes>>

-----------------------------------------------------------------------------
(* ext2fs_flush2: everything else is made durable before the superblock is    *)
(* written                                                                    *)

\* Faulty variant: the superblock is written without flushing the rest first.
FlushNothing == /\ pc = "flush"
                /\ pc' = "write super"
                /\ UNCHANGED <<logVars, devVars, after, ctxVars, recVars, outcome, crashes>>

FlushOthers == /\ pc = "flush"
               /\ Flush
               /\ pc' = "write super"
               /\ UNCHANGED <<logVars, after, ctxVars, recVars, outcome, crashes>>

write_primary_superblock ==
    /\ pc = "write super"
    /\ Write("sb", super)
    /\ dirty' = FALSE
    /\ pc' = "flush super"
    /\ UNCHANGED <<logVars, after, super, forced, restarted, recVars, outcome, crashes>>

FlushSuper == /\ pc = "flush super"
              /\ Flush
              /\ pc' = after /\ after' = "none"
              /\ UNCHANGED <<logVars, ctxVars, recVars, outcome, crashes>>

-----------------------------------------------------------------------------
(* e2fsck_run_ext3_journal, recover_ext3_journal, journal_recover *)

RunJournal == /\ pc = "run"
              /\ IF dirty THEN pc' = "flush" /\ after' = "recover"
                          ELSE pc' = "recover" /\ UNCHANGED after
              /\ UNCHANGED <<logVars, devVars, ctxVars, recVars, outcome, crashes>>

StartPass(r, pass) ==
    [r EXCEPT !.pass = pass, !.id = content["jsb"].s_sequence,
              !.pos = content["jsb"].s_start, !.crc = TRUE]

journal_recover ==
    /\ pc = "recover"
    /\ IF content["jsb"].s_start = 0
         THEN /\ pc' = "release"
              /\ rec' = [NoRec EXCEPT !.tid = Tid(content["jsb"].s_sequence + 1)]
         ELSE /\ pc' = "pass"
              /\ rec' = StartPass(NoRec, "scan")
    /\ UNCHANGED <<logVars, devVars, after, ctxVars, revoke, outcome, crashes>>

v2or3 == feature.csum = "v3"
v1 == feature.csum = "v1"
Here == log[rec.pos]
\* Faulty variant: no wrap after next_log_block++.
NextPosUnwrapped == rec.pos + 1
NextPos == wrap(rec.pos + 1)
PastEnd == rec.pass # "scan" /\ tid_geq(rec.id, rec.end)
InPass(type) == /\ pc = "pass" /\ ~PastEnd
                /\ Here.readable /\ Here.type = type /\ Here.tid = rec.id

\* goto failed: the pass returns the error at once.
PassFails == /\ rec' = [rec EXCEPT !.err = TRUE] /\ pc' = "sync"
PassGoesOn(r) == rec' = r /\ UNCHANGED pc

\* The loop ends: at the known end of the log, or at a block that is no part of
\* the transaction expected there.
EndOfPass ==
    /\ pc = "pass"
    /\ PastEnd \/ (Here.readable /\ (Here.type = "data" \/ Here.tid # rec.id))
    /\ LET end == IF rec.pass = "scan" /\ rec.end = 0 THEN rec.id ELSE rec.end
           err == rec.err \/ (rec.pass # "scan" /\ end # rec.id)
           r == [rec EXCEPT !.end = end, !.err = err]
       IN IF err \/ rec.pass = "replay"
          THEN rec' = r /\ pc' = "sync"
          ELSE PassGoesOn(StartPass(r, IF rec.pass = "scan" THEN "revoke" ELSE "replay"))
    /\ UNCHANGED <<logVars, devVars, after, ctxVars, revoke, outcome, crashes>>

ReadError ==
    /\ pc = "pass" /\ ~PastEnd /\ ~Here.readable
    /\ PassFails
    /\ UNCHANGED <<logVars, devVars, after, ctxVars, revoke, outcome, crashes>>

\* The i-th data block of the descriptor at rec.pos.
DataPos(i) == wrap(rec.pos + i)
NTags == Len(Here.tags)

\* calc_chksums stops at a block it cannot read.
calc_chksums ==
    LET bad == {i \in 1 .. NTags : ~log[DataPos(i)].readable}
    IN IF bad = {}
       THEN [rec EXCEPT !.pos = DataPos(NTags + 1),
                        !.crc = @ /\ Here.sound /\ \A i \in 1 .. NTags : log[DataPos(i)].sound]
       ELSE [rec EXCEPT !.pos = DataPos((CHOOSE i \in bad : \A j \in bad : i =< j) + 1),
                        !.crc = FALSE]

ScanDescriptor ==
    /\ InPass("descriptor") /\ rec.pass # "replay"
    /\ IF v2or3 /\ ~Here.sound THEN PassFails
       ELSE IF rec.pass = "scan" /\ v1 /\ rec.end = 0
       THEN PassGoesOn(calc_chksums)
       ELSE PassGoesOn([rec EXCEPT !.pos = DataPos(NTags + 1)])
    /\ UNCHANGED <<logVars, devVars, after, ctxVars, revoke, outcome, crashes>>

\* A revoke record holds for its own transaction and the earlier ones.
journal_test_revoke(b, sequence) ==
    b \in DOMAIN revoke /\ ~tid_gt(sequence, revoke[b])

\* The tags whose block is written back, and those that are an error.
ToWrite(i) == /\ log[DataPos(i)].readable
              /\ ~journal_test_revoke(Here.tags[i].block, rec.id)
              /\ v2or3 => log[DataPos(i)].sound
IsError(i) == \/ ~log[DataPos(i)].readable
              \/ /\ ~journal_test_revoke(Here.tags[i].block, rec.id)
                 /\ v2or3 /\ ~log[DataPos(i)].sound
Restored(i) == IF Here.tags[i].escape THEN Unescape(log[DataPos(i)].data)
                                      ELSE log[DataPos(i)].data

ReplayDescriptor ==
    /\ InPass("descriptor") /\ rec.pass = "replay"
    /\ IF v2or3 /\ ~Here.sound
         THEN PassFails /\ UNCHANGED devVars
         ELSE LET tagged(b) == {i \in 1 .. NTags : Here.tags[i].block = b /\ ToWrite(i)}
                  new == [b \in {b \in FsBlocks : tagged(b) # {}} |->
                            Restored(CHOOSE i \in tagged(b) : \A j \in tagged(b) : j =< i)]
              IN /\ content' = [b \in DevBlocks |-> IF b \in DOMAIN new THEN new[b]
                                                                        ELSE content[b]]
                 /\ survives' = [b \in DevBlocks |->
                                   IF b \in DOMAIN new THEN survives[b] \cup {new[b]}
                                                       ELSE survives[b]]
                 /\ PassGoesOn([rec EXCEPT !.pos = DataPos(NTags + 1),
                                  !.err = @ \/ \E i \in 1 .. NTags : IsError(i)])
    /\ UNCHANGED <<logVars, after, ctxVars, revoke, outcome, crashes>>

\* A commit block.  In the scan a bad checksum ends the log there: at once, with
\* the transaction reported, or, with asynchronous commits, after a look at the
\* next transaction.  The loop goes on in all cases.
Commit ==
    /\ InPass("commit")
    /\ LET scan == rec.pass = "scan"
           bad == \/ v1 /\ ~(rec.crc /\ Here.sound)
                  \/ v2or3 /\ ~Here.sound
           next == [rec EXCEPT !.pos = NextPos]
       IN PassGoesOn(
            IF scan /\ v1 /\ rec.end # 0 THEN [next EXCEPT !.failed = rec.end]
            ELSE IF scan /\ bad /\ ~feature.async
            THEN [next EXCEPT !.end = rec.id, !.failed = rec.id]
            ELSE [next EXCEPT !.id = Tid(@ + 1),
                              !.end = IF scan /\ bad THEN rec.id ELSE @,
                              !.crc = IF scan /\ v1 THEN TRUE ELSE @])
    /\ UNCHANGED <<logVars, devVars, after, ctxVars, revoke, outcome, crashes>>

\* Faulty variant: of several records the first one stays.
journal_set_revoke_first(table, b, sequence) ==
    IF b \in DOMAIN table THEN table[b] ELSE sequence

\* journal_set_revoke: of several records for a block the latest counts.
journal_set_revoke(table, b, sequence) ==
    IF b \in DOMAIN table /\ ~tid_gt(sequence, table[b]) THEN table[b] ELSE sequence

\* Faulty variant: a pass that has no use for a revoke block does not move past it.
scan_revoke_records_stays ==
    /\ InPass("revoke")
    /\ IF rec.pass # "revoke" THEN PassGoesOn(rec) /\ UNCHANGED revoke
       ELSE /\ revoke' = [b \in DOMAIN revoke \cup Here.revoked |->
                            IF b \in Here.revoked THEN journal_set_revoke(revoke, b, rec.id)
                                                  ELSE revoke[b]]
            /\ PassGoesOn([rec EXCEPT !.pos = NextPos])
    /\ UNCHANGED <<logVars, devVars, after, ctxVars, outcome, crashes>>

scan_revoke_records ==
    /\ InPass("revoke")
    /\ IF rec.pass # "revoke" THEN PassGoesOn([rec EXCEPT !.pos = NextPos]) /\ UNCHANGED revoke
       ELSE IF v2or3 /\ ~Here.sound THEN PassFails /\ UNCHANGED revoke
       ELSE /\ revoke' = [b \in DOMAIN revoke \cup Here.revoked |->
                            IF b \in Here.revoked THEN journal_set_revoke(revoke, b, rec.id)
                                                  ELSE revoke[b]]
            /\ PassGoesOn([rec EXCEPT !.pos = NextPos])
    /\ UNCHANGED <<logVars, devVars, after, ctxVars, outcome, crashes>>

\* Faulty variants: the replayed blocks are not flushed; the log restarts at the
\* number of the transaction that ended it.
sync_blockdev_skipped ==
    /\ pc = "sync"
    /\ revoke' = NoRevoke
    /\ rec' = [rec EXCEPT !.tid = Tid(rec.end + 1)]
    /\ pc' = "release"
    /\ UNCHANGED <<logVars, devVars, after, ctxVars, outcome, crashes>>

sync_blockdev_same_id ==
    /\ pc = "sync"
    /\ revoke' = NoRevoke
    /\ Flush
    /\ rec' = [rec EXCEPT !.tid = rec.end]
    /\ pc' = "release"
    /\ UNCHANGED <<logVars, after, ctxVars, outcome, crashes>>

\* The end of journal_recover: the replayed blocks are made durable.
sync_blockdev ==
    /\ pc = "sync"
    /\ revoke' = NoRevoke
    /\ \E ok \in IF SyncMayFail THEN BOOLEAN ELSE {TRUE} :
         /\ IF ok THEN Flush ELSE UNCHANGED devVars
         /\ rec' = [rec EXCEPT !.tid = Tid(rec.end + 1), !.err = @ \/ ~ok]
    /\ pc' = "release"
    /\ UNCHANGED <<logVars, after, ctxVars, outcome, crashes>>

\* The end of recover_ext3_journal: the journal is marked empty, whatever
\* journal_recover returned.  Only e2fsck moves s_sequence on.
recover_ext3_journal ==
    /\ pc = "release"
    /\ LET jsb == content["jsb"]
       IN Write("jsb", IF rec.err THEN Jsb(0, jsb.s_sequence, jsb.s_errno)
                       ELSE Jsb(0, IF Program = "e2fsck" THEN rec.tid ELSE jsb.s_sequence,
                                jsb.s_errno \/ rec.failed # 0))
    /\ outcome' = IF outcome \in {"failed", "discarded"} THEN outcome
                  ELSE IF rec.err \/ rec.failed # 0 THEN "failed" ELSE "recovered"
    /\ pc' = "reopen"
    /\ UNCHANGED <<logVars, after, ctxVars, recVars, crashes>>

\* Faulty variant: needs_recovery stays set.
ReopenKeepsFlag ==
    /\ pc = "reopen"
    /\ super' = [content["sb"] EXCEPT !.valid = @ /\ ~rec.err]
    /\ dirty' = TRUE
    /\ pc' = "recheck"
    /\ rec' = NoRec
    /\ UNCHANGED <<logVars, devVars, after, forced, restarted, revoke, outcome, crashes>>

\* The superblock is read again, since the replay may have changed it, and
\* e2fsck_clear_recover clears needs_recovery in it.
Reopen ==
    /\ pc = "reopen"
    /\ super' = [content["sb"] EXCEPT !.needs_recovery = FALSE, !.valid = @ /\ ~rec.err]
    /\ dirty' = TRUE
    /\ pc' = "recheck"
    /\ rec' = NoRec
    /\ UNCHANGED <<logVars, devVars, after, forced, restarted, revoke, outcome, crashes>>

\* debugfs: ext2fs_check_ext3_journal only hands s_errno on.
ext2fs_check_ext3_journal ==
    /\ pc = "recheck" /\ Program = "debugfs"
    /\ LET jsb == content["jsb"]
       IN /\ super' = [super EXCEPT !.error = @ \/ jsb.s_errno]
          /\ Write("jsb", Jsb(jsb.s_start, jsb.s_sequence, FALSE))
    /\ pc' = "close"
    /\ UNCHANGED <<logVars, after, dirty, forced, restarted, recVars, outcome, crashes>>

\* ext2fs_close_free: the superblock is dirty here.  main starts over; debugfs
\* is left.
Close == /\ pc = "close"
         /\ pc' = "flush"
         /\ after' = IF Program = "e2fsck" THEN "restart" ELSE "clean"
         /\ UNCHANGED <<logVars, devVars, ctxVars, recVars, outcome, crashes>>

Step == \/ Open \/ e2fsck_check_ext3_journal \/ check_if_skip
        \/ FlushOthers \/ write_primary_superblock \/ FlushSuper
        \/ RunJournal \/ journal_recover
        \/ EndOfPass \/ ReadError \/ ScanDescriptor \/ ReplayDescriptor
        \/ Commit \/ scan_revoke_records
        \/ sync_blockdev \/ recover_ext3_journal \/ Reopen
        \/ Close
Next == Step \/ Crash

\* The program is run after every crash, and runs until it ends.
Spec == Init /\ [][Next]_vars /\ WF_vars(Step)

-----------------------------------------------------------------------------
(* Properties *)

LogData == {Escaped(b, t) : b \in FsBlocks, t \in Tids \cup {Disk}}

\* Every variable stays within its type; in particular the log is only read
\* inside j_first .. j_last - 1.
TypeOK ==
    /\ log \in [Positions -> [type : {"descriptor", "data", "revoke", "commit"},
                              tid : Tids, tags : Seq([block : FsBlocks, escape : BOOLEAN]),
                              revoked : SUBSET FsBlocks,
                              data : LogData,
                              sound : BOOLEAN, readable : BOOLEAN]]
    /\ DOMAIN content = DevBlocks /\ DOMAIN survives = DevBlocks
    /\ \A b \in DevBlocks : content[b] \in survives[b]
    /\ rec.pos \in Positions /\ {rec.id, rec.end, rec.failed, rec.tid} \subseteq Tids
    /\ DOMAIN revoke \subseteq FsBlocks /\ \A b \in DOMAIN revoke : revoke[b] \in Tids
    /\ super \in [by : Tids \cup {Disk}, needs_recovery : BOOLEAN, valid : BOOLEAN,
                  error : BOOLEAN]
    /\ {dirty, forced, restarted} \subseteq BOOLEAN
    /\ outcome \in {"none", "recovered", "failed", "discarded"}
    /\ crashes \in 0 .. MaxCrashes

\* The transactions with a commit block in the log.
Committed == Len(history.txs) - (IF history.torn THEN 1 ELSE 0)

\* Whether v is what block b has to hold once the first n are replayed; the flags
\* of the superblock apart.
IsGoal(b, v, n) ==
    LET g == Goal(history.txs, history.tid, n, b, history.old[b])
    IN IF b = "sb" THEN v.by = g.by ELSE v = g
Recovered(n) == \A b \in FsBlocks : IsGoal(b, content[b], n)

\* The journal is marked empty on the device only when everything that was
\* committed is there to stay: whatever a crash leaves, s_start = 0 comes with the
\* replayed blocks (sync_blockdev in journal_recover precedes the release).
EmptyOnlyAfterReplay ==
    history.damaged = 0 /\ outcome \in {"none", "recovered"} =>
      \A j \in survives["jsb"] : j.s_start = 0 =>
        \A b \in FsBlocks : \A v \in survives[b] : IsGoal(b, v, Committed)

\* No block ever holds data of a transaction that did not commit, nor data that a
\* later transaction revoked, and what it holds is the data the transaction wrote,
\* magic number included.
OnlyCommittedData ==
    \A b \in FsBlocks : \A v \in survives[b] :
      \/ IF b = "sb" THEN v.by = history.old[b].by ELSE v = history.old[b]
      \/ /\ b # "sb" => v = Image(b, v.by)
         /\ \E n \in (IF history.damaged = 0 THEN {Committed} ELSE 0 .. Committed) :
              Tid(v.by - history.tid) + 1 \in Replayable(history.txs, n, b)

\* The journal is marked recovered in the superblock only after it is marked empty:
\* no crash leaves needs_recovery clear with a log that has data (the "insy-tinsy
\* window" of ext2fs_flush2).
FlagClearsLast ==
    history.flagged =>
      \A s \in survives["sb"], j \in survives["jsb"] :
        ~s.needs_recovery => j.s_start = 0

\* "Restart the log at the next transaction ID, thus invalidating any existing
\* commit records in the log" (journal_recover): once the journal is empty, no commit
\* block in it carries a number the next user of the log will use.
OldCommitsInvalid ==
    outcome = "recovered" =>
      \A j \in survives["jsb"] : j.s_start = 0 =>
        \A p \in Positions :
          log[p].type = "commit" => tid_gt(j.s_sequence, log[p].tid)

\* e2fsck reports a clean file system without a full check only when every committed
\* transaction is in it.  With asynchronous commits the last one cannot be told from
\* one that was interrupted, and may be missing.
CleanIsRecovered ==
    pc = "clean" =>
      \/ Recovered(Committed)
      \/ /\ feature.async /\ Committed > 0 /\ history.damaged = Committed
         /\ Recovered(Committed - 1)

\* The same, unless a crash follows a recovery that failed.
CleanIsRecoveredUnlessCrash ==
    crashes = 0 \/ outcome # "failed" => CleanIsRecovered

\* "Whoops, we attempted to run the journal twice.  This should never happen" (main).
RunsOnce == pc # "fatal"

\* Recovery ends, and e2fsck goes on to its check or finds nothing to check.
RecoveryEnds == <>[](pc \in {"clean", "full check"})
================================================================================
