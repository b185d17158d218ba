---------------------------------- MODULE Mmp ----------------------------------
(***************************************************************************)
(* Multiple mount protection (lib/ext2fs/mmp.c): nodes that share a device *)
(* claim the file system through one block of it.  There is no atomic      *)
(* test-and-set; a claim relies on time: it is written, left alone for a   *)
(* while, and stands if it is still there.                                 *)
(*                                                                         *)
(* Time is discrete.  A sleep lasts exactly its length; whatever a program *)
(* does between two sleeps may be late by Delay.  A timer counts down to   *)
(* the moment its program is due, and below it while the program is late.  *)
(***************************************************************************)
EXTENDS Integers, FiniteSets

CONSTANTS Tools,        \* programs that use libext2fs
          Mounts,       \* mounts by the kernel
          Interval,     \* mmp_check_interval, and the kernel's update interval
          Delay,        \* how late a step may be
          Grace,        \* a first read this soon after a write is a close call
          CloseCalls,   \* whether there are any
          SeqLimit      \* how many sequence numbers there are

Users == Tools \cup Mounts
SleepTime == IF 2 * Interval + 1 < Interval + 60 THEN 2 * Interval + 1 ELSE Interval + 60

ASSUME MmpConstants ==
    /\ Interval \in Nat \ {0} /\ Delay \in Nat /\ Grace \in Nat /\ CloseCalls \in BOOLEAN
    /\ IsFiniteSet(Users) /\ SeqLimit \in Nat /\ SeqLimit > Cardinality(Users) + 1
    /\ Tools \cap Mounts = {}

VARIABLES block,      \* the MMP block: mmp_seq, and mmp_nodename
          age,        \* time since it was written, up to Grace + 1
          pc, timer,
          seen,       \* seq in ext2fs_mmp_start, fs->mmp_buf afterwards
          overlooked  \* history: ext2fs_mmp_stop has succeeded on a changed block

vars == <<block, age, pc, timer, seen, overlooked>>

\* mmp_seq: EXT4_MMP_SEQ_CLEAN, EXT4_MMP_SEQ_FSCK, or a sequence number.
MmpSeq(kind, n) == [kind |-> kind, n |-> n]
Clean == MmpSeq("clean", 0)
Fsck == MmpSeq("fsck", 0)
Block(seq, node) == [seq |-> seq, node |-> node]

Init == /\ block \in {Block(Clean, u) : u \in Users}
        /\ age = Grace + 1
        /\ pc = [u \in Users |-> "out"]
        /\ timer = [u \in Users |-> 0]
        /\ seen = [u \in Users |-> Block(Clean, u)]
        /\ overlooked = FALSE

Set(f, u, v) == [f EXCEPT ![u] = v]
Goto(u, where, wait) == /\ pc' = Set(pc, u, where)
                        /\ timer' = Set(timer, u, wait)
Due(u, where) == pc[u] = where /\ timer[u] =< 0
Quit(u) == Goto(u, "out", 0) /\ seen' = Set(seen, u, Block(Clean, u))

\* ext2fs_mmp_write, with the flush that ends it.
ext2fs_mmp_write(b) == block' = b /\ age' = 0
NoWrite == UNCHANGED <<block, age>>

\* ext2fs_mmp_new_seq is random: it never returns a number that someone remembers.
ext2fs_mmp_new_seq ==
    MmpSeq("live", CHOOSE n \in 0 .. SeqLimit - 1 :
                  \A b \in {block} \cup {seen[u] : u \in Users} : b.seq # MmpSeq("live", n))

-----------------------------------------------------------------------------
(* ext2fs_mmp_start.  Mounting does the same (external). *)

\* The first read, in e2fsck after e2fsck_check_mmp let it pass.  On
\* EXT4_MMP_SEQ_FSCK the start fails at once.
FirstRead(u) ==
    /\ pc[u] = "out"
    /\ block.seq # Fsck
    /\ CloseCalls \/ block.seq = Clean \/ age > Grace
    /\ seen' = Set(seen, u, block)
    /\ IF block.seq = Clean THEN Goto(u, "claim", 0) ELSE Goto(u, "watch", SleepTime)
    /\ NoWrite /\ UNCHANGED overlooked

\* Faulty variant: the second read is not compared with the first.
SecondReadUnchecked(u) ==
    /\ Due(u, "watch")
    /\ Goto(u, "claim", 0) /\ UNCHANGED seen
    /\ NoWrite /\ UNCHANGED overlooked

\* Faulty variant: a start waits on until the number is the one it first read.
SecondReadAgain(u) ==
    /\ Due(u, "watch")
    /\ IF block.seq = seen[u].seq THEN Goto(u, "claim", 0) ELSE Goto(u, "watch", SleepTime)
    /\ NoWrite /\ UNCHANGED seen /\ UNCHANGED overlooked

\* The second read, after a sleep: someone alive would have changed the number.
SecondRead(u) ==
    /\ Due(u, "watch")
    /\ IF block.seq = seen[u].seq THEN Goto(u, "claim", 0) /\ UNCHANGED seen ELSE Quit(u)
    /\ NoWrite /\ UNCHANGED overlooked

Claim(u) ==
    /\ Due(u, "claim")
    /\ ext2fs_mmp_write(Block(ext2fs_mmp_new_seq, u))
    /\ seen' = Set(seen, u, block')
    /\ Goto(u, "claimed", SleepTime)
    /\ UNCHANGED overlooked

\* Faulty variant: the claim is taken to stand.
ThirdReadUnchecked(u) ==
    /\ Due(u, "claimed")
    /\ Goto(u, IF u \in Mounts THEN "mounted" ELSE "mark", 0) /\ UNCHANGED seen
    /\ NoWrite /\ UNCHANGED overlooked

\* The third read.  A mount is complete here, and kmmpd starts at once; a tool goes
\* on to mark the block.
ThirdRead(u) ==
    /\ Due(u, "claimed")
    /\ IF block.seq # seen[u].seq THEN Quit(u)
       ELSE Goto(u, IF u \in Mounts THEN "mounted" ELSE "mark", 0) /\ UNCHANGED seen
    /\ NoWrite /\ UNCHANGED overlooked

Mark(u) ==
    /\ Due(u, "mark")
    /\ ext2fs_mmp_write(Block(Fsck, u))
    /\ seen' = Set(seen, u, Block(Fsck, u))
    /\ Goto(u, "in", 0)
    /\ UNCHANGED overlooked

-----------------------------------------------------------------------------
(* ext2fs_mmp_update2, ext2fs_mmp_stop *)

\* e2fsck_mmp_update ends the program when the block has changed; fatal_error
\* then calls ext2fs_mmp_stop.
ext2fs_mmp_update2(u) ==
    /\ pc[u] = "in"
    /\ IF block = seen[u] THEN ext2fs_mmp_write(block) /\ UNCHANGED <<pc, timer>>
                          ELSE NoWrite /\ Goto(u, "stop", 0)
    /\ UNCHANGED <<seen, overlooked>>

StartStop(u) ==
    /\ pc[u] = "in"
    /\ Goto(u, "stop", 0)
    /\ NoWrite /\ UNCHANGED <<seen, overlooked>>

\* The block is read into mmp_buf itself (and into mmp_cmp), and then mmp_buf is
\* compared with mmp_cmp: what was read, with what was read.
ext2fs_mmp_stop(u) ==
    /\ Due(u, "stop")
    /\ LET mmp_buf == block
           mmp_cmp == block
           change_abort == mmp_buf # mmp_cmp
       IN /\ IF change_abort THEN NoWrite
                              ELSE ext2fs_mmp_write([mmp_cmp EXCEPT !.seq = Clean])
          /\ overlooked' = (overlooked \/ (block # seen[u] /\ ~change_abort))
    /\ Quit(u)

-----------------------------------------------------------------------------
(* The kernel's kmmpd and unmount (external); crashes; time *)

Beat(u) ==
    /\ Due(u, "mounted")
    /\ IF block # seen[u] THEN Quit(u) /\ NoWrite
       ELSE /\ ext2fs_mmp_write(Block(ext2fs_mmp_new_seq, u))
            /\ seen' = Set(seen, u, block')
            /\ Goto(u, "mounted", Interval)
    /\ UNCHANGED overlooked

Unmount(u) ==
    /\ pc[u] = "mounted"
    /\ ext2fs_mmp_write(Block(Clean, u))
    /\ Quit(u)
    /\ UNCHANGED overlooked

Crash(u) == /\ pc[u] # "out"
            /\ Quit(u)
            /\ NoWrite /\ UNCHANGED overlooked

\* tune2fs -E clear_mmp, to be used "if you are sure the filesystem is not in use
\* on any node".
ext2fs_mmp_clear(u) ==
    /\ \A w \in Users : pc[w] = "out"
    /\ block.seq # Clean
    /\ ext2fs_mmp_write(Block(Clean, u))
    /\ UNCHANGED <<pc, timer, seen, overlooked>>

Waiting(u) == pc[u] \notin {"out", "in"}
Tick == /\ \A u \in Users : Waiting(u) => timer[u] > -Delay
        /\ timer' = [u \in Users |-> IF Waiting(u) THEN timer[u] - 1 ELSE timer[u]]
        /\ age' = IF age =< Grace THEN age + 1 ELSE age
        /\ UNCHANGED <<block, pc, seen, overlooked>>

\* A step a program that is started owes.
Owed(u) == \/ SecondRead(u) \/ Claim(u) \/ ThirdRead(u) \/ Mark(u)
           \/ ext2fs_mmp_stop(u) \/ Beat(u)
Next == \/ Tick
        \/ \E u \in Users :
             FirstRead(u) \/ Owed(u) \/ Unmount(u) \/ Crash(u)
        \/ \E u \in Tools :
             ext2fs_mmp_update2(u) \/ StartStop(u) \/ ext2fs_mmp_clear(u)

\* Time passes, and programs that are due run.
Spec == /\ Init /\ [][Next]_vars
        /\ WF_vars(Tick)
        /\ \A u \in Users : WF_vars(Owed(u))

-----------------------------------------------------------------------------
(* Properties *)

Using(u) == pc[u] \in {"in", "mounted", "stop"}

\* At most one user has the file system ("Make sure that the fs is not mounted or
\* being fsck'ed while opening the fs").  It needs ~CloseCalls: when a start makes its
\* first read within Grace of another's claim, the two sleeps are equally long and
\* end together, and the second read does not tell whether the other is alive.
ExclusiveUse == \A u, w \in Users : Using(u) /\ Using(w) => u = w

\* The claim of the one who has the file system stays in the block: no start that
\* fails, and no stop of another, takes it away.
ClaimStands ==
    \A u \in Users :
      pc[u] \in {"in", "mounted"} =>
        block.node = u /\ (block.seq = Fsck <=> pc[u] = "in") /\ block.seq # Clean

\* ext2fs_mmp_stop returns EXT2_ET_MMP_CHANGE_ABORT when the block is not as its
\* user left it ("it means the filesystem was modified by some other process while
\* in use").
StopReportsChange == ~overlooked

\* Every start comes to an end: the user is in, mounted, or out.
StartEnds == \A u \in Users :
    pc[u] \in {"watch", "claim", "claimed", "mark"}
      ~> pc[u] \in {"in", "mounted", "out"}
================================================================================
