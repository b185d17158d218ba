------------------------------ MODULE FsckDriver ------------------------------
(******************************************************************************)
(* fsck (misc/fsck.c), which runs the checkers of several file systems in     *)
(* parallel: for the entries of fstab (check_all) or for the devices named on *)
(* its command line.  The checkers are its children; SIGINT and SIGTERM may   *)
(* come at any time.                                                          *)
(*                                                                            *)
(* An exit code is the set of its bits.  Of an entry the model keeps what the *)
(* driver looks at: the disk (base_device; NoDisk when it is not known),      *)
(* whether it is a soft raid, the pass number, whether it is the root, is of  *)
(* a type that shows progress, is mounted, or is ignored for another reason   *)
(* than its pass.  The helper that sends SIGUSR1 a second later is left out.  *)
(******************************************************************************)
EXTENDS Integers, FiniteSets, SequencesExt

CONSTANTS
  Fstab,            \* filesys_info, in order
  ExitCodes,        \* what a checker may exit with
  Modes,            \* "all": check_all; "list": the devices of the command line
  max_running,      \* 0: no limit
  Options,          \* the sets of options that it may be given
  ForkFails,        \* whether a checker may fail to start
  Cancels           \* whether a signal may come

VARIABLES
  fsck,             \* where main is: its locals and the wait that it is in
  done,             \* the entries with FLAG_DONE
  instance_list,
  num_running,
  sig,              \* cancel_requested, kill_sent, and whether waitpid was interrupted
  child             \* the checkers as processes, and how often each was started

fsckVars == <<fsck, done, instance_list, num_running, sig, child>>

Fss == DOMAIN Fstab
NoDisk == "?"
EXIT_NONDESTRUCT == 1

\* load_fs_info: without any pass number all are 1; otherwise a missing one is 0.
passno ==
  LET old_fstab == \A f \in Fss : Fstab[f].passno < 0
  IN  [f \in Fss |-> IF old_fstab THEN 1 ELSE IF Fstab[f].passno < 0 THEN 0 ELSE Fstab[f].passno]

\* The options of this call.
serialize == "serialize" \in fsck.options
skip_root == "skip_root" \in fsck.options
parallel_root == "parallel_root" \in fsck.options
ignore_mounted == "ignore_mounted" \in fsck.options
force_all_parallel == "force_all_parallel" \in fsck.options
progress == "progress" \in fsck.options

ignore(f) == passno[f] = 0 \/ Fstab[f].ignored
Mounted(f) == ignore_mounted /\ Fstab[f].mounted
Root == SelectInSeq(Fstab, LAMBDA e : e.root)    \* 0: there is none

------------------------------------------------------------------------------
Listed == Range(instance_list)
progress_active(list) == \E i \in Range(list) : i.progress

\* fsck_device and execute: the child is started and put at the end of the list, or the
\* error is only printed.
fsck_device(f) ==
  \/ /\ instance_list' = Append(instance_list,
          [fs |-> f, progress |-> progress /\ Fstab[f].ext /\ ~progress_active(instance_list)])
     /\ num_running' = num_running + 1
     /\ child' = [child EXCEPT ![f] = [st |-> "runs", code |-> {}, starts |-> @.starts + 1]]
  \/ /\ ForkFails
     /\ child' = [child EXCEPT ![f].starts = @ + 1]
     /\ UNCHANGED <<instance_list, num_running>>

\* kill_all: SIGTERM to every child in the list.
kill_all(c) == [f \in Fss |-> IF c[f].st = "runs" /\ \E i \in Listed : i.fs = f
                              THEN [c[f] EXCEPT !.st = "killed"] ELSE c[f]]
KillIfCancelled ==
  IF sig.cancel_requested /\ ~sig.kill_sent
  THEN child' = kill_all(child) /\ sig' = [sig EXCEPT !.kill_sent = TRUE, !.eintr = FALSE]
  ELSE UNCHANGED child /\ sig' = [sig EXCEPT !.eintr = FALSE]

\* Mutant: a soft raid and an unknown disk count as disks of their own.
device_already_active_own(f) ==
  /\ ~force_all_parallel
  /\ \E i \in Listed : Fstab[i.fs].disk = Fstab[f].disk

device_already_active(f) ==
  /\ ~force_all_parallel
  /\ \/ instance_list # <<>> /\ (Fstab[Head(instance_list).fs].md \/ Fstab[f].md)
     \/ Fstab[f].disk = NoDisk /\ instance_list # <<>>
     \/ \E i \in Listed : Fstab[i.fs].disk \in {NoDisk, Fstab[f].disk}

\* wait_many (how = "all" or "atleast") or a single wait_one(0) (how = "one"), after which
\* main is at pc back.
Waits(back, how) ==
  fsck' = [fsck EXCEPT !.pc = "enter", !.back = back, !.how = how, !.hang = TRUE]

\* wait_one: nothing to wait for, or the call of waitpid.
EnterWait ==
  /\ fsck.pc = "enter"
  /\ fsck' = [fsck EXCEPT !.pc = IF instance_list = <<>> THEN fsck.back ELSE "waitpid"]
  /\ UNCHANGED <<done, instance_list, num_running, sig, child>>

\* waitpid is interrupted by a signal, and called again.
Interrupted ==
  /\ fsck.pc = "waitpid" /\ sig.eintr
  /\ KillIfCancelled
  /\ UNCHANGED <<fsck, done, instance_list, num_running>>

\* The instance leaves the list; one that showed the progress hands it on.
Unlinked(k) ==
  LET rest == RemoveAt(instance_list, k)
      heir == SelectInSeq(rest, LAMBDA i : Fstab[i.fs].ext)
  IN  IF progress /\ instance_list[k].progress /\ ~progress_active(rest) /\ heir # 0
      THEN [rest EXCEPT ![heir].progress = TRUE] ELSE rest

\* waitpid returns a child; wait_many goes on, without blocking if one was enough.
Reap ==
  /\ fsck.pc = "waitpid" /\ ~sig.eintr
  /\ \E k \in DOMAIN instance_list :
       LET f == instance_list[k].fs
       IN  /\ child[f].st = "exited"
           /\ instance_list' = Unlinked(k)
           /\ fsck' = [fsck EXCEPT !.status = @ \cup child[f].code,
                                   !.pc = IF fsck.how = "one" THEN fsck.back ELSE "enter",
                                   !.hang = fsck.how = "all"]
  /\ num_running' = num_running - 1
  /\ KillIfCancelled
  /\ UNCHANGED done

\* waitpid with WNOHANG finds no child that has exited.
NothingToReap ==
  /\ fsck.pc = "waitpid" /\ ~fsck.hang
  /\ \A i \in Listed : child[i.fs].st # "exited"
  /\ fsck' = [fsck EXCEPT !.pc = fsck.back]
  /\ KillIfCancelled
  /\ UNCHANGED <<done, instance_list, num_running>>

------------------------------------------------------------------------------
\* check_all: first the entries to ignore, then the root by itself.
CheckRoot ==
  /\ fsck.pc = "root"
  /\ LET ignored == {f \in Fss : ignore(f)}
         roots   == IF skip_root THEN {f \in Fss : Fstab[f].root} ELSE {}
     IN  IF parallel_root \/ Root = 0
         THEN /\ done' = ignored \cup roots
              /\ fsck' = [fsck EXCEPT !.pc = "pass"]
              /\ UNCHANGED <<instance_list, num_running, child>>
         ELSE /\ done' = ignored \cup roots \cup {Root}
              /\ IF ~skip_root /\ ~ignore(Root) /\ ~Mounted(Root)
                 THEN fsck_device(Root) /\ Waits("rooted", "all")
                 ELSE /\ fsck' = [fsck EXCEPT !.pc = "pass"]
                      /\ UNCHANGED <<instance_list, num_running, child>>
  /\ UNCHANGED sig

RootChecked ==
  /\ fsck.pc = "rooted"
  /\ fsck' = [fsck EXCEPT !.pc = IF fsck.status \subseteq {EXIT_NONDESTRUCT} THEN "pass" ELSE "exit"]
  /\ UNCHANGED <<done, instance_list, num_running, sig, child>>

\* One turn of the loop over the passes begins.
BeginPass ==
  /\ fsck.pc = "pass"
  /\ fsck' = [fsck EXCEPT !.pc = "scan", !.pos = 1, !.not_done_yet = FALSE, !.pass_done = TRUE]
  /\ UNCHANGED <<done, instance_list, num_running, sig, child>>

\* The entry at pos is passed over, deferred or started.
ScanEntry ==
  /\ fsck.pc = "scan" /\ fsck.pos \in Fss /\ ~sig.cancel_requested
  /\ LET f == fsck.pos
         Skip(l) == /\ fsck' = [l EXCEPT !.pos = @ + 1]
                    /\ UNCHANGED <<instance_list, num_running, child>>
     IN  IF f \in done THEN Skip(fsck) /\ UNCHANGED done
         ELSE IF passno[f] > fsck.passno
         THEN Skip([fsck EXCEPT !.not_done_yet = TRUE]) /\ UNCHANGED done
         ELSE IF Mounted(f) THEN Skip(fsck) /\ done' = done \cup {f}
         ELSE IF device_already_active(f)
         THEN Skip([fsck EXCEPT !.pass_done = FALSE]) /\ UNCHANGED done
         ELSE /\ fsck_device(f)
              /\ done' = done \cup {f}
              /\ fsck' = IF serialize \/ (max_running # 0 /\ num_running' >= max_running)
                         THEN [fsck EXCEPT !.pass_done = FALSE, !.pos = Len(Fstab) + 1]
                         ELSE [fsck EXCEPT !.pos = @ + 1]
  /\ UNCHANGED sig

ScanEnds ==
  /\ fsck.pc = "scan" /\ (fsck.pos \notin Fss \/ sig.cancel_requested)
  /\ IF sig.cancel_requested THEN fsck' = [fsck EXCEPT !.pc = "final"]
     ELSE Waits("passed", IF fsck.pass_done THEN "all" ELSE "atleast")
  /\ UNCHANGED <<done, instance_list, num_running, sig, child>>

\* Mutant: the loop ends although entries of this pass were deferred.
PassEnds_early ==
  /\ fsck.pc = "passed"
  /\ fsck' = [fsck EXCEPT !.passno = IF fsck.pass_done THEN @ + 1 ELSE @,
                          !.pc = IF fsck.not_done_yet THEN "pass" ELSE "final"]
  /\ UNCHANGED <<done, instance_list, num_running, sig, child>>

\* Mutant: the pass number stays.
PassEnds_stuck ==
  /\ fsck.pc = "passed"
  /\ fsck' = [fsck EXCEPT !.pc = IF fsck.not_done_yet \/ ~fsck.pass_done THEN "pass" ELSE "final"]
  /\ UNCHANGED <<done, instance_list, num_running, sig, child>>

\* The end of a turn: the next pass begins once no entry of this one was deferred.
PassEnds ==
  /\ fsck.pc = "passed"
  /\ fsck' = [fsck EXCEPT !.passno = IF fsck.pass_done THEN @ + 1 ELSE @,
                          !.pc = IF fsck.not_done_yet \/ ~fsck.pass_done THEN "pass" ELSE "final"]
  /\ UNCHANGED <<done, instance_list, num_running, sig, child>>

FinalWait ==
  /\ fsck.pc = "final"
  /\ KillIfCancelled
  /\ Waits("exit", "atleast")
  /\ UNCHANGED <<done, instance_list, num_running>>

\* main with devices on its command line.
NextDevice ==
  /\ fsck.pc = "devices" /\ fsck.pos \in Fss
  /\ LET f == fsck.pos
         next == [fsck EXCEPT !.pos = @ + 1]
     IN  IF sig.cancel_requested
         THEN /\ KillIfCancelled
              /\ fsck' = [fsck EXCEPT !.pos = Len(Fstab) + 1]
              /\ UNCHANGED <<instance_list, num_running>>
         ELSE /\ UNCHANGED sig
              /\ IF Mounted(f) THEN fsck' = next /\ UNCHANGED <<instance_list, num_running, child>>
                 ELSE /\ fsck_device(f)
                      /\ fsck' = IF serialize \/ (max_running # 0 /\ num_running' >= max_running)
                                 THEN [next EXCEPT !.pc = "enter", !.back = "devices",
                                                   !.how = "one", !.hang = TRUE]
                                 ELSE next
  /\ UNCHANGED done

DevicesEnd ==
  /\ fsck.pc = "devices" /\ fsck.pos \notin Fss
  /\ Waits("exit", "all")
  /\ UNCHANGED <<done, instance_list, num_running, sig, child>>

Driver == EnterWait \/ Interrupted \/ Reap \/ NothingToReap \/ CheckRoot \/ RootChecked \/ BeginPass
          \/ ScanEntry \/ ScanEnds \/ PassEnds \/ FinalWait \/ NextDevice \/ DevicesEnd

------------------------------------------------------------------------------
\* A checker exits, by itself or at the signal.
ChildExits(f) ==
  /\ child[f].st \in {"runs", "killed"}
  /\ \E code \in ExitCodes : child' = [child EXCEPT ![f].st = "exited", ![f].code = code]
  /\ UNCHANGED <<fsck, done, instance_list, num_running, sig>>

\* signal_cancel; only a waitpid that has begun is interrupted.
signal_cancel ==
  /\ Cancels /\ ~sig.cancel_requested /\ fsck.pc # "exit"
  /\ sig' = [sig EXCEPT !.cancel_requested = TRUE, !.eintr = fsck.pc = "waitpid"]
  /\ UNCHANGED <<fsck, done, instance_list, num_running, child>>

FsckInit ==
  /\ \E m \in Modes, o \in Options :
       fsck = [pc |-> IF m = "all" THEN "root" ELSE "devices", mode |-> m, options |-> o, pos |-> 1,
               passno |-> 1, pass_done |-> TRUE, not_done_yet |-> FALSE,
               back |-> "exit", how |-> "all", hang |-> TRUE, status |-> {}]
  /\ done = {}
  /\ instance_list = <<>>
  /\ num_running = 0
  /\ sig = [cancel_requested |-> FALSE, kill_sent |-> FALSE, eintr |-> FALSE]
  /\ child = [f \in Fss |-> [st |-> "none", code |-> {}, starts |-> 0]]

FsckNext == Driver \/ signal_cancel \/ \E f \in Fss : ChildExits(f)
FsckFairness == WF_fsckVars(Driver) /\ \A f \in Fss : WF_fsckVars(ChildExits(f))
FsckSpec == FsckInit /\ [][FsckNext]_fsckVars /\ FsckFairness

------------------------------------------------------------------------------
\* In check_all, two checkers that fsck has not waited for are never on one disk, nor one of
\* them on a soft raid or on a disk that is not known; all passes before theirs are over; and
\* no more than max_running are there (device_already_active and the loop of check_all).
ParallelChecksAreSafe ==
  fsck.mode = "all" =>
    /\ ~force_all_parallel =>
         \A i, j \in Listed : i.fs # j.fs =>
           /\ ~Fstab[i.fs].md
           /\ Fstab[i.fs].disk # NoDisk /\ Fstab[i.fs].disk # Fstab[j.fs].disk
    /\ \A i \in Listed, g \in Fss :
         (~ignore(g) /\ ~Mounted(g) /\ ~Fstab[g].root /\ ~Fstab[i.fs].root /\ passno[g] < passno[i.fs])
           => child[g].starts = 1 /\ child[g].st \in {"none", "exited"}
    /\ num_running = Len(instance_list)
    /\ max_running # 0 => num_running <= max_running

\* When fsck exits and no signal came, every entry that is to be checked was checked once,
\* no checker runs, and the status is the bitwise or of the exit codes (wait_many); only a
\* root that could not be repaired ends check_all before.
ExitIsComplete ==
  (fsck.pc = "exit" /\ ~sig.cancel_requested) =>
    /\ fsck.status = UNION {child[f].code : f \in Fss}
    /\ \A f \in Fss : child[f].st \in {"none", "exited"}
    /\ \/ \A f \in Fss : child[f].starts =
            IF \/ Mounted(f)
               \/ fsck.mode = "all" /\ (ignore(f) \/ (skip_root /\ Fstab[f].root))
            THEN 0 ELSE 1
       \/ /\ fsck.mode = "all" /\ ~parallel_root /\ Root # 0
          /\ ~(child[Root].code \subseteq {EXIT_NONDESTRUCT})
==============================================================================
