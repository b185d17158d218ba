------------------------------ MODULE MCProcesses ------------------------------
(***************************************************************************)
(* Programs that run at the same time, model-checked in one run: the users *)
(* of a file system with MMP, and fsck with its checkers.  A behaviour     *)
(* picks one of the two and takes steps of it only, while the other stays  *)
(* in one initial state; they share nothing.                               *)
(***************************************************************************)
EXTENDS Mmp, FsckDriver

VARIABLE part

\* In the first pass the root, another file system on its disk and one on a second disk; in
\* the second one on an unknown disk that is not ext and a raid.
Fs(disk, pass) == [disk |-> disk, md |-> FALSE, passno |-> pass, root |-> FALSE, ext |-> TRUE,
                   mounted |-> FALSE, ignored |-> FALSE]
MCFstab == <<[Fs("a", 1) EXCEPT !.root = TRUE], Fs("a", 1), [Fs("b", 1) EXCEPT !.mounted = TRUE],
             [Fs(NoDisk, 2) EXCEPT !.ext = FALSE], [Fs("c", 2) EXCEPT !.md = TRUE]>>
MCExitCodes == {{}, {4}}

ProcInit ==
  /\ part \in {"mmp", "fsck"}
  /\ Init /\ (part = "fsck" => block.node = CHOOSE u \in Users : TRUE)
  /\ FsckInit /\ (part = "mmp" => fsck.mode = "all" /\ fsck.options = {})

InMmp(step)  == part = "mmp" /\ step /\ UNCHANGED <<part, fsckVars>>
InFsck(step) == part = "fsck" /\ step /\ UNCHANGED <<part, vars>>

\* fsck is over: the only state in which nothing may happen any more.
Over == part = "fsck" /\ fsck.pc = "exit" /\ UNCHANGED <<part, vars, fsckVars>>
ProcNext == InMmp(Next) \/ InFsck(FsckNext) \/ Over

procVars == <<part, vars, fsckVars>>
ProcSpec ==
  /\ ProcInit /\ [][ProcNext]_procVars
  /\ WF_procVars(InMmp(Tick)) /\ \A u \in Users : WF_procVars(InMmp(Owed(u)))
  /\ WF_procVars(InFsck(Driver)) /\ \A f \in Fss : WF_procVars(InFsck(ChildExits(f)))

\* fsck exits, whatever the checkers exit with and whenever a signal comes (check_all,
\* wait_one and the loop over the devices of main).
FsckEnds == part = "fsck" ~> fsck.pc = "exit"
==============================================================================
