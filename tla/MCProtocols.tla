------------------------------ MODULE MCProtocols ------------------------------
(****************************************************************************)
(* The undo file, the tdb transaction, the time-based UUIDs and e2fsck's    *)
(* passes 3 and 4, model-checked in one run: a behaviour picks one part and *)
(* takes steps of it only, while the others stay in one initial state.  The *)
(* parts share nothing.                                                     *)
(****************************************************************************)
EXTENDS UndoIO, TdbTransaction, Uuid, Connectivity

VARIABLE part

MCOldDevice == <<"s", "a", "b">>
MCToolValue == <<"m", "n">>
MCProcessOf == [c \in Clients |-> c]

\* The passes rest on a sound file system: every directory and file in the root.
AllInRoot == s = Pass2(Image([i \in SubDirs \cup PlainFiles |-> EXT2_ROOT_INO],
                             [d \in SubDirs |-> EXT2_ROOT_INO], TRUE, 0, FALSE, {}, TRUE))

Init ==
  /\ part \in {"undo", "transaction", "uuid", "passes"}
  /\ UndoInit /\ TdbInit /\ UuidInit
  /\ IF part = "passes" THEN PassInit ELSE AllInRoot /\ at = At("root")

Next ==
  \/ part = "undo" /\ UndoNext /\ UNCHANGED <<part, tdbVars, uuidVars, passVars>>
  \/ part = "transaction" /\ TdbNext /\ UNCHANGED <<part, undoVars, uuidVars, passVars>>
  \/ part = "uuid" /\ UuidNext /\ UNCHANGED <<part, undoVars, tdbVars, passVars>>
  \/ part = "passes" /\ PassNext /\ UNCHANGED <<part, undoVars, tdbVars, uuidVars>>

vars == <<part, undoVars, tdbVars, uuidVars, passVars>>
Spec == Init /\ [][Next]_vars
==============================================================================
