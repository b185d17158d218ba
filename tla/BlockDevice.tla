------------------------------ MODULE BlockDevice ------------------------------
(***************************************************************************)
(* What an io_channel promises its caller (lib/ext2fs/ext2_io.h): an array *)
(* of blocks.  A write call hands over the new contents of some blocks,    *)
(* which take effect one after the other and all before the call succeeds; *)
(* nothing else ever changes a block.  A successful flush makes the array  *)
(* durable; a crash leaves in every block a value the caller gave it since *)
(* the last flush, or the flushed one.                                     *)
(*                                                                         *)
(* Once a write error has been returned nothing is promised any more until *)
(* the device is opened again.                                             *)
(***************************************************************************)
EXTENDS Naturals

CONSTANTS Blocks,      \* the block numbers of the device
          Data         \* the values a block can hold

VARIABLES content,     \* what a read of each block returns
          survives,    \* per block, the values a crash may leave in it
          req,         \* the write call being served: block -> new value
          failed       \* a write error is being, or has been, returned

vars == <<content, survives, req, failed>>

NoReq == [b \in {} |-> {}]

Init == /\ content \in [Blocks -> Data]
        /\ survives = [b \in Blocks |-> {content[b]}]
        /\ req = NoReq
        /\ failed = FALSE

\* A write call is issued.
Submit == /\ req = NoReq
          /\ \E S \in SUBSET Blocks : req' \in [S -> Data]
          /\ UNCHANGED <<content, survives, failed>>

\* Some of the requested blocks take their new value.  What a crash may leave
\* grows by requested values only.
Store == /\ \A b \in Blocks :
              \/ content'[b] = content[b]
              \/ b \in DOMAIN req /\ content'[b] = req[b]
         /\ content' \in [Blocks -> Data]
         /\ \A b \in Blocks :
              /\ content'[b] \in survives'[b]
              /\ \A v \in survives'[b] :
                   v \in survives[b] \/ (b \in DOMAIN req /\ v = req[b])
         /\ survives' \in [Blocks -> SUBSET Data]
         /\ UNCHANGED <<req, failed>>

\* The write call succeeds: every requested block holds its new value.
Complete == /\ \A b \in DOMAIN req : content[b] = req[b]
            /\ req' = NoReq
            /\ UNCHANGED <<content, survives, failed>>

\* A flush succeeds: the present contents survive every later crash.
Flush == /\ req = NoReq
         /\ survives' = [b \in Blocks |-> {content[b]}]
         /\ UNCHANGED <<content, req, failed>>

\* Power is lost, or the process dies; the device is opened again.
Crash == /\ content' \in [Blocks -> Data]
         /\ \A b \in Blocks : content'[b] \in survives[b]
         /\ survives' = [b \in Blocks |-> {content'[b]}]
         /\ req' = NoReq
         /\ failed' = FALSE

\* A write error, and everything that follows until the device is reopened.
Fail == failed' = TRUE

Reopen == /\ failed
          /\ content' \in [Blocks -> Data]
          /\ survives' = [b \in Blocks |-> {content'[b]}]
          /\ req' = NoReq
          /\ failed' = FALSE

Next == Submit \/ Store \/ Complete \/ Flush \/ Crash \/ Fail \/ Reopen

Spec == Init /\ [][Next]_vars
================================================================================
