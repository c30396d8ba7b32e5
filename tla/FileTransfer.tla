---------------------------- MODULE FileTransfer ----------------------------
(***************************************************************************)
(* What a download promises: the blocks of the file are stored one at a    *)
(* time, each once, and the download ends at most once, either as          *)
(* "finished" with every block of the file stored or as "aborted".         *)
(***************************************************************************)

CONSTANT Blocks        \* the blocks the file consists of

VARIABLES stored,      \* the blocks that are in their place on the disk
          outcome      \* "running", "finished" or "aborted"

vars == <<stored, outcome>>

Init == stored = {} /\ outcome = "running"

(* A block reaches its place in the file. *)
Store(b) ==
    /\ outcome = "running"
    /\ b \notin stored
    /\ stored' = stored \cup {b}
    /\ UNCHANGED outcome

(* The user is told that the file is complete. *)
Finish ==
    /\ outcome = "running"
    /\ stored = Blocks
    /\ outcome' = "finished"
    /\ UNCHANGED stored

(* The user is told that the download was given up. *)
Abort ==
    /\ outcome = "running"
    /\ outcome' = "aborted"
    /\ UNCHANGED stored

Next == (\E b \in Blocks : Store(b)) \/ Finish \/ Abort

Spec == Init /\ [][Next]_vars
=============================================================================
