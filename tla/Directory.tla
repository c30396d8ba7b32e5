------------------------------ MODULE Directory ------------------------------
(***************************************************************************)
(* What the server promises those who ask it for a client: one address per *)
(* client or none, that changes for one client at a time and is given up   *)
(* before another takes its place; a restart forgets them all.             *)
(***************************************************************************)

CONSTANTS Client, Address, None

VARIABLE entry       \* the address a client is listed under, or None

Init == entry = [c \in Client |-> None]

Register(c, a) == entry[c] = None /\ entry' = [entry EXCEPT ![c] = a]

Remove(c) == entry' = [entry EXCEPT ![c] = None]

Clear == entry' = [c \in Client |-> None]

Next ==
    \/ \E c \in Client : Remove(c) \/ \E a \in Address : Register(c, a)
    \/ Clear

Spec == Init /\ [][Next]_entry
=============================================================================
