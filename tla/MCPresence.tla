----------------------------- MODULE MCPresence -----------------------------
(* Small networks for TLC. *)
EXTENDS Presence, TLC

CONSTANTS c1, c2

(* Clients of the same kind are interchangeable. *)
Symmetry == Permutations(Client)
=============================================================================
