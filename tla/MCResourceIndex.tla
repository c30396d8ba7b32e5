-------------------------- MODULE MCResourceIndex --------------------------
(* Small computers for TLC. *)
EXTENDS ResourceIndex

CONSTANTS d1, d2, f1, f2
=============================================================================
