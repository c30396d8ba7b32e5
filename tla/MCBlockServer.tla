--------------------------- MODULE MCBlockServer ---------------------------
(* A small file for TLC: one block, and the number after it. *)
EXTENDS BlockServer

NamedBlocks == 0..1
OneBlock    == {0}
=============================================================================
